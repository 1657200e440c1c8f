# PuzzleForge in TLA+

PuzzleForge searches the key interval of a Bitcoin puzzle in chunks. A
coordinator leases chunks to GPU workers and keeps the account of what was
searched; planners choose the order of the chunks; a local process drives one
GPU, watches its temperature, tests seed phrases in the background and, when the
key is found, moves the funds. This directory models the parts of that program
that keep state, and the computations they stand on, checks them with TLC and
proves the central ones with TLAPS.

Paths below are relative to the repository's package, `src/src/puzzleforge/`.
`PROJECT.json` maps every definition to the lines it translates.

* [1 Inventory](#1-inventory)
* [2 Modules](#2-modules)
* [3 Runs](#3-runs)
* [4 Disagreements found](#4-disagreements-found)
* [5 Proofs](#5-proofs)
* [6 What is only model-checked](#6-what-is-only-model-checked)
* [7 What is not modelled](#7-what-is-not-modelled)
* [8 Plan](#8-plan)

## 1 Inventory

| Component | State it keeps | Operations | Who else touches it |
|---|---|---|---|
| Lease coordinator (`coordinator.py`) | SQLite: campaign row, one work row per allocated chunk, Hypothesis Lab row | `lease`, `heartbeat`, `complete`, `fail`, `status`, `record_verified_candidate`, `scrub_found_key`, `enable_cold`, `enable_hypothesis`, `reseed`, `initialize`, migrations | HTTP handlers, the local process, operator commands, all on one file |
| Planners (`mosaic.py`, `coldzone.py`, `hypothesis.py`, `partition.py`) | JSON columns `planner_state`, `state_json` | `next_unseen`, `restore`, `state`, the chunk orders | rebuilt inside each `lease` transaction |
| Local campaign (`local.py`, `cli.py`) | profile file, database, `sweep.json` | launch, scan loop, find, resume, sweep, scrub | operator edits the profile; remote workers share the database |
| Sweep (`sweep.py`) | `sweep.json` | `execute_sweep`: build, save, broadcast, save | Esplora endpoints |
| Remote GPU workers (`remote.py`, `coordinator_http.py`) | lease, heartbeat thread, in memory only | `run_once`, the worker loop, the HTTP handlers | coordinator over HTTP |
| Generator Lab (`generator_lab.py`) | `generator-lab.json`, the copy of a running slice | `run_slice`, `start`, `stop`, `found_key`, `mark_stopped` | daemon thread and main thread on one file |
| Reference scanner (`scanner.py`, `checkpoint.py`, `model.py`) | one checkpoint file per shard | `run_session`, the split over a pool | one machine per shard |
| Thermal guard (`thermal.py`, `engine.py`, `telemetry.py`) | flags of the guard, abort event | `scan`, monitor thread, the adapter's poll | GPU, engine process |
| Set-up and mode commands (`cli.py`, `local.py`, `coordinator.py`) | `benchmark.json`, the database with its schema version, `profile.json` | `local-setup`, `initialize`, migrations, `local-run`, `cold-enable`, `hypothesis-enable`, `reseed`, profile edits | two terminals on one directory |
| Elastic Swarm (`cloud.py`, `cloud_providers.py`) | none, a dry run | `plan_capacity` from offers, rates and limits | – |
| Key arithmetic (`crypto.py`) | none | the batched walk over consecutive public keys | the scanner's parts |
| Model Zoo, benchmark, registry, dashboard, tools | none, or reports | pure computations and rendering | – |

How they interact. The coordinator is the hub: every call is one
`BEGIN IMMEDIATE` transaction, so calls are atomic, but the clock is read before
the write lock is obtained. Workers reach it over HTTP, may lose an answer or
give up on a request that is executed anyway, and learn nothing of a lease that
was taken from them until they use its token. The local process calls it
directly, runs the thermal guard and the engine under a lease, takes finds over
from the Generator Lab, and sweeps. The operator changes planner, seed, ratio
and profile between and during calls.

What is hard, and what makes each component correct:

* **Coordinator** – late, repeated and contradictory results, expiry racing a
  result, mode changes in mid-campaign, the end of the campaign with leases out.
  Correct when each lease has one fate, a chunk is credited once and only for a
  full scan by the live holder, "exhausted" means everything was searched, and a
  verdict is never taken back.
* **Planners** – stored cursors that outlive changes of preset, seed and ratio,
  chunks taken by the other planner. Correct when no chunk is skipped and a
  proposal exists as long as a chunk is left.
* **Local campaign and sweep** – crashes between signing, saving, sending and
  scrubbing. Correct when one transaction at most ever reaches the network, the
  key is kept until the broadcast is durable, and the funds do move in the end.
* **Remote workers** – requests executed after the client is gone, a heartbeat
  that fails during a scan that finds the key. Correct when the target's chunk is
  never credited as empty and the search still ends.
* **Generator Lab** – a slice that outlives the wait for it, failed writes.
  Correct when the cursor never passes an untested pair and a find is collected.
* **Scanner** – remainders of three divisions, parts that end in any order,
  crashes before a save. Correct when a checkpoint claims only what was scanned
  and the shards cover the interval.
* **Thermal guard** – a trip that races the result, telemetry that fails, an
  engine ended from outside. Correct when a trip is followed by a cooldown, a hot
  GPU is unloaded, and the chunk of the key never comes back as searched.
* **Set-up and mode commands** – three files written one after the other, a
  database built by statements that commit one by one, migrations that several
  processes may start at once, two files that each hold a part of the mode.
  Correct when a database that opens is whole, a profile has a campaign, the two
  disagree on the mode only where a command is half done, and launches lead to
  work.
* **Elastic Swarm** – a greedy choice against three limits next to what runs and
  was paid already. Correct when no limit is exceeded, nothing affordable is
  passed over and nothing dearer is taken before something cheaper.
* **Key arithmetic** – blocks around a base point with one shared inversion.
  Correct when the walk yields exactly the public keys of its interval.

The list `hazards` in `PROJECT.json` names these one by one at the line where
they bite, with the properties that cover them; a hazard that no property covers
says why.

## 2 Modules

```
CoverageLedger  <--implements--  Coordinator  --  CoordinatorProofs
      ^                             (allocates "some chunk not in the table")
      | extends                          |  refined by
RemoteWorkers                         Planners  --extends-->  Orders  <--extends--  ScanSessions
                                         |                       |                       |
                                  PlannersProofs  --extends--> OrdersProofs     PointWalk  <--extends

LocalSweep, ThermalGuard  --  LocalProofs          ScanSessions, PointWalk  --  ScanProofs
LocalSetup  --  LocalSetupProofs                   RemoteWorkers, CloudPlan  --  SwarmProofs
GeneratorLab  --  GeneratorLabProofs
```

Each component has a module of its own, an `MC...` module with values for its
constants, and one `.cfg` per run. Operators with a suffix (`Complete_NoStateCheck`,
`Finish_AsComplete`, ...) are altered forms of the operator defined after them,
each a bug that could plausibly be made in that code; `PROJECT.json` pairs each
with a property that fails when it takes the place of the original. They are not
part of any specification.

**Coordinator** – one variable per column that steers anything, `work` for the
work table by `chunk_id`, and a wall clock `now`. One action per method and
outcome: `LeaseRetry`, `LeaseFresh`, `LeaseNone` for `lease`; `Extend` and
`RejectExpired` for `heartbeat`; `RejectExpired` and `Credit` for `complete`;
`Fail`, `Status`, `RecordVerifiedCandidate`, `ScrubFoundKey`, `EnableCold`,
`EnableHypothesis`, `Reseed`. A call that raises and rolls back changes nothing
and is not an action; a heartbeat or completion that finds its lease expired
commits the release before it raises, and is. Each action takes a clock reading
`at` from `Readings`, at most `Lag` old: `time.time()` is called before the
write lock is waited for. Callers are unconstrained: any worker may present any
token with any result at any time, so lost, late, repeated and reordered
requests are included. `issued`, `accepted` and `last_failure`, the token and the
worker of the latest failure report that was accepted, are history.

**CoverageLedger** – the coordinator's promise without rows, clock, sequence
numbers and modes: who holds which chunk, which are credited, which tokens were
used, the verdict. `Coordinator!ImplementsLedger` is the refinement.

**Orders** – the pure orders of chunks (`AffineOrder`, `EdgeOrder`,
`CenterOrder`, `PrivatePermutationOrder`, `BitSpreadOrder`, `ColdOrder`,
`ChunkPlan`), the permutations the private and the bit-spread order walk
(Feistel rounds, reversed and masked bits) and the weighted wheel of lanes.
Powers of two and bits are recursions and divisions, which the provers follow. The
digests that key them are parameters.

**Planners** – what the coordinator leaves open: which unseen chunk is
allocated. State is the stored JSON of both planners, and `seen` for the work
table. `AllocateMosaic`, `AllocateHypothesis` and `AllocateAffine` are the three
branches of `_allocate_chunk`; `EnableCold`, `EnableHypothesis`, `Reseed` are
the calls that rewrite the stored states; `Settle` stands for the leases ending.
The orders of the lanes are constants; `MCPlanners` computes them with `Orders`
from the digests of two seeds. The cells of a Hypothesis cycle with their
cursors are one order with one cursor, and the queue, which the code keeps in
that order, is the set of its ranks.

**LocalSweep** – one local process with a program counter through launch, scan,
find, resume, build, sign, save, post, save, scrub. A crash may fall between any
two steps and keeps only what is on disk. Beside it act the operator, the
Generator Lab, a remote worker on the same chunk and the endpoints' nodes, which
may take a transaction without an answer arriving. `Answers` is what the code
takes for acceptance: the txid in the reply to the POST, or after that failed any
status with a "confirmed" in it, true or false. The endpoints in `Vague` give
such a status for transactions they have never seen; of the others it is assumed
that a txid or a status comes only from a node that has the transaction.
`PostRaises` is a status that is no JSON: the exception leaves `broadcast` and
ends the attempt, whoever else accepted. Of the coordinator only the row of the
target's chunk is kept.

**RemoteWorkers** – the workers on top of `CoverageLedger`, which it extends:
the server side of every request is a ledger step. `late` are the leases whose
time is up and that no call has reclaimed yet; `ghosts` are requests the client
gave up on, which may be executed at any later time or never.

**GeneratorLab** – the thread, the main thread, the state file and the copy a
slice works on. `JoinTimesOut` lets `mark_stopped` overwrite the file under a
slice that is still running.

**ScanSessions** – sessions of one machine per shard, the plan of chunks from
`Orders`, the split of a chunk over workers whose parts end in any order, the
checkpoint file, crashes. What a part has looked at is what the walk of
`PointWalk` yields, and a key is the answer when it has the target's public key.

**PointWalk** – the arithmetic of `crypto.py` over a field and a curve that are
parameters: point addition with its special cases, double-and-add, the batched
inversion with its prefix products, and `iter_sequential_points` with its table
of multiples and its blocks.

**ThermalGuard** – `scan()`, the monitor thread, the adapter's poll of the abort
event, the engine process and a GPU whose temperature is cool, warm or hot. The
monitor may finish one sample it had begun when the engine ended
(`AfterSample`). The chunk of a call holds the key or not, the engine may have
written its match when it ends, is aborted, timed out or interrupted. Its exit
code is free but for one case, on which `VerdictTrue` relies: the engine is honest
in that it does not end by itself, with success and without a match, on the chunk
of the key (`EngineEnds`). `Restart` is a new process: the flags of the guard are
lost.

**LocalSetup** – the three files of a campaign and terminals that each run one
command, with a program counter per terminal. `initialize` is five steps
(`CheckPath`, `CreateTables`, `InsertCampaign`, `InsertLab`, `SetVersion`) and
its error path, which removes the file (`Unlink`) from under whoever else writes
it; `Open` with `AddColumns` and `AddLab` is the migration, one transaction each,
on a version read before. A command reads the profile once and writes all of it
back (`SaveProfile`), before or after it changes the database, as the code has
it. `Launch` sets the mode the profile asks for. A crash may fall between any two
steps, keeps the files and leaves a lease behind if a chunk was being scanned.
`overlapped` and `cut` are history: whether two commands ever met, and which of
the commands that write the mode were killed between their two files.

**CloudPlan** – `plan_capacity`: the offers acceptable one by one, their order,
and one step per offer that takes it or names the limit that refuses it. Prices
are compared by cross products of whole numbers.

## 3 Runs

All runs finish; the numbers are distinct states with two TLC workers.

| Run | Module | States | What it shows |
|---|---|---|---|
| `leases` | Coordinator | 281,678 | the account of leases and credits under every caller; refinement of the ledger |
| `modes` | Coordinator | 214,212 | changes of planner and seed up to exhaustion or find |
| `scrub` | Coordinator | stops at the violation | disagreement 1 below |
| `sweep` | LocalSweep | 86,688 | crash safety of the sweep, what its record is worth, and that funds are swept |
| `sweep_crash` | LocalSweep | stops at the violation | disagreement 2 below |
| `planners` | Planners | 14,615 | nothing is skipped, the planners never get stuck |
| `workers` | RemoteWorkers | 73,022 | the target is not missed and the search ends |
| `lab` | GeneratorLab | 30,573 | the cursor is honest, a find is collected |
| `scan` | ScanSessions | 89,393 | checkpoints are honest, shards cover the interval, the walk yields every key |
| `thermal` | ThermalGuard | 3,209 | cooldown after a trip, no lasting hot scan, true verdicts |
| `setup` | LocalSetup | 744,708 | where the files agree and where a crash leaves them apart, and launches that lead to work |
| `cloud` | CloudPlan | 116,176 | limits kept, nothing affordable passed over, cheapest first |

The properties, by run:

* `leases`: `CheckedKeysExact` (the campaign's count is the sum over the
  completed rows), `LeaseBalance` (each lease has one fate), `FoundIsVerified`,
  `ReplayAccepted`, `CompletedIsFinal`, `LeaseHonoured`, `LateResultRejected`,
  `ImplementsLedger`.
* `modes`: `AllocationNeverCollides`, `ExhaustedMeansCovered`, `VerdictStands`.
* `sweep`: `WriteAhead`, `AcceptanceTrue`, `KeyKept`, `RecordNeverReplaced`,
  `FundsSwept`. The last speaks of the record ("broadcast"); what that is worth is
  `AcceptanceTrue`.
* `planners`: `NothingSkipped`, `NeverStuck`.
* `workers`: `TargetNeverMissed`, `LeasesEnd`, `SearchSucceeds`.
* `lab`: `CursorHonest`, `RepeatsOnlyAfterFaults`, `FindCollected`.
* `scan`: `CheckpointHonest`, `ShardsCoverAll`, `NoKeyTwice`, `AnswerSaved`.
* `thermal`: `CooldownRespected`, `VerdictTrue`, `HotScanEnds`.
* `setup`: `VersionTrue`, `ProfileHasCampaign`, `NoFalseClaim`,
  `LaunchSucceeds`, `LabComes`.
* `cloud`: `LimitsKept`, `NothingAffordableLeft`, `CheapestFirst`.

The type invariants are proved (section 5); only `scan` checks its own.

Bounds, and why they are enough:

* `leases`: two workers (one keeps a stale token, the other has the chunk), two
  chunks of different size (a last chunk may be short), four tokens – so a chunk
  can be leased, lost, leased again and lost again –, three ticks with lease
  terms 1 and 2, and a clock reading up to one tick old. Keys: the target, one
  in the wrong chunk, one outside the interval. Workers are symmetric; tokens are
  not, because `FreshToken` chooses one. Reported counts go one beyond the
  chunk's size.
* `modes`: with three chunks the orders of two seeds differ, so that one of them,
  taken up in mid-campaign under the other's rows, would propose a chunk that has
  a row, which is how an allocation could collide; one worker and no lag, since
  expiry is the concern of `leases`. Four tokens for three chunks reach
  exhaustion with one failed or expired lease.
* `planners`: six chunks are more than either ratio and leave the lanes at
  different cursors when they change; both presets run on their real wheels
  (`WheelIsWeighted` has TLC recompute them). Further assumptions in
  `MCPlanners` have TLC check that every order is a bijection, as it is proved to
  be (section 5): all sizes up to
  six (eight for the bit-spread order, four for the private one) with all
  multipliers, offsets, masks, round functions and arrangements of bands.
* `sweep`: two endpoints (so one may have the transaction and the other not),
  two addresses and two fee rates (so a rebuilt transaction would differ), two
  crashes and two profile edits; one endpoint is vague and the other is not.
  `sweep_crash` has neither vague endpoints nor edits and one crash: the
  disagreement needs no more.
* `workers`: the key in the first chunk or nowhere, two faults in all of any
  kind. One fault suffices for a ghost or a lost heartbeat, the second hits its
  successor. Tokens are never used up (`EnoughTokens`).
* `lab`: two sources with different numbers of schemes, so that both carries of
  the cursor happen; the winning pair is the last of the first source, or there
  is none; three faults.
* `scan`: puzzle 5, the keys 16 to 31, in chunks of 7, 7 and 2 over two shards
  and two workers that walk in blocks of 3, so every division leaves a remainder
  and the last block of a part is full or short; the answer is any key or none;
  two crashes. The curve is y² = x³ + 3 over the field of 31, with 43 points,
  where TLC confirms what the proofs assume of a curve (`GroupAssumption`); three
  assumptions of `MCScanSessions` have TLC compare the walk with repeated addition
  from every start, for block sizes up to 4, next to the generator and at the last
  scalar.
* `thermal`: the program's own limits, three retries and three failed samples.
* `setup`: two terminals, which is what it takes for a race; three commands
  beside launches, so that one can fail, one repair it and one interfere; two
  crashes or failed writes; from an empty directory or from a database of either
  older version.
* `cloud`: catalogs of up to four out of eight offers, in any order, that between
  them fail every flag, share a value or have no benchmark; five policies, so
  that each limit binds somewhere; four loads, one above the limits from the
  start.

Deadlock is checked except where the system really stops: all workers have left
(`workers`), the campaign is over (`lab`), every session is over (`scan`), the
plan is made (`cloud`), or a set-up was cut off between `benchmark.json` and
`profile.json`, after which no command accepts the directory (`setup`).

Fairness, and what justifies it:

* LocalSweep: the program is launched again after it ended and its next step is
  taken (weak fairness of `Launch` and of the process' steps). `Build` and
  `PostAccepted` are strongly fair: endpoints that are asked again and again do
  not fail for ever. `FundsSwept` also needs, as a premise, a profile that in
  the end stays armed and agrees with the record; crashes and edits are finite.
* RemoteWorkers: weak fairness of each worker's program, and of the expiry of a
  lease nobody renews – the clock moves on. The expiry of a lease that is being
  renewed is a fault and not fair. Ghosts need not ever be executed.
* GeneratorLab: slices end by their deadline, waits are bounded, the main thread
  looks for a find after each chunk (weak). `BeginSlice` and `Test` are strongly
  fair: a campaign that is stopped and launched again and again lets the lab test
  a pair now and then. `Stop` is fair only once the lab's thread has died, which
  is when a later launch is needed.
* ScanSessions: the command of each shard is run until its session is over.
* ThermalGuard: the monitor samples (with or without a result) and the adapter
  polls by the clock. The engine need never end by itself; that it is honest when
  it does (`EngineEnds`, section 2) is assumed for `VerdictTrue` only.
* LocalSetup: a command that is running goes on, and the campaign is launched
  again whenever a terminal is free. No command need ever be given, and two
  terminals may disturb each other for ever as far as fairness goes.

## 4 Disagreements found

1. `scrub`, `RepeatedCompletionIdempotent`. `docs/DISTRIBUTED.md:14` says
   repeated completions with the same token and result are idempotent. Once the
   sweep has scrubbed the key, `complete()` compares the repeated key with a
   column that is now NULL (`coordinator.py:997`) and rejects the repetition as
   "a different result". `ReplayAccepted` states the part that does hold, and is
   proved.
2. `sweep_crash`, `BroadcastClearsKey`. `README.md:127` says an accepted
   broadcast clears the plaintext key from the database. A process that dies
   after `execute_sweep` saved the broadcast record and before
   `scrub_found_key` leaves the key for good: every later launch sees the record
   and returns at `local.py:462` before the scrub. `KeyKept` shows the order of
   the two steps is still the safe one.
3. No run of its own. The comment at `sweep.py:247` says that after a
   failed POST "an independently queryable mempool/chain entry" counts as success.
   The code asks `/tx/<txid>/status` and accepts any JSON object with a
   "confirmed" in it (`sweep.py:254`), `{"confirmed": false}` included, which says
   no more than that the transaction is in no block: an endpoint that answers so
   for a transaction it has never seen is believed. Then a refused POST is
   recorded as broadcast and the key is scrubbed, with no node holding the
   transaction and nothing sending it again. `AcceptanceTrue` is what the record
   does say, and the theorem `BroadcastRealUnlessVague` that the sentence holds
   where no endpoint is vague; with a vague one, `BroadcastIsReal` added to
   `MCLocalSweep_sweep.cfg` is refuted.
4. No run of its own. `README.md:100` says an existing campaign keeps the
   mode it is running and a plain double-click never overrides that choice.
   `cold-enable` killed between database and profile (`cli.py:583`) leaves a cold
   campaign under a profile that asks for the Hypothesis Lab, and the next plain
   launch turns the Lab on again (`cli.py:668`). `NoFalseClaim` lists all the ways
   in which profile and database may disagree; without its last disjunct `setup`
   refutes it.

Beside these, the models show limits that no sentence of the repository denies,
or only loosely; the properties are stated with them in mind:

* A set-up that fails after `benchmark.json` leaves a directory `local-setup`
  refuses (`cli.py:453`), while `local-run` has no profile to run.
* Of two set-ups at once, the late `initialize` fails at CREATE TABLE and removes
  the other's database (`coordinator.py:355`); the other goes on, and writes a
  profile without a campaign. The model does this; `ProfileHasCampaign` excepts
  two commands at once, so no property speaks of that loss.
* A launch and a `cold-enable` at once may leave the profile at "cold" with the
  Lab on; `NoFalseClaim` excepts two commands at once as well.
* A status that is no JSON raises through `broadcast` (`sweep.py:220`) even when
  another endpoint has accepted: the record stays pending and the next launch
  sends the transaction again.
* `enable_cold` and `reseed` count leases that have expired and were not yet
  reclaimed as live ones and refuse.
* The `seed` of a profile is written and never read by another command.

## 5 Proofs

All theorems hold for every value of the constants that satisfies the named
assumptions of the module (sizes are positive, orders are bijections, `Null` is
not a value, `Target` is a key of some chunk; for the scanner a prime field and a
curve with a group of odd order, see ScanProofs). There are no others, and no step
is left unproved. Every component with a proof module has its type invariant
proved there (`TypeCorrect`, `GuardTypeCorrect`, `ScanTypeCorrect`; for LocalSweep and CloudPlan
as part of `SweepInvariant` and `PlanInvariant`). Every invariant and every action
property that a passing run checks is a theorem here; what remains is in section 6.

**CoordinatorProofs.** `TypeCorrect` first. None of the safety properties is
inductive alone: that an exhausted campaign is covered depends on the cursor
counting rows, which depends on rows never disappearing, and so on. The
invariant `IInv` joins

* `TypeOK`;
* `TableInv`: `SeqInv` (the sequence numbers are dense and unique, the cursor is
  the number of rows), `ResultInv` (a row has a result exactly when it is
  completed, a no-match covers its chunk, a found row is the target's), and
  `Covered` for an exhausted campaign;
* `CountInv`: completed chunks are the no-match rows; issued tokens are held,
  reclaimed or failed;
* `AffineInv`: in plain affine mode every row is the chunk that the present
  seed's order has at its sequence number. It is what makes
  `AllocationNeverCollides` inductive: affine order is left for good and the seed
  is frozen until then;
* `KeyInv`: a recorded key is the target's and the campaign is found;
* the finiteness of `issued`, which the cardinalities rest on.

The table invariants are operators of a table, so the lemmas speak of what a
release, a grant, an insertion and a completion do to a table, and each action
cites one of them. From `IInv` follow `SequencesDense`,
`AllocationNeverCollides`, `ExhaustedMeansCovered`, `CompletedChunksExact`,
`LeaseBalance`, `FoundIsVerified`; from the step lemma `RowSteps`, which says
what any step may do to a row (a lease ends at its deadline, by its result, or by
the failure report of that very token and worker), the action properties `CompletedIsFinal`,
`LeaseHonoured`, `LateResultRejected` and, with a look at what enters
`accepted`, the invariant `ReplayAccepted`. `VerdictStands` goes through the
actions once more. `CheckedKeysExact` is about a sum over all chunks, a recursive
function: `SumMoves` shows that the sum moves by `d` when one row reports `d`
more and the others what they did, and `Blank`, that a row reports nothing before
it is completed, is the strengthening it needs. `SequencesDense` and
`CompletedChunksExact` are theorems only; the runs leave them out.

`CoordinatorImplementsLedger`, in the same module: initial states map to initial
states and each action to `Revoke`, `Grant`, `Report`, `Find` or a stutter. It
needs one fact beyond `IInv`, `Open`: a running campaign has an uncredited chunk.
With it the marking in `status` and in an empty `lease` is idle, and the verdict
comes with the last report, as the ledger says.

**LocalProofs.** LocalSweep: `IInv` adds to the three properties what the process
knows at each step (`Known`): nothing is on disk until it is saved, from then on
disk and memory agree, and whoever accepted has the transaction unless it is
vague. `WriteAhead` is not inductive without it: the step that posts relies on the
record written before. `RecordNeverReplaced` follows from the same invariant, and
so does `BroadcastRealUnlessVague`: `BroadcastIsReal`, refuted with a vague one, is
true under the assumption that no endpoint is vague.

ThermalGuard, in the same module, with `GuardTypeCorrect` first. `CooldownTheorem`: `CooldownRespected` speaks of a running
engine only, and `OwedIsKnown` says where the debt is remembered in between: in
the trip until the monitor is joined, then in the call's flag, then in the
guard's. `VerdictTrue` rests on `EndIsTrue`: how the engine ended is true to what
it wrote unless it was cut off, and then it ended with an error.

**OrdersProofs.** Every order of chunks is a bijection, for every number of
chunks and whatever the digests are: `AffineOrder` (with `MultiplierFound`: the
search for a multiplier ends), `EdgeOrder`, `CenterOrder`, `ColdOrder`,
`SpreadOrder`, `PrivateOrder`. So the assumptions that other modules make of the
orders (`OrdersAssumption` of Planners among them) are met by what the program
computes, and the Coordinator's `OrderAssumption` by `AffineOrder`. A map of the
ranks to themselves that never repeats leaves nothing out (`NoRepeatNoGap`), so
each proof is that no chunk comes twice. `AffineOrder` is Euclid's lemma
(`CoprimeFactor`), from the least positive factor that turns the multiplier into
a multiple of the number of chunks. `WalkedOrder` is about any permutation of a larger domain walked
until it is back below the size: of `domain + 1` steps two meet, and stepping
both back leads to the start, so the walk returns in time (`WalkReturns`); two
walks that end in one chunk started together, or the longer one would have
stopped before (`WalksApart`). For the bit-spread order a word is its bits
(`BitsDetermine`, `BitsExist`); for the private order each Feistel round keeps
one half and changes the other by a word computed from the first, so it can be
undone whatever the round function is (`PassesApart`). `ColdOrder` counts: the
bands are disjoint intervals and the sums of their widths number the ranks
(`AllCounted`). The module also holds what the other proofs share: `LeastMember`
and `Climb`, which stand for induction, `Recursion`, by which a function defined
from its value before exists, and `Division`.

**ScanProofs.** From the field to the session.

* `BatchInverseExact`: one inversion gives every member of a block its own
  inverse, through the prefix products and back. The field is prime
  (`CurveAssumption`), so a unit is coprime to it and multiplying by the unit
  permutes the residues (`AffineOrder` again): the inverse is what it sends to 1.
* `ScalarMultiplyExact` and `WalkExact`: double-and-add, and the block walk from
  any start with any block size, yield the multiples of consecutive scalars,
  also where the base of a block is itself in the table and its difference has
  no inverse. They rest on `GroupAssumption`, which says that adding multiples
  of the generator adds their scalars; it is the group law of the curve, a known
  fact of secp256k1 that the provers cannot derive, and TLC checks it on the
  small curve. That the order of the group is odd, as it is for secp256k1, is
  what makes doubling never meet the opposite.
* `ChunksPartition`, `SharesExact`, `SplitExact`: the three divisions with
  remainders. Chunks tile the interval, each ordinal is one place of one shard,
  and the parts of a chunk leave out and share no key.
* `PartScanned`: a part is walked to its end or to the answer.
* `ScanInvariant`. `CheckpointHonest` is not inductive: between two saves the
  honest fact is about the parts of the chunk at the cursor that have ended.
  `ShardOK` says so for each state of a session (`FileOK`, `ReadyOK`,
  `ScanningOK`, `RestingOK`, `OverOK`), and `NeverTwice` gives every scanned key
  its account: it is claimed by a file, or belongs to an ended part of the chunk
  at a cursor, as long as nothing crashed. From it follow `ScanTypeCorrect`,
  `CheckpointHonestCorrect`, `ShardsCoverAllCorrect` and `NoKeyTwiceCorrect`.

**PlannersProofs.** `NothingSkipped` is inductive with `Restorable` beside it,
that each stored state was made for the seed and ratio in force. `NeverStuck`
follows from the two by counting. Each round of the wheel visits each lane
(`Rounds`), so within `MaximumSlots` turns some lane with a proposal left is
visited often enough to reach it (`CountHits`: to have passed `n` hits one must
have been at the `n`-th); were every turn to propose a seen chunk or none, all
lanes would be at their ends, and a lane at its end has visited every chunk. On
the Hypothesis side `CycleEndFacts` shows that a cycle ends where it has `ratio`
open ranks, or at the end of the order with all that were left. Induction, which
the provers do not take as a rule, is used in the form of the least number
principle (`LeastMember`), a fact about sets that the library's well-foundedness
of `<` gives. That the edge and center lanes reach every chunk is `EdgeOrder` and
`CenterOrder`.

**SwarmProofs.** RemoteWorkers: `TargetNeverMissed` is a fact about the ledger. The
invariant follows a result from where it is made to where it counts: an outcome
"complete" in a worker's hand, then in a request that is sent or was given up on,
then in the ledger, never belongs to a lease of the target's chunk.

CloudPlan, in the same module: `PlanInvariant` joins the limits with
`HourlyExact` (the price added up by the loop is that of the offers taken),
`InOrder` (offers are looked at in the order of the sort) and `RefusedRightly`:
an offer refused for a limit does not fit next to the better ones taken before
it, whatever else is taken. What was refused once stays refused because prices
are not negative (`AffordableShrinks`). `CheapestFirst` then compares prices of a
key, cross products of whole numbers.

**GeneratorLabProofs.** A pair is passed when it comes before the cursor in
lexicographic order. One advance passes exactly the pair it was on, over both
carries, so the counters are the numbers of pairs and seeds passed. All of
`CursorHonest` is then a fact of each copy of the state by itself, and copies
overwriting each other cannot spoil it. `RepeatsOnlyAfterFaults` needs that no
copy lags behind what was tested until a fault was counted (`AllKept`).

**LocalSetupProofs.** Three strengthenings, one per property. For `VersionTrue`:
what the file looks like at each version and each stage, with at most one maker
at work on a file that has a name (`SchemaInv`). For `ProfileHasCampaign`: as
long as commands never overlapped, there is no profile while a set-up is under
way, and a command that opened a database was founded on one (`ProfileInv`). For
`NoFalseClaim`: the claim each running command is about to write (`ClaimInv`), and
that a command by itself migrates from the version it read (`Migrating`), so that
`hypothesis-enable` ends between its two files only by a crash (`OpeningGoesOn`).

## 6 What is only model-checked

* Everything under fairness: `FundsSwept`, `LeasesEnd`, `SearchSucceeds`,
  `FindCollected`, `AnswerSaved`, `HotScanEnds`, `LaunchSucceeds`, `LabComes`.
  The prover does not do liveness under fairness.
* The weights of the wheel (`WheelIsWeighted`): how often a recursive function
  chooses a lane. No proved property depends on them.
* The group law of the curve, the assumption of ScanProofs, on the small curve.
* `RepeatedCompletionIdempotent` and `BroadcastClearsKey` are refuted, not shown.

## 7 What is not modelled

* Model Zoo: floating-point statistics without state. Its outcome reaches the
  system as a ranking of cells that is fixed for a seed, a constant of Planners.
* Dashboard and the other read-only reports (`range_map`, exports, previews):
  rendering of what is modelled elsewhere.
* Registry and types: constant tables and frozen records.
* Phone lab and launchers: a self-contained experiment with a progress file of
  its own. Its promise to resume without repeats holds up to its last save.
* Two local processes on one profile: nothing in the code prevents them and
  nothing expects them; both would read and write `sweep.json`
  (`sweep.py:381`). LocalSweep has one process.
* In the Generator Lab, `DerivationFails` is an exception before the pair is
  counted (`generator_lab.py:709`). An exception after the count at line 710, in
  lines 727 to 742, is not modelled: it takes a pair that yields the known key of
  the filter puzzle, and it would leave `checked` one ahead of the cursor.
* Inside the modelled components: texts, timings and attempts of a row; the
  reports; the bytes of a transaction and the consensus on coins (a choice of the
  environment); what a Generator Lab scheme derives (a pair is the answer or
  not); the engine's command line and the text of its output; measured rates of
  the benchmark (it passes or fails); hashes and encodings of keys; the provider
  clients of Elastic Swarm and the rounding of its floating-point prices; argument
  parsing.

## 8 Plan

In the order of importance, all of it done except the last item.

1. Coordinator, CoverageLedger, with their proofs – the account of coverage.
2. LocalSweep with proofs – the funds.
3. Orders, Planners with proofs – the coordinator's choices.
4. RemoteWorkers over CoverageLedger, with proofs.
5. GeneratorLab with proofs.
6. ScanSessions over Orders and PointWalk, with proofs down to the arithmetic.
7. ThermalGuard with proofs.
8. LocalSetup with proofs – set-up, migrations and the mode in two files.
9. CloudPlan with proofs.
10. Orders: every order a bijection.
11. To do: two local processes on one profile (`sweep.py:381`); the Generator
    Lab's schemes and the reports of the coordinator, if they come to carry state.
