---------------------------- MODULE ScanSessions ----------------------------
(***************************************************************************)
(* The reference scanner: scanner.py on the plan of partition.py with the  *)
(* files of checkpoint.py.  One machine per shard runs `puzzleforge scan`  *)
(* again and again.  A session loads the checkpoint, scans chunk after     *)
(* chunk, each split over a pool of workers, and saves after every chunk.  *)
(* A machine may crash at any moment: the file is as the last save left it.*)
(***************************************************************************)
EXTENDS Orders, PointWalk, FiniteSets

CONSTANTS
  FirstKey, LastKey,      \* the interval of the puzzle
  ChunkSize,
  ShardCount,
  Candidate, Offset,      \* what the digest of the seed gives the plan
  WorkerCount,
  BatchSize,              \* keys per block of the walk
  Targets,                \* the keys that may be the answer, None if none is
  None,
  MaxCrashes

Keys == FirstKey .. LastKey

ASSUME PlanAssumption ==
  /\ FirstKey \in Nat /\ LastKey \in Nat /\ FirstKey <= LastKey
  /\ ChunkSize \in Nat \ {0} /\ ShardCount \in Nat \ {0}
  /\ WorkerCount \in Nat \ {0} /\ BatchSize \in Nat \ {0}
  /\ MaxCrashes \in Nat
  /\ 0 < FirstKey /\ LastKey < GroupN
ASSUME TargetsAssumption ==
  /\ None \notin Keys /\ Targets \subseteq Keys \cup {None}
  /\ None \notin [next : Nat, keys : Nat, found : Keys \cup {None}]

VARIABLES
  target,     \* the private key of the puzzle's address, or None
  file,       \* the checkpoint file of each shard, or None
  session,    \* where the process of each shard is
  memory,     \* the checkpoint its session holds
  parts,      \* the intervals of the chunk not scanned yet
  hit,        \* the key the chunk yielded, or None
  scanned,    \* keys scanned so far, by any shard
  again,      \* keys scanned more than once
  crashes

vars == <<target, file, session, memory, parts, hit, scanned, again, crashes>>

Shards == 0 .. ShardCount - 1

-----------------------------------------------------------------------------
(***************************************************************************)
(* The plan                                                                *)
(***************************************************************************)

TotalChunks == (Cardinality(Keys) + ChunkSize - 1) \div ChunkSize

ASSUME DigestAssumption ==
  /\ Offset \in 0 .. TotalChunks - 1
  /\ Candidate \in 1 .. TotalChunks

Least(a, b) == IF a < b THEN a ELSE b

\* Mutant: a shard takes consecutive ordinals.
Ordinal_Consecutive(s, sequence) == s + sequence

Ordinal(s, sequence) == s + sequence * ShardCount

ChunkId(ordinal) ==
  IF TotalChunks = 1 THEN 0
  ELSE AffineChunk(TotalChunks, Multiplier(TotalChunks, Candidate), Offset, ordinal)

Chunk(ordinal) ==
  LET start == FirstKey + ChunkId(ordinal) * ChunkSize
  IN  [first |-> start, last |-> Least(start + ChunkSize - 1, LastKey)]

\* Mutant: a shard's share is rounded down.
ChunksForShard_RoundedDown(s) ==
  IF TotalChunks <= s THEN 0 ELSE (TotalChunks - s) \div ShardCount

ChunksForShard(s) ==
  IF TotalChunks <= s THEN 0
  ELSE (TotalChunks - s + ShardCount - 1) \div ShardCount

Size(interval) == interval.last - interval.first + 1

\* Mutant: the remainder of the division is dropped.
SplitInterval_NoExtra(interval) ==
  LET count == Least(WorkerCount, Size(interval))
      base == Size(interval) \div count
  IN {[first |-> interval.first + i * base,
       last  |-> interval.first + (i + 1) * base - 1] : i \in 0 .. count - 1}

\* _split_interval: the first `extra` parts are one key longer.
SplitInterval(interval) ==
  LET count == Least(WorkerCount, Size(interval))
      base == Size(interval) \div count
      extra == Size(interval) % count
      first(i) == interval.first + i * base + Least(i, extra)
  IN {[first |-> first(i), last |-> first(i + 1) - 1] : i \in 0 .. count - 1}

-----------------------------------------------------------------------------
Fresh == [next |-> 0, keys |-> 0, found |-> None]

Init ==
  /\ target \in Targets
  /\ file = [s \in Shards |-> None]
  /\ session = [s \in Shards |-> "off"]
  /\ memory = [s \in Shards |-> None]
  /\ parts = [s \in Shards |-> {}]
  /\ hit = [s \in Shards |-> None]
  /\ scanned = {} /\ again = {}
  /\ crashes = 0

\* run_session: load or create the checkpoint; one with a key is the end.
Open(s) ==
  /\ session[s] = "off"
  /\ file' = [file EXCEPT ![s] = IF @ = None THEN Fresh ELSE @]
  /\ IF file'[s].found # None
     THEN session' = [session EXCEPT ![s] = "over"] /\ UNCHANGED memory
     ELSE /\ session' = [session EXCEPT ![s] = "ready"]
          /\ memory' = [memory EXCEPT ![s] = file'[s]]
  /\ UNCHANGED <<target, parts, hit, scanned, again, crashes>>

\* Mutant: the chunk is credited on disk when it is taken.
Take_SavesFirst(s) ==
  /\ session[s] = "ready"
  /\ Ordinal(s, memory[s].next) < TotalChunks
  /\ parts' = [parts EXCEPT ![s] = SplitInterval(Chunk(Ordinal(s, memory[s].next)))]
  /\ session' = [session EXCEPT ![s] = "scanning"]
  /\ file' = [file EXCEPT ![s] = [memory[s] EXCEPT !.next = @ + 1]]
  /\ UNCHANGED <<target, memory, hit, scanned, again, crashes>>

\* The next chunk goes to the workers.
Take(s) ==
  /\ session[s] = "ready"
  /\ Ordinal(s, memory[s].next) < TotalChunks
  /\ parts' = [parts EXCEPT ![s] = SplitInterval(Chunk(Ordinal(s, memory[s].next)))]
  /\ session' = [session EXCEPT ![s] = "scanning"]
  /\ UNCHANGED <<target, file, memory, hit, scanned, again, crashes>>

\* No chunk is left.
Exhausted(s) ==
  /\ session[s] = "ready"
  /\ Ordinal(s, memory[s].next) >= TotalChunks
  /\ session' = [session EXCEPT ![s] = "over"]
  /\ memory' = [memory EXCEPT ![s] = None]
  /\ UNCHANGED <<target, file, parts, hit, scanned, again, crashes>>

\* The points of every part that the plan can make, and of every key.
Parts == UNION {SplitInterval(Chunk(ordinal)) : ordinal \in 0 .. TotalChunks - 1}
Points == [p \in Parts |-> SequentialPoints(p.first, Size(p), BatchSize)]
PublicKey == [k \in Keys |-> ScalarMultiply(k)]

\* _scan_contiguous: how many points are compared, up to the one of the address.
Matches(p) ==
  {i \in DOMAIN Points[p] : target # None /\ Points[p][i] = PublicKey[target]}
Checked(p) ==
  IF Matches(p) = {} THEN Len(Points[p])
  ELSE CHOOSE i \in Matches(p) : \A j \in Matches(p) : i <= j

\* The private keys whose points these were.
Walked(p) == {k \in Keys : \E i \in 1 .. Checked(p) : Points[p][i] = PublicKey[k]}

\* A part is scanned, in any order of the parts.
ScanPart(s, p) ==
  /\ session[s] = "scanning"
  /\ parts' = [parts EXCEPT ![s] = @ \ {p}]
  /\ scanned' = scanned \cup Walked(p)
  /\ again' = again \cup (Walked(p) \cap scanned)
  /\ memory' = [memory EXCEPT ![s].keys = @ + Checked(p)]
  /\ hit' = [hit EXCEPT ![s] = IF Matches(p) # {} THEN p.first + Checked(p) - 1 ELSE @]
  /\ UNCHANGED <<target, file, session, crashes>>

\* After a hit a part that has not started is cancelled, others still end.
CancelPart(s, p) ==
  /\ session[s] = "scanning" /\ hit[s] # None
  /\ parts' = [parts EXCEPT ![s] = @ \ {p}]
  /\ UNCHANGED <<target, file, session, memory, hit, scanned, again, crashes>>

\* Mutant: a chunk with a hit is credited like any other.
Credited_Hit(s) ==
  [memory[s] EXCEPT !.next = @ + 1]

Credited(s) ==
  IF hit[s] # None THEN [memory[s] EXCEPT !.found = hit[s]]
  ELSE [memory[s] EXCEPT !.next = @ + 1]

\* The chunk is done and saved; the session ends with a hit or after the
\* number of chunks it was asked for.
Save(s) ==
  /\ session[s] = "scanning" /\ parts[s] = {}
  /\ file' = [file EXCEPT ![s] = Credited(s)]
  /\ \/ /\ hit[s] = None
        /\ session' = [session EXCEPT ![s] = "ready"]
        /\ memory' = [memory EXCEPT ![s] = Credited(s)]
     \/ /\ session' = [session EXCEPT ![s] = "off"]
        /\ memory' = [memory EXCEPT ![s] = None]
  /\ hit' = [hit EXCEPT ![s] = None]
  /\ UNCHANGED <<target, parts, scanned, again, crashes>>

Crash(s) ==
  /\ crashes < MaxCrashes
  /\ session[s] \in {"ready", "scanning"}
  /\ session' = [session EXCEPT ![s] = "off"]
  /\ memory' = [memory EXCEPT ![s] = None]
  /\ parts' = [parts EXCEPT ![s] = {}]
  /\ hit' = [hit EXCEPT ![s] = None]
  /\ crashes' = crashes + 1
  /\ UNCHANGED <<target, file, scanned, again>>

Progress(s) ==
  \/ Open(s) \/ Take(s) \/ Exhausted(s) \/ Save(s)
  \/ \E p \in parts[s] : ScanPart(s, p) \/ CancelPart(s, p)

Next == \E s \in Shards : Progress(s) \/ Crash(s)

Spec == Init /\ [][Next]_vars

\* Every shard has a machine, whose command is run until its session is over.
FairSpec == Spec /\ \A s \in Shards : WF_vars(Progress(s))

-----------------------------------------------------------------------------
(***************************************************************************)
(* Properties                                                              *)
(***************************************************************************)
Checkpoints == [next : 0 .. TotalChunks, keys : Nat, found : Keys \cup {None}]

TypeOK ==
  /\ target \in Targets
  /\ file \in [Shards -> Checkpoints \cup {None}]
  /\ session \in [Shards -> {"off", "ready", "scanning", "over"}]
  /\ memory \in [Shards -> Checkpoints \cup {None}]
  /\ \A s \in Shards : session[s] \in {"ready", "scanning"} <=> memory[s] # None
  /\ \A s \in Shards : file[s] # None => file[s].next <= ChunksForShard(s)
  /\ parts \in [Shards -> SUBSET Parts]
  /\ \A s \in Shards : parts[s] # {} => session[s] = "scanning"
  /\ hit \in [Shards -> {target, None}]
  /\ scanned \subseteq Keys /\ again \subseteq scanned
  /\ crashes \in 0 .. MaxCrashes

Covers(c, s) ==
  UNION {Chunk(Ordinal(s, i)).first .. Chunk(Ordinal(s, i)).last : i \in 0 .. c.next - 1}

Saved == {s \in Shards : file[s] # None}

\* A checkpoint claims no chunk of which a key was not scanned, nor the chunk
\* of the answer, across crashes, partial chunks and cancelled parts; and it
\* counts exactly the keys of the chunks it claims.
CheckpointHonest ==
  \A s \in Saved :
    /\ Covers(file[s], s) \subseteq scanned \ {target}
    /\ file[s].found = None => file[s].keys = Cardinality(Covers(file[s], s))

\* The shards together leave no key out: when every one has run out of chunks,
\* every key was scanned, and the answer was not among them.
ShardsCoverAll ==
  (\A s \in Shards : session[s] = "over" /\ file[s].found = None)
    => scanned = Keys /\ target = None

\* Shards, chunks and parts never overlap: a key is scanned twice only after a
\* crash lost the chunk it belongs to.
NoKeyTwice == again # {} => crashes > 0

\* The answer ends up in a checkpoint.
AnswerSaved == <>(target = None \/ \E s \in Saved : file[s].found = target)

=============================================================================
