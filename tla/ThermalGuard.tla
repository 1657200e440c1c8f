---------------------------- MODULE ThermalGuard ----------------------------
(***************************************************************************)
(* The thermal guard (thermal.py) around the engine process (engine.py).   *)
(*                                                                         *)
(* scan() waits until the GPU is ready, starts a monitor thread and the    *)
(* engine process, and retries a chunk the monitor had aborted.  The       *)
(* monitor samples the temperature; the engine adapter looks at the abort  *)
(* flag only while the process runs, so a process that ends first keeps    *)
(* its result.  A monitor in the middle of a sample when the process ends  *)
(* may still trip with that one: the join waits longer than a sample takes.*)
(* A process that is terminated, by the abort or by the engine's time      *)
(* limit, may have written a match that nobody reads.                      *)
(*                                                                         *)
(* Temperatures are "cool" (the resume limit or below), "warm" and "hot"   *)
(* (the hard limit or above); the telemetry may fail at any sample.        *)
(***************************************************************************)
EXTENDS Naturals

CONSTANTS MaxRetries, TelemetryFailures

ASSUME PolicyAssumption ==
  /\ MaxRetries \in Nat /\ TelemetryFailures \in Nat \ {0}

VARIABLES
  temperature,
  guard,       \* where scan() is
  retries,
  cooling,     \* the local flag of scan() and _wait_until_ready
  required,    \* _cooling_required, kept from one chunk to the next
  abort,       \* the abort event
  tripped,     \* trip_reason is not empty
  failures,    \* failed samples of the monitor in a row
  engine,      \* the engine process: "none", "running", or how it ended
  holds,       \* the key lies in the chunk of this call
  match,       \* the process has written a match that verifies
  cut,         \* the process was terminated, its output file not read
  result,      \* what scan() has returned for the chunk, or "none"
  owed         \* a trip has not been followed by a cool sample yet

guardVars == <<temperature, guard, retries, cooling, required, abort, tripped,
          failures, engine, owed, holds, match, cut, result>>
callVars == <<retries, cooling, required>>
monitorVars == <<abort, tripped, failures>>
chunkVars == <<holds, match, cut, result>>

GuardInit ==
  /\ temperature = "cool"
  /\ guard = "idle"
  /\ retries = 0 /\ cooling = FALSE /\ required = FALSE
  /\ abort = FALSE /\ tripped = FALSE /\ failures = 0
  /\ engine = "none"
  /\ owed = FALSE
  /\ holds = FALSE /\ match = FALSE /\ cut = FALSE /\ result = "none"

-----------------------------------------------------------------------------
(***************************************************************************)
(* The GPU: one level at a time.  Only a running engine heats it.          *)
(***************************************************************************)
Heat ==
  /\ engine = "running"
  /\ \/ temperature = "cool" /\ temperature' = "warm"
     \/ temperature = "warm" /\ temperature' = "hot"
  /\ UNCHANGED <<guard, callVars, monitorVars, engine, owed, chunkVars>>

Cool ==
  /\ \/ temperature = "hot" /\ temperature' = "warm"
     \/ temperature = "warm" /\ temperature' = "cool"
  /\ UNCHANGED <<guard, callVars, monitorVars, engine, owed, chunkVars>>

-----------------------------------------------------------------------------
(***************************************************************************)
(* scan()                                                                  *)
(***************************************************************************)
\* An error ends the local run, and its process with the guard in it.
Return(outcome) ==
  /\ guard' = IF outcome = "error" THEN "ended" ELSE "idle"
  /\ result' = outcome

Call ==
  /\ guard = "idle"
  /\ guard' = "waiting"
  /\ retries' = 0 /\ cooling' = required
  /\ holds' \in BOOLEAN /\ result' = "none"
  /\ UNCHANGED <<temperature, required, monitorVars, engine, owed, match, cut>>

\* The next process has a guard of its own, which knows of no earlier trip.
Restart ==
  /\ guard = "ended"
  /\ guard' = "idle"
  /\ required' = FALSE /\ owed' = FALSE
  /\ UNCHANGED <<temperature, retries, cooling, monitorVars, engine, chunkVars>>

\* _wait_until_ready: a sample without a temperature is an error, a hot one
\* starts a cooldown, one that is cool enough starts the monitor and engine.
WaitFails ==
  /\ guard = "waiting"
  /\ Return("error")
  /\ UNCHANGED <<temperature, callVars, monitorVars, engine, owed, holds, match, cut>>

CoolEnough == temperature = "cool" \/ (temperature = "warm" /\ ~cooling)

Wait ==
  /\ guard = "waiting" /\ ~CoolEnough
  /\ cooling' = TRUE
  /\ UNCHANGED <<temperature, guard, retries, required, monitorVars, engine, owed, chunkVars>>

StartEngine ==
  /\ guard = "waiting" /\ CoolEnough
  /\ required' = FALSE
  /\ owed' = (owed /\ temperature # "cool")
  /\ abort' = FALSE /\ tripped' = FALSE /\ failures' = 0
  /\ engine' = "running" /\ match' = FALSE /\ cut' = FALSE
  /\ guard' = "scanning"
  /\ UNCHANGED <<temperature, retries, cooling, holds, result>>

\* The process finds the key and writes it to its output.
EngineMatches ==
  /\ engine = "running" /\ holds
  /\ match' = TRUE
  /\ UNCHANGED <<temperature, guard, callVars, monitorVars, engine, owed, holds, cut,
                 result>>

\* The process ends by itself.  A match in its output counts, whatever its exit
\* code; without one, the code tells the whole range done from a failure.
EngineEnds_CodeFirst ==
  /\ engine = "running"
  /\ engine' \in {IF match THEN "found" ELSE IF holds THEN "error" ELSE "complete", "error"}
  /\ guard' = "joining"
  /\ UNCHANGED <<temperature, callVars, monitorVars, owed, chunkVars>>
EngineEnds ==
  /\ engine = "running"
  /\ engine' \in IF match THEN {"found"} ELSE IF holds THEN {"error"}
                 ELSE {"complete", "error"}
  /\ guard' = "joining"
  /\ UNCHANGED <<temperature, callVars, monitorVars, owed, chunkVars>>

Terminated ==
  /\ engine' = "error" /\ cut' = TRUE
  /\ guard' = "joining"
  /\ UNCHANGED <<temperature, callVars, monitorVars, owed, holds, match, result>>

\* BitCrackEngine.scan polls the abort flag and terminates the process.
EngineAborted == engine = "running" /\ abort /\ Terminated

\* --engine-timeout, if one is given.
EngineTimedOut == engine = "running" /\ Terminated

\* Ctrl-C or an engine that cannot be started: the process is terminated, the
\* monitor joined and the run over.
Interrupted ==
  /\ engine = "running"
  /\ engine' = "none"
  /\ guard' = "ended" /\ cut' = TRUE
  /\ UNCHANGED <<temperature, callVars, monitorVars, owed, holds, match, result>>

\* Mutant: a trip during the last samples of a finished chunk is forgotten.
Joined_Forgets ==
  /\ guard \in {"joining", "joined"}
  /\ engine' = "none"
  /\ IF ~tripped \/ engine \in {"complete", "found"}
     THEN Return(engine) /\ UNCHANGED callVars
     ELSE /\ retries' = retries + 1
          /\ IF retries' > MaxRetries
             THEN Return("error") /\ UNCHANGED cooling
             ELSE guard' = "waiting" /\ cooling' = TRUE /\ UNCHANGED result
          /\ UNCHANGED required
  /\ UNCHANGED <<temperature, monitorVars, owed, holds, match, cut>>

\* Once the monitor is joined: a result stands, a trip without one is tried
\* again after a cooldown, until there were too many.
Joined ==
  /\ guard \in {"joining", "joined"}
  /\ engine' = "none"
  /\ IF ~tripped
     THEN Return(engine) /\ UNCHANGED callVars
     ELSE IF engine \in {"complete", "found"}
     THEN Return(engine) /\ required' = TRUE /\ UNCHANGED <<retries, cooling>>
     ELSE /\ retries' = retries + 1
          /\ IF retries' > MaxRetries
             THEN Return("error") /\ UNCHANGED cooling
             ELSE guard' = "waiting" /\ cooling' = TRUE /\ UNCHANGED result
          /\ UNCHANGED required
  /\ UNCHANGED <<temperature, monitorVars, owed, holds, match, cut>>

-----------------------------------------------------------------------------
(***************************************************************************)
(* The monitor thread, which ends when it trips                            *)
(***************************************************************************)
Monitoring == guard \in {"scanning", "joining"} /\ ~tripped

\* A monitor caught by the end of the process in a sample takes no other.
AfterSample == IF guard = "joining" THEN "joined" ELSE guard

\* Mutant: one of the trips records its reason and forgets the event.
Trip_NoAbort == UNCHANGED abort /\ tripped' = TRUE /\ owed' = TRUE

Trip == abort' = TRUE /\ tripped' = TRUE /\ owed' = TRUE

SampleFails ==
  /\ Monitoring
  /\ failures' = failures + 1
  /\ IF failures' >= TelemetryFailures THEN Trip ELSE UNCHANGED <<abort, tripped, owed>>
  /\ guard' = AfterSample
  /\ UNCHANGED <<temperature, callVars, engine, chunkVars>>

Sample ==
  /\ Monitoring
  /\ failures' = 0
  /\ IF temperature = "hot" THEN Trip ELSE UNCHANGED <<abort, tripped, owed>>
  /\ guard' = AfterSample
  /\ UNCHANGED <<temperature, callVars, engine, chunkVars>>

GuardNext ==
  \/ Heat \/ Cool
  \/ Call \/ Restart \/ WaitFails \/ Wait \/ StartEngine
  \/ EngineMatches \/ EngineEnds \/ EngineAborted \/ EngineTimedOut \/ Interrupted \/ Joined
  \/ Sample \/ SampleFails

GuardSpec == GuardInit /\ [][GuardNext]_guardVars

\* The monitor samples and the adapter polls for ever, by the clock; the
\* engine itself promises nothing.
FairGuardSpec ==
  /\ GuardSpec
  /\ WF_guardVars(Sample \/ SampleFails)
  /\ WF_guardVars(EngineAborted) /\ WF_guardVars(Joined)

-----------------------------------------------------------------------------
(***************************************************************************)
(* Properties                                                              *)
(***************************************************************************)
Results == {"found", "complete", "error"}

FlagsOK ==
  /\ cooling \in BOOLEAN /\ required \in BOOLEAN /\ owed \in BOOLEAN
  /\ abort \in BOOLEAN /\ tripped \in BOOLEAN
  /\ tripped => abort

StatesOK ==
  /\ temperature \in {"cool", "warm", "hot"}
  /\ guard \in {"idle", "waiting", "scanning", "joining", "joined", "ended"}
  /\ engine \in Results \cup {"none", "running"}
  /\ engine = "running" <=> guard = "scanning"
  /\ guard \in {"joining", "joined"} => engine \in Results

CountsOK ==
  /\ retries \in 0 .. MaxRetries + 1
  /\ guard \in {"waiting", "scanning", "joining", "joined"} => retries <= MaxRetries
  /\ failures \in 0 .. TelemetryFailures
  /\ ~tripped => failures < TelemetryFailures

ChunkOK ==
  /\ holds \in BOOLEAN /\ match \in BOOLEAN /\ cut \in BOOLEAN
  /\ result \in Results \cup {"none"}

GuardTypeOK == FlagsOK /\ StatesOK /\ CountsOK /\ ChunkOK

\* The hysteresis of docs/LOCAL_FIRST.md:46-49: after a trip no engine starts
\* in this process before the GPU was seen at the resume limit, whether the
\* chunk of the trip is tried again, was completed before the abort reached
\* it, or is followed by another one.
CooldownRespected == engine = "running" /\ ~tripped => ~owed

\* What scan() makes of a process that has ended: a match is returned, however
\* the process ended by itself and even if the monitor tripped meanwhile; and
\* the chunk of the key is never returned as searched, not even when the match
\* went unread with a process that was terminated.
Collected == guard \in {"joining", "joined"} /\ engine' = "none"
VerdictTrue ==
  [][Collected => /\ match /\ ~cut => result' = "found"
                  /\ result' = "complete" => ~holds /\ ~cut]_guardVars

\* A GPU that is hot and stays hot does not stay under load, whatever the
\* telemetry says or fails to say.
HotScanEnds ==
  engine = "running" /\ temperature = "hot"
    ~> engine # "running" \/ temperature # "hot"

=============================================================================
