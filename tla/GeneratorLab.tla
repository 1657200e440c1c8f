---------------------------- MODULE GeneratorLab ----------------------------
(***************************************************************************)
(* The Generator Lab (generator_lab.py) as command_local_app runs it: a    *)
(* daemon thread tests every pair of a seed candidate and a generator      *)
(* scheme, in short slices, and keeps its cursor in generator-lab.json.    *)
(*                                                                         *)
(* A slice reads the file, works on a copy in memory and writes the copy   *)
(* back at its end.  The main thread reads the same file to learn of a     *)
(* find, and on its way out waits a bounded time for the slice and then    *)
(* reads the file and writes it back as "stopped": a slice that outlives   *)
(* the wait still holds its own copy.                                      *)
(*                                                                         *)
(* Writes replace the file atomically.  Faults (a killed process, a failed *)
(* derivation, a failed write, a wait that times out) are bounded together *)
(* by MaxFaults.                                                           *)
(***************************************************************************)
EXTENDS Naturals, Sequences, FiniteSets

CONSTANTS
  Sizes,      \* the number of seed candidates of each source
  Widths,     \* the number of schemes that apply to each source
  Winners,    \* the pairs that may reproduce the target, None if none does
  None,
  MaxFaults

Pairs == UNION {{i} \X (0 .. Sizes[i] - 1) \X (0 .. Widths[i] - 1) :
                i \in DOMAIN Sizes}

ASSUME ShapeAssumption ==
  /\ Sizes \in Seq(Nat \ {0}) /\ Len(Sizes) > 0
  /\ Widths \in Seq(Nat \ {0}) /\ Len(Widths) = Len(Sizes)
ASSUME WinnerAssumption == None \notin Pairs /\ Winners \subseteq Pairs \cup {None}
ASSUME FaultsAssumption == MaxFaults \in Nat

VARIABLES
  winner,     \* the pair that reproduces the target, or None
  disk,       \* generator-lab.json, or None before the first launch
  slice,      \* the copy the running slice works on, or None
  lab,        \* the thread: "off", "waiting" between slices, "slicing"
  main,       \* the main thread
  loaded,     \* what mark_stopped read
  tested,     \* pairs tested so far, in any launch
  repeated,   \* pairs tested more than once
  faults

progress == <<disk, slice, lab, main, loaded, tested, repeated, faults>>
vars == <<winner, progress>>

Statuses == {"ready", "running", "sleeping", "stopped", "error", "found", "exhausted"}
Terminal == {"found", "exhausted"}

FreshState == [source |-> 1, candidate |-> 0, scheme |-> 0,
               seeds |-> 0, checked |-> 0, status |-> "ready"]

Cursor(st) == <<st.source, st.candidate, st.scheme>>

Init ==
  /\ winner \in Winners
  /\ disk = None /\ slice = None /\ loaded = None
  /\ lab = "off" /\ main = "down"
  /\ tested = {} /\ repeated = {}
  /\ faults = 0

-----------------------------------------------------------------------------
(***************************************************************************)
(* The cursor                                                              *)
(***************************************************************************)

\* Mutant: the scheme index survives the move to the next candidate.
NextCandidate_KeepScheme(st) ==
  IF st.scheme < Widths[st.source] THEN st
  ELSE [st EXCEPT !.scheme = 1, !.candidate = @ + 1, !.seeds = @ + 1]

NextCandidate(st) ==
  IF st.scheme < Widths[st.source] THEN st
  ELSE [st EXCEPT !.scheme = 0, !.candidate = @ + 1, !.seeds = @ + 1]

NextSource(st) ==
  IF st.candidate < Sizes[st.source] THEN st
  ELSE [st EXCEPT !.source = @ + 1, !.candidate = 0, !.scheme = 0]

\* _normalize_cursor; no source and no list of schemes is empty.
Normalized(st) ==
  LET moved == NextSource(NextCandidate(st))
  IN  IF moved.source > Len(Sizes) THEN [moved EXCEPT !.status = "exhausted"]
      ELSE moved

Advanced(st) == Normalized([st EXCEPT !.scheme = @ + 1])

\* One pair: a find leaves the cursor on the pair.
AfterTest(st) ==
  LET counted == [st EXCEPT !.checked = @ + 1]
  IN  IF Cursor(st) = winner THEN [counted EXCEPT !.status = "found"]
      ELSE Advanced(counted)

-----------------------------------------------------------------------------
(***************************************************************************)
(* The lab thread                                                          *)
(***************************************************************************)

Stopping == main \notin {"running", "down"}

\* The thread looks at the stop event before it calls run_slice, so that a stop
\* may come in between.
MayBegin == lab = "waiting" /\ main \in {"running", "stopping"}

\* Mutant: a slice that starts works on a state of its own.
BeginSlice_FromStart ==
  /\ MayBegin
  /\ disk' = [disk EXCEPT !.status = "running"]
  /\ slice' = [FreshState EXCEPT !.status = "running"]
  /\ lab' = "slicing"
  /\ UNCHANGED <<main, loaded, tested, repeated, faults>>

\* run_slice up to its loop.
BeginSlice ==
  /\ MayBegin
  /\ IF disk.status \in Terminal
     THEN /\ lab' = "off"
          /\ UNCHANGED <<disk, slice>>
     ELSE /\ disk' = [disk EXCEPT !.status = "running"]
          /\ slice' = disk'
          /\ lab' = "slicing"
  /\ UNCHANGED <<main, loaded, tested, repeated, faults>>

Test ==
  /\ lab = "slicing" /\ slice.status = "running" /\ ~Stopping
  /\ tested' = tested \cup {Cursor(slice)}
  /\ repeated' = repeated \cup ({Cursor(slice)} \cap tested)
  /\ slice' = AfterTest(slice)
  /\ UNCHANGED <<disk, lab, main, loaded, faults>>

Settled(st) == IF st.status = "running" THEN [st EXCEPT !.status = "sleeping"] ELSE st

\* The deadline, a stop, a find or the end of the pairs.
EndSlice ==
  /\ lab = "slicing"
  /\ disk' = Settled(slice)
  /\ slice' = None
  /\ lab' = IF slice.status \in Terminal \/ Stopping THEN "off" ELSE "waiting"
  /\ UNCHANGED <<main, loaded, tested, repeated, faults>>

-----------------------------------------------------------------------------
(***************************************************************************)
(* The main thread                                                         *)
(***************************************************************************)

\* Mutant: a launch does not ask for a find made before it.
Launch_NoExistingKey ==
  /\ main = "down"
  /\ disk' = IF disk = None THEN FreshState ELSE disk
  /\ main' = "running" /\ lab' = "waiting"
  /\ UNCHANGED <<slice, loaded, tested, repeated, faults>>

\* found_key, and without a find start: both make the file if there is none.
Launch ==
  /\ main = "down"
  /\ disk' = IF disk = None THEN FreshState ELSE disk
  /\ IF disk'.status = "found"
     THEN main' = "over" /\ UNCHANGED lab
     ELSE main' = "running" /\ lab' = "waiting"
  /\ UNCHANGED <<slice, loaded, tested, repeated, faults>>

\* After a chunk the main thread asks for a find, and records it.
Collect ==
  /\ main = "running" /\ disk.status = "found"
  /\ main' = "over"
  /\ UNCHANGED <<disk, slice, lab, loaded, tested, repeated, faults>>

\* The campaign stops here for a reason of its own.
Stop ==
  /\ main = "running"
  /\ main' = "stopping"
  /\ UNCHANGED <<disk, slice, lab, loaded, tested, repeated, faults>>

\* stop() has waited for the thread; mark_stopped reads the file ...
Join ==
  /\ main = "stopping" /\ lab # "slicing"
  /\ lab' = "off"
  /\ loaded' = disk
  /\ main' = "marking"
  /\ UNCHANGED <<disk, slice, tested, repeated, faults>>

\* ... and writes it back, unless what it read was the end of the search.
MarkStopped ==
  /\ main = "marking"
  /\ disk' = IF loaded.status \in Terminal \cup {"error"} THEN disk
             ELSE [loaded EXCEPT !.status = "stopped"]
  /\ loaded' = None
  /\ main' = "leaving"
  /\ UNCHANGED <<slice, lab, tested, repeated, faults>>

\* The process ends; a slice still running ends with it, unsaved.
Gone ==
  /\ main' = "down" /\ lab' = "off"
  /\ slice' = None /\ loaded' = None
  /\ UNCHANGED <<disk, tested, repeated>>

Leave == main = "leaving" /\ Gone /\ UNCHANGED faults

-----------------------------------------------------------------------------
(***************************************************************************)
(* Faults                                                                  *)
(***************************************************************************)
Fault == faults < MaxFaults /\ faults' = faults + 1

JoinTimesOut ==
  /\ Fault
  /\ main = "stopping" /\ lab = "slicing"
  /\ loaded' = disk
  /\ main' = "marking"
  /\ UNCHANGED <<disk, slice, lab, tested, repeated>>

\* The derivation of a pair raises: the cursor stays on the pair.
DerivationFails ==
  /\ Fault
  /\ lab = "slicing" /\ slice.status = "running"
  /\ disk' = [slice EXCEPT !.status = "error"]
  /\ slice' = None
  /\ lab' = "off"
  /\ UNCHANGED <<main, loaded, tested, repeated>>

\* The write at the end of a slice raises: the thread ends, the file is as it
\* was at the start of the slice.
WriteFails ==
  /\ Fault
  /\ lab = "slicing"
  /\ slice' = None
  /\ lab' = "off"
  /\ UNCHANGED <<disk, main, loaded, tested, repeated>>

Kill == Fault /\ main \notin {"down", "over"} /\ Gone

-----------------------------------------------------------------------------
LabNext == BeginSlice \/ Test \/ EndSlice
MainNext == Launch \/ Collect \/ Stop \/ Join \/ MarkStopped \/ Leave
FaultNext == JoinTimesOut \/ DerivationFails \/ WriteFails \/ Kill

Next == (LabNext \/ MainNext \/ FaultNext) /\ UNCHANGED winner

Spec == Init /\ [][Next]_vars

\* A slice ends by its deadline, and waits and writes do too.  The campaign
\* is launched again after it stops, is stopped when its lab has died, and is
\* not for ever stopped before the lab gets a slice and a slice tests a pair.
Fairness ==
  /\ WF_progress(EndSlice)
  /\ SF_progress(main = "running" /\ BeginSlice) /\ SF_progress(Test)
  /\ WF_progress(Launch \/ Join \/ MarkStopped \/ Leave)
  /\ WF_progress(Collect) /\ WF_progress(lab = "off" /\ Stop)

FairSpec == Spec /\ Fairness

-----------------------------------------------------------------------------
(***************************************************************************)
(* Properties                                                              *)
(***************************************************************************)
States == [source : Nat, candidate : Nat, scheme : Nat, seeds : Nat,
           checked : Nat, status : Statuses]

ASSUME NoneAssumption == None \notin States

TypeOK ==
  /\ winner \in Winners
  /\ disk \in States \cup {None}
  /\ slice \in States \cup {None}
  /\ lab \in {"off", "waiting", "slicing"}
  /\ lab = "slicing" <=> slice # None
  /\ main \in {"down", "running", "stopping", "marking", "leaving", "over"}
  /\ loaded \in States \cup {None}
  /\ main = "marking" <=> loaded # None
  /\ tested \subseteq Pairs /\ repeated \subseteq tested
  /\ faults \in 0 .. MaxFaults

Before(p, q) == \/ p[1] < q[1]
                \/ p[1] = q[1] /\ p[2] < q[2]
                \/ p[1] = q[1] /\ p[2] = q[2] /\ p[3] < q[3]

Passed(st) == {p \in Pairs : Before(p, Cursor(st))}

\* The cursor never passes a pair that no launch has tested, nor the pair that
\* is the answer, and the counters agree with it: neither a killed slice, nor a
\* failed derivation or write, nor the "stopped" written over a slice that is
\* still running loses a pair or a count.
CursorHonest ==
  \A st \in {disk, slice, loaded} \ {None} :
    /\ Passed(st) \subseteq tested \ {winner}
    /\ st.checked = Cardinality(Passed(st)) + (IF st.status = "found" THEN 1 ELSE 0)
    /\ st.seeds = Cardinality({<<p[1], p[2]>> : p \in Passed(st)})
                  - (IF st.scheme > 0 THEN 1 ELSE 0)

\* A launch resumes without repeating a pair (docs/GENERATOR_LAB.md:43-44):
\* a pair is tested again only after a slice was lost to a fault.
RepeatsOnlyAfterFaults == repeated # {} => faults > 0

\* A find is collected, also when "stopped" was written over it.
FindCollected == winner # None => <>(main = "over")

=============================================================================
