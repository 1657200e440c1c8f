----------------------------- MODULE LocalSetup -----------------------------
(***************************************************************************)
(* The files of a local campaign: benchmark.json, the database (schema and *)
(* search mode) and profile.json, and the commands that write them.        *)
(*                                                                         *)
(* local-setup creates the three one after the other; the database itself  *)
(* comes about in several autocommitted statements.  Databases of older    *)
(* releases are migrated by whoever opens them, in two transactions.  The  *)
(* commands that change the mode write the database and the profile, one   *)
(* in this order and one in the other; the rest read the profile, change a *)
(* field and write all of it back.  A launch reads the profile and may set *)
(* the mode again.                                                         *)
(*                                                                         *)
(* Commands run in terminals; nothing keeps two of them apart, and each    *)
(* may be killed between any two steps.  What it leaves is on disk.        *)
(***************************************************************************)
EXTENDS Naturals

CONSTANTS
  Procs,        \* terminals, each running at most one command
  None,         \* no such file
  MaxCommands,  \* bound on the commands other than local-run
  MaxFaults     \* bound on crashes and failed disk writes

ASSUME ProcsAssumption == Procs # {}
ASSUME BoundsAssumption == MaxCommands \in Nat /\ MaxFaults \in Nat

VARIABLES
  benchmark,   \* benchmark.json exists
  db,          \* the database file
  dead,        \* a lease whose worker was killed is still in the work table
  profile,     \* profile.json
  pc, cmd,     \* what each terminal runs, and how far it is
  copy,        \* the profile it has read, or is going to write
  overlapped,  \* history: two commands were ever under way at once
  cut,         \* history: the commands ever killed between two files
  commands, faults

files == <<benchmark, db, dead, profile>>
vars == <<files, pc, cmd, copy, overlapped, cut, commands, faults>>

Modes == {"affine", "mosaic", "cold", "hypothesis"}
Presets == {"affine", "mosaic", "cold"}
Commands == {"setup", "run", "hypothesis", "cold", "reseed", "edit"}

\* hypothesis_enabled is lab, auto_sweep_enabled is armed.
Profiles == [mode : Modes, lab : BOOLEAN, armed : BOOLEAN]

\* The strategy columns, the campaign row, the table and row of the Hypothesis
\* Lab; the preset of the planner, the Lab's flag, and whether the campaign is
\* over.
Databases == [version : 0 .. 3, columns : BOOLEAN, campaign : BOOLEAN,
              table : BOOLEAN, row : BOOLEAN,
              preset : Presets, lab : BOOLEAN, over : BOOLEAN]

ASSUME NoneAssumption == None \notin Profiles \cup Databases

\* Between two statements of initialize.
InitStages == {"tables", "campaign", "rows"}

Stages == {"idle", "benchmarking", "initializing", "creating", "orphan", "opening",
           "alter", "create_lab", "opened", "saving", "running", "scanning"}
          \cup InitStages

TypeOK ==
  /\ benchmark \in BOOLEAN /\ dead \in BOOLEAN
  /\ db \in Databases \cup {None}
  /\ profile \in Profiles \cup {None}
  /\ pc \in [Procs -> Stages]
  /\ cmd \in [Procs -> Commands]
  /\ copy \in [Procs -> Profiles \cup {None}]
  /\ overlapped \in BOOLEAN /\ cut \subseteq {"hypothesis", "cold"}
  /\ commands \in 0 .. MaxCommands /\ faults \in 0 .. MaxFaults

\* A campaign of the first or second schema.
OldDatabase(version) ==
  [version |-> version, columns |-> version = 2, campaign |-> TRUE,
   table |-> FALSE, row |-> FALSE,
   preset |-> "affine", lab |-> FALSE, over |-> FALSE]

\* Nothing yet, or a campaign set up by an older release.
Init ==
  /\ \/ benchmark = FALSE /\ db = None /\ profile = None
     \/ /\ benchmark = TRUE
        /\ \E version \in {1, 2} : db = OldDatabase(version)
        /\ profile = [mode |-> "affine", lab |-> FALSE, armed |-> FALSE]
  /\ dead = FALSE
  /\ pc = [p \in Procs |-> "idle"]
  /\ cmd = [p \in Procs |-> "run"]
  /\ copy = [p \in Procs |-> None]
  /\ overlapped = FALSE /\ cut = {}
  /\ commands = 0 /\ faults = 0

-----------------------------------------------------------------------------
(***************************************************************************)
(* Starting a command                                                      *)
(***************************************************************************)

Goto(p, stage) == pc' = [pc EXCEPT ![p] = stage]

\* A worker in its loop is no command under way.
UnderWay(p) == pc[p] \notin {"idle", "running", "scanning"}

Start(p, command, stage, loaded) ==
  /\ pc[p] = "idle"
  /\ Goto(p, stage)
  /\ cmd' = [cmd EXCEPT ![p] = command]
  /\ copy' = [copy EXCEPT ![p] = loaded]
  /\ overlapped' = (overlapped \/ \E q \in Procs \ {p} : UnderWay(q))
  /\ UNCHANGED <<files, cut, faults>>

\* command_local_setup refuses a directory that holds any of the three files.
Setup(p) ==
  /\ ~benchmark /\ db = None /\ profile = None
  /\ commands < MaxCommands /\ commands' = commands + 1
  /\ \E m \in Modes :
       Start(p, "setup", "benchmarking",
             [mode |-> m, lab |-> m = "hypothesis", armed |-> FALSE])

\* The other commands begin with load_profile; hypothesis-enable and the plain
\* edits (local-sweep-configure, generator-enable) save before they open a
\* database, if they open one at all.
Command(p) ==
  /\ profile # None
  /\ commands < MaxCommands /\ commands' = commands + 1
  /\ \/ \E command \in {"cold", "reseed"} : Start(p, command, "opening", profile)
     \/ \E command \in {"hypothesis", "edit"} : Start(p, command, "saving", profile)

\* local-run and local-app
Run(p) ==
  /\ profile # None
  /\ Start(p, "run", "opening", profile)
  /\ UNCHANGED commands

-----------------------------------------------------------------------------
(***************************************************************************)
(* local-setup                                                             *)
(***************************************************************************)

others == <<cmd, copy, overlapped, cut, commands>>

\* A gate fails: no engine, no valid result, no profile that completed.
BenchmarkFails(p) ==
  /\ pc[p] = "benchmarking"
  /\ Goto(p, "idle")
  /\ UNCHANGED <<files, others, faults>>

\* Mutant: the profile is saved with the report.
SaveReport_AndProfile(p) ==
  /\ pc[p] = "benchmarking"
  /\ benchmark' = TRUE /\ profile' = copy[p]
  /\ Goto(p, "initializing")
  /\ UNCHANGED <<db, dead, others, faults>>

SaveReport(p) ==
  /\ pc[p] = "benchmarking"
  /\ benchmark' = TRUE
  /\ Goto(p, "initializing")
  /\ UNCHANGED <<db, dead, profile, others, faults>>

\* initialize refuses an existing file, or a campaign SQLite cannot count.
CheckPath(p) ==
  /\ pc[p] = "initializing"
  /\ \/ db = None /\ Goto(p, "creating")
     \/ Goto(p, "idle")
  /\ UNCHANGED <<files, others, faults>>

\* An exception inside initialize removes the file, whoever made it; another
\* process goes on writing to a file that no longer has a name.
Unlink(p) ==
  /\ db' = None
  /\ pc' = [q \in Procs |-> IF q = p THEN "idle"
                            ELSE IF pc[q] \in InitStages THEN "orphan" ELSE pc[q]]

\* CREATE TABLE fails where another process has made the tables since the path
\* was looked at.  Its statements commit one by one; killed between them the
\* process leaves fewer tables under version 0, which opens as little as all.
CreateTables(p) ==
  /\ pc[p] = "creating"
  /\ \/ /\ db = None
        /\ db' = [version |-> 0, columns |-> TRUE, campaign |-> FALSE,
                  table |-> TRUE, row |-> FALSE,
                  preset |-> "affine", lab |-> FALSE, over |-> FALSE]
        /\ Goto(p, "tables")
     \/ db # None /\ Unlink(p)
  /\ UNCHANGED <<benchmark, dead, profile, others, faults>>

\* The Hypothesis Lab plans over an affine campaign.
PresetOf(mode) == IF mode = "hypothesis" THEN "affine" ELSE mode

\* Mutant: the version is set before the last row is there.
InsertCampaign_WithVersion(p) ==
  /\ pc[p] = "tables"
  /\ db' = [db EXCEPT !.campaign = TRUE, !.version = 3,
                      !.preset = PresetOf(copy[p].mode)]
  /\ Goto(p, "campaign")
  /\ UNCHANGED <<benchmark, dead, profile, others, faults>>

InsertCampaign(p) ==
  /\ pc[p] = "tables"
  /\ db' = [db EXCEPT !.campaign = TRUE,
                      !.preset = PresetOf(copy[p].mode)]
  /\ Goto(p, "campaign")
  /\ UNCHANGED <<benchmark, dead, profile, others, faults>>

InsertLab(p) ==
  /\ pc[p] = "campaign"
  /\ db' = [db EXCEPT !.row = TRUE, !.lab = copy[p].lab]
  /\ Goto(p, "rows")
  /\ UNCHANGED <<benchmark, dead, profile, others, faults>>

\* PRAGMA user_version comes last; then the database is opened like any other.
SetVersion(p) ==
  /\ pc[p] = "rows"
  /\ db' = [db EXCEPT !.version = 3]
  /\ Goto(p, "opening")
  /\ UNCHANGED <<benchmark, dead, profile, others, faults>>

OrphanEnds(p) ==
  /\ pc[p] = "orphan"
  /\ Goto(p, "opening")
  /\ UNCHANGED <<files, others, faults>>

\* A write fails inside initialize.
InitFails(p) ==
  /\ pc[p] \in InitStages \cup {"creating", "orphan"}
  /\ faults < MaxFaults /\ faults' = faults + 1
  /\ Unlink(p)
  /\ UNCHANGED <<benchmark, dead, profile, others>>

-----------------------------------------------------------------------------
(***************************************************************************)
(* Opening a database                                                      *)
(***************************************************************************)

\* _prepare_schema reads the version outside of any transaction.
Open(p) ==
  /\ pc[p] = "opening"
  /\ Goto(p, IF db = None THEN "idle"
             ELSE CASE db.version = 1 -> "alter"
                    [] db.version = 2 -> "create_lab"
                    [] db.version = 3 /\ db.campaign -> "opened"
                    [] OTHER -> "idle")
  /\ UNCHANGED <<files, others, faults>>

\* Mutant: the first migration leaves the version to the second.
AddColumns_NoVersion(p) ==
  /\ pc[p] = "alter"
  /\ \/ /\ db # None /\ ~db.columns
        /\ db' = [db EXCEPT !.columns = TRUE]
        /\ Goto(p, "create_lab")
     \/ (db # None => db.columns) /\ Goto(p, "idle") /\ UNCHANGED db
  /\ UNCHANGED <<benchmark, dead, profile, others, faults>>

\* The first migration; ALTER TABLE fails on columns another opener has added.
AddColumns(p) ==
  /\ pc[p] = "alter"
  /\ \/ /\ db # None /\ ~db.columns
        /\ db' = [db EXCEPT !.columns = TRUE, !.version = 2]
        /\ Goto(p, "create_lab")
     \/ (db # None => db.columns) /\ Goto(p, "idle") /\ UNCHANGED db
  /\ UNCHANGED <<benchmark, dead, profile, others, faults>>

\* The second; CREATE TABLE fails in the same way.
AddLab(p) ==
  /\ pc[p] = "create_lab"
  /\ \/ /\ db # None /\ ~db.table
        /\ db' = [db EXCEPT !.table = TRUE, !.row = TRUE, !.version = 3]
        /\ Goto(p, "opened")
     \/ (db # None => db.table) /\ Goto(p, "idle") /\ UNCHANGED db
  /\ UNCHANGED <<benchmark, dead, profile, others, faults>>

-----------------------------------------------------------------------------
(***************************************************************************)
(* What a command does with the database and the profile                   *)
(***************************************************************************)

Opened(p, command) == pc[p] = "opened" /\ cmd[p] = command

\* The database was removed after it was opened.
Vanished(p) ==
  /\ pc[p] \in {"opened", "running", "scanning"} /\ db = None
  /\ Goto(p, "idle")
  /\ UNCHANGED <<files, others, faults>>

SetupOpened(p) ==
  /\ Opened(p, "setup") /\ db # None
  /\ Goto(p, "saving")
  /\ UNCHANGED <<files, others, faults>>

\* Mutant: a launch trusts the database.
Launch_KeepMode(p) ==
  /\ Opened(p, "run") /\ db # None
  /\ Goto(p, "running")
  /\ UNCHANGED <<files, others, faults>>

\* A launch turns the Hypothesis Lab on if the profile it read asks for it.
Launch(p) ==
  /\ Opened(p, "run") /\ db # None
  /\ db' = IF copy[p].lab THEN [db EXCEPT !.lab = TRUE] ELSE db
  /\ Goto(p, "running")
  /\ UNCHANGED <<benchmark, dead, profile, others, faults>>

\* hypothesis-enable, after it has saved the profile.
EnableHypothesis(p) ==
  /\ Opened(p, "hypothesis") /\ db # None
  /\ db' = [db EXCEPT !.lab = TRUE]
  /\ Goto(p, "idle")
  /\ UNCHANGED <<benchmark, dead, profile, others, faults>>

\* A lease that ran out counts until somebody reclaims it.
Leased == dead \/ \E p \in Procs : pc[p] = "scanning"

\* Mutant: the profile is saved also after a refusal.
EnableCold_SaveAnyway(p) ==
  /\ Opened(p, "cold") /\ db # None
  /\ db' = IF db.over \/ Leased THEN db ELSE [db EXCEPT !.preset = "cold", !.lab = FALSE]
  /\ Goto(p, "saving")
  /\ UNCHANGED <<benchmark, dead, profile, others, faults>>

\* cold-enable: a refusal leaves the profile as it is.
EnableCold(p) ==
  /\ Opened(p, "cold") /\ db # None
  /\ \/ /\ ~db.over /\ ~Leased
        /\ db' = [db EXCEPT !.preset = "cold", !.lab = FALSE]
        /\ Goto(p, "saving")
     \/ (db.over \/ Leased) /\ Goto(p, "idle") /\ UNCHANGED db
  /\ UNCHANGED <<benchmark, dead, profile, others, faults>>

\* local-reseed refuses an affine campaign too; the seed itself steers nothing
\* here.
Reseed(p) ==
  /\ Opened(p, "reseed") /\ db # None
  /\ Goto(p, IF db.over \/ Leased \/ (~db.lab /\ db.preset = "affine")
             THEN "idle" ELSE "saving")
  /\ UNCHANGED <<files, others, faults>>

\* save_profile: the copy with the command's own fields changed.
Edited(p) ==
  CASE cmd[p] = "hypothesis" -> {[copy[p] EXCEPT !.mode = "hypothesis", !.lab = TRUE]}
    [] cmd[p] = "cold" -> {[copy[p] EXCEPT !.mode = "cold", !.lab = FALSE]}
    [] cmd[p] = "edit" -> {[copy[p] EXCEPT !.armed = armed] : armed \in BOOLEAN}
    [] OTHER -> {copy[p]}

SaveProfile(p) ==
  /\ pc[p] = "saving"
  /\ profile' \in Edited(p)
  /\ Goto(p, IF cmd[p] = "hypothesis" THEN "opening" ELSE "idle")
  /\ UNCHANGED <<benchmark, db, dead, others, faults>>

-----------------------------------------------------------------------------
(***************************************************************************)
(* The worker's loop, and the faults                                       *)
(***************************************************************************)

\* The next chunk is leased, unless the campaign is over or nothing is left.
LeaseChunk(p) ==
  /\ pc[p] = "running" /\ db # None
  /\ Goto(p, IF db.over THEN "idle" ELSE "scanning")
  /\ UNCHANGED <<files, others, faults>>

\* It is completed, perhaps as the last one, or given back.
EndChunk(p) ==
  /\ pc[p] = "scanning" /\ db # None
  /\ \E over \in BOOLEAN : db' = [db EXCEPT !.over = @ \/ over]
  /\ \E stage \in {"running", "idle"} : Goto(p, stage)
  /\ UNCHANGED <<benchmark, dead, profile, others, faults>>

\* Any lease or status call after its time gives a dead worker's chunk back.
Reclaim ==
  /\ dead /\ dead' = FALSE
  /\ UNCHANGED <<benchmark, db, profile, pc, others, faults>>

\* A command that writes the mode to both files has written one of them:
\* hypothesis-enable the profile, cold-enable the database.
Halfway(p) ==
  \/ cmd[p] = "hypothesis" /\ pc[p] \in {"opening", "alter", "create_lab", "opened"}
  \/ cmd[p] = "cold" /\ pc[p] = "saving"

Crash(p) ==
  /\ pc[p] # "idle"
  /\ faults < MaxFaults /\ faults' = faults + 1
  /\ Goto(p, "idle")
  /\ dead' = (dead \/ pc[p] = "scanning")
  /\ cut' = IF Halfway(p) THEN cut \cup {cmd[p]} ELSE cut
  /\ UNCHANGED <<benchmark, db, profile, cmd, copy, overlapped, commands>>

-----------------------------------------------------------------------------
Initialize(p) == \/ CheckPath(p) \/ CreateTables(p) \/ InsertCampaign(p)
                 \/ InsertLab(p) \/ SetVersion(p) \/ OrphanEnds(p)
Opening(p) == Open(p) \/ AddColumns(p) \/ AddLab(p)
Work(p) == \/ SetupOpened(p) \/ Launch(p) \/ EnableHypothesis(p) \/ EnableCold(p)
           \/ Reseed(p) \/ SaveProfile(p) \/ Vanished(p)
Step(p) == \/ BenchmarkFails(p) \/ SaveReport(p) \/ Initialize(p) \/ Opening(p)
           \/ Work(p) \/ LeaseChunk(p) \/ EndChunk(p)

Next == \/ \E p \in Procs : \/ Setup(p) \/ Command(p) \/ Run(p) \/ Step(p)
                            \/ InitFails(p) \/ Crash(p)
        \/ Reclaim

Spec == Init /\ [][Next]_vars

\* A command that is running goes on; whenever a terminal is free the campaign
\* is launched again.
Fairness ==
  /\ \A p \in Procs : WF_vars(Step(p))
  /\ WF_vars(\E p \in Procs : Run(p))

FairSpec == Spec /\ Fairness

-----------------------------------------------------------------------------
(***************************************************************************)
(* Properties                                                              *)
(***************************************************************************)

\* The version says what is in the file: a database that opens has all of its
\* tables and rows, wherever its creation or a migration was cut off and
\* however many processes migrated it at once.
VersionTrue ==
  db # None =>
    /\ db.version = 3 => db.columns /\ db.campaign /\ db.table /\ db.row
    /\ db.version = 2 => db.columns /\ db.campaign /\ ~db.table
    /\ db.version = 1 => ~db.columns /\ db.campaign /\ ~db.table

\* A profile is there only when its database can be opened: wherever
\* local-setup was cut off or failed, a launch finds a whole campaign or no
\* profile.  Two set-ups at once are excepted: the one that comes late removes
\* the other's database.
ProfileHasCampaign ==
  profile # None /\ ~overlapped => db # None /\ db.version > 0

\* Profile and database agree on the mode: on the Hypothesis Lab, and without it
\* on the preset.
Agree ==
  /\ profile.lab = db.lab
  /\ ~profile.lab => profile.mode = db.preset

\* command is between its two files, or was once killed there.
HalfDone(command) ==
  command \in cut \/ \E p \in Procs : cmd[p] = command /\ Halfway(p)

\* Whatever was refused, failed or killed, profile and database disagree on the
\* mode in two ways only: a half-done hypothesis-enable leaves a profile that
\* asks for the Lab and a database without it, a half-done cold-enable leaves a
\* cold database, without the Lab, under the old profile.  Commands issued at
\* the same time are excepted (they write back what they read).
NoFalseClaim ==
  profile # None /\ ~overlapped =>
    /\ profile.mode = "hypothesis" <=> profile.lab
    /\ \/ Agree
       \/ HalfDone("hypothesis") /\ profile.lab /\ ~db.lab
       \/ HalfDone("cold") /\ ~db.lab /\ db.preset = "cold"

\* As long as profile and database exist, launches lead to work: neither a
\* migration cut off nor openers that make each other's migration fail, again
\* and again, keep a campaign from being resumed.
Working == db # None /\ (db.over \/ \E p \in Procs : pc[p] = "scanning")
LaunchSucceeds == <>[](profile # None /\ db # None) => []<>Working

\* A profile that asks for the Hypothesis Lab gets it, also when the command
\* that wrote the profile was killed before it reached the database.
LabAsked == profile # None /\ profile.lab /\ db # None
LabComes == LabAsked ~> (~LabAsked \/ db.lab)

=============================================================================
