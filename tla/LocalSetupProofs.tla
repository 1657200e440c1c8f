-------------------------- MODULE LocalSetupProofs --------------------------
(***************************************************************************)
(* The files of a local campaign agree, for any number of terminals,       *)
(* commands and faults.  Three invariants, each proved with a              *)
(* strengthening of its own: the schema version is true to the file; a     *)
(* profile is there only with a campaign; the two disagree on the mode     *)
(* only where a command is half done.                                      *)
(***************************************************************************)
EXTENDS LocalSetup, TLAPS

FilesOK ==
  /\ benchmark \in BOOLEAN /\ dead \in BOOLEAN
  /\ db \in Databases \cup {None}
  /\ profile \in Profiles \cup {None}

CommandsOK ==
  /\ pc \in [Procs -> Stages]
  /\ cmd \in [Procs -> Commands]
  /\ copy \in [Procs -> Profiles \cup {None}]
  /\ overlapped \in BOOLEAN /\ cut \subseteq {"hypothesis", "cold"}
  /\ commands \in 0 .. MaxCommands /\ faults \in 0 .. MaxFaults

LEMMA TypeParts == TypeOK <=> FilesOK /\ CommandsOK
  BY DEF TypeOK, FilesOK, CommandsOK

\* A command has a profile in hand: the one it read, or is going to write.
CopyKept == \A p \in Procs : pc[p] # "idle" => copy[p] # None

\* initialize writes its rows to a file that is there.
FileKept == \A p \in Procs : pc[p] \in InitStages => db # None

TypeInv == FilesOK /\ CommandsOK /\ CopyKept /\ FileKept

-----------------------------------------------------------------------------
(***************************************************************************)
(* Type correctness                                                        *)
(***************************************************************************)

\* The statements of this module set one field after the other.
LEMMA DatabaseTypes ==
  ASSUME NEW d \in Databases, NEW flag \in BOOLEAN, NEW preset \in Presets
  PROVE  /\ [d EXCEPT !.campaign = TRUE, !.preset = preset] \in Databases
         /\ [d EXCEPT !.row = TRUE, !.lab = flag] \in Databases
         /\ [d EXCEPT !.version = 3] \in Databases
         /\ [d EXCEPT !.columns = TRUE, !.version = 2] \in Databases
         /\ [d EXCEPT !.table = TRUE, !.row = TRUE, !.version = 3] \in Databases
         /\ [d EXCEPT !.lab = TRUE] \in Databases
         /\ [d EXCEPT !.preset = "cold", !.lab = FALSE] \in Databases
         /\ [d EXCEPT !.over = @ \/ flag] \in Databases
<1>1. [d EXCEPT !.campaign = TRUE, !.preset = preset] \in Databases
  <2>1. PICK e \in Databases : e = [d EXCEPT !.campaign = TRUE]
    BY DEF Databases
  <2>2. [e EXCEPT !.preset = preset] \in Databases
    BY DEF Databases
  <2>3. QED
    BY <2>1, <2>2
<1>2. [d EXCEPT !.row = TRUE, !.lab = flag] \in Databases
  <2>1. PICK e \in Databases : e = [d EXCEPT !.row = TRUE]
    BY DEF Databases
  <2>2. [e EXCEPT !.lab = flag] \in Databases
    BY DEF Databases
  <2>3. QED
    BY <2>1, <2>2
<1>3. [d EXCEPT !.version = 3] \in Databases
  BY DEF Databases
<1>4. [d EXCEPT !.columns = TRUE, !.version = 2] \in Databases
  <2>1. PICK e \in Databases : e = [d EXCEPT !.columns = TRUE]
    BY DEF Databases
  <2>2. [e EXCEPT !.version = 2] \in Databases
    BY DEF Databases
  <2>3. QED
    BY <2>1, <2>2
<1>5. [d EXCEPT !.table = TRUE, !.row = TRUE, !.version = 3] \in Databases
  <2>1. PICK e \in Databases : e = [d EXCEPT !.table = TRUE]
    BY DEF Databases
  <2>2. PICK f \in Databases : f = [e EXCEPT !.row = TRUE]
    BY DEF Databases
  <2>3. [f EXCEPT !.version = 3] \in Databases
    BY DEF Databases
  <2>4. QED
    BY <2>1, <2>2, <2>3
<1>6. [d EXCEPT !.lab = TRUE] \in Databases
  BY DEF Databases
<1>7. [d EXCEPT !.preset = "cold", !.lab = FALSE] \in Databases
  <2>1. PICK e \in Databases : e = [d EXCEPT !.preset = "cold"]
    BY DEF Databases, Presets
  <2>2. [e EXCEPT !.lab = FALSE] \in Databases
    BY DEF Databases
  <2>3. QED
    BY <2>1, <2>2
<1>8. [d EXCEPT !.over = @ \/ flag] \in Databases
  BY DEF Databases
<1>9. QED
  BY <1>1, <1>2, <1>3, <1>4, <1>5, <1>6, <1>7, <1>8

\* A step of a command that is under way keeps what it has in hand.
LEMMA GotoTypes ==
  ASSUME CommandsOK, CopyKept, NEW p \in Procs, pc[p] # "idle",
         NEW stage \in Stages, Goto(p, stage),
         UNCHANGED <<cmd, copy, overlapped, commands>>,
         cut' \subseteq {"hypothesis", "cold"}, faults' \in 0 .. MaxFaults
  PROVE  CommandsOK' /\ CopyKept'
  BY DEF CommandsOK, CopyKept, Goto

LEMMA UnlinkTypes ==
  ASSUME CommandsOK, CopyKept, NEW p \in Procs, Unlink(p), UNCHANGED others,
         faults' \in 0 .. MaxFaults
  PROVE  CommandsOK' /\ CopyKept' /\ FileKept'
<1>1. pc' \in [Procs -> Stages]
  BY DEF CommandsOK, Unlink, Stages
<1>2. CommandsOK'
  BY <1>1 DEF CommandsOK, others
<1>3. CopyKept'
  BY DEF CopyKept, Unlink, others, InitStages
<1>4. FileKept'
  BY DEF FileKept, Unlink, InitStages
<1>5. QED
  BY <1>2, <1>3, <1>4

LEMMA StartTypes ==
  ASSUME CommandsOK, CopyKept, FileKept, NEW p \in Procs, NEW command \in Commands,
         NEW stage \in Stages \ InitStages, NEW loaded \in Profiles,
         Start(p, command, stage, loaded), commands' \in 0 .. MaxCommands
  PROVE  CommandsOK' /\ CopyKept' /\ FileKept'
<1>1. pc' \in [Procs -> Stages] /\ cmd' \in [Procs -> Commands]
  BY DEF CommandsOK, Start, Goto
<1>2. copy' \in [Procs -> Profiles \cup {None}]
  BY DEF CommandsOK, Start
<1>3. overlapped' \in BOOLEAN
  BY DEF CommandsOK, Start
<1>4. CommandsOK'
  BY <1>1, <1>2, <1>3 DEF CommandsOK, Start
<1>5. CopyKept'
  BY NoneAssumption DEF CommandsOK, CopyKept, Start, Goto
<1>6. FileKept'
  BY DEF CommandsOK, FileKept, Start, Goto, files
<1>7. QED
  BY <1>4, <1>5, <1>6

LEMMA FileKeptStep ==
  ASSUME CommandsOK, FileKept, NEW p \in Procs, NEW stage, Goto(p, stage),
         db # None => db' # None, stage \in InitStages => db' # None
  PROVE  FileKept'
  BY DEF CommandsOK, FileKept, Goto

LEMMA FaultTypes ==
  CommandsOK /\ faults < MaxFaults /\ faults' = faults + 1 => faults' \in 0 .. MaxFaults
  BY BoundsAssumption DEF CommandsOK

LEMMA EditedTypes ==
  ASSUME TypeInv, NEW p \in Procs, pc[p] = "saving"
  PROVE  Edited(p) \subseteq Profiles
<1>1. copy[p] \in Profiles
  BY DEF TypeInv, CommandsOK, CopyKept
<1>2. QED
  BY <1>1 DEF Edited, Profiles, Modes

\* The file as CREATE TABLE leaves it.
NewDatabase ==
  [version |-> 0, columns |-> TRUE, campaign |-> FALSE, table |-> TRUE, row |-> FALSE,
   preset |-> "affine", lab |-> FALSE, over |-> FALSE]

\* Each action once more, as the stage it leads to and the database it leaves.
LEMMA StepShape ==
  ASSUME TypeInv, NEW p \in Procs, Step(p)
  PROVE  /\ UNCHANGED <<others, faults>>
         /\ pc[p] # "idle"
         /\ FilesOK'
         /\ \/ Unlink(p)
            \/ \E stage \in Stages :
                 /\ Goto(p, stage)
                 /\ db # None => db' # None
                 /\ stage \in InitStages => db' # None
<1> DEFINE Shape == /\ UNCHANGED <<others, faults>>
                    /\ pc[p] # "idle"
                    /\ FilesOK'
                    /\ \/ Unlink(p)
                       \/ \E stage \in Stages :
                            /\ Goto(p, stage)
                            /\ db # None => db' # None
                            /\ stage \in InitStages => db' # None
<1>a. FilesOK /\ CommandsOK /\ CopyKept /\ FileKept
  BY DEF TypeInv
<1>b. NoneAssumption
  BY NoneAssumption
<1> USE DEF Stages, InitStages
<1>1. CASE BenchmarkFails(p)
  BY <1>a, <1>1 DEF BenchmarkFails, FilesOK, files
<1>17. CASE SaveReport(p)
  BY <1>a, <1>17 DEF SaveReport, FilesOK
<1>16. CASE CheckPath(p)
  BY <1>a, <1>16 DEF CheckPath, FilesOK, files
<1>2. CASE CreateTables(p)
  <2>1. CASE Unlink(p)
    BY <1>a, <1>2, <2>1 DEF CreateTables, Unlink, FilesOK
  <2>2. CASE db = None /\ Goto(p, "tables")
    <3>1. NewDatabase \in Databases
      BY DEF NewDatabase, Databases, Presets
    <3>2. db' \in Databases
      BY <1>2, <2>2, <3>1 DEF CreateTables, NewDatabase
    <3>3. QED
      BY <1>a, <1>2, <2>2, <3>2, NoneAssumption DEF CreateTables, FilesOK
  <2>3. QED
    BY <1>2, <2>1, <2>2 DEF CreateTables
<1>3. CASE InsertCampaign(p)
  <2>1. db \in Databases /\ copy[p] \in Profiles
    BY <1>a, <1>3 DEF InsertCampaign, FilesOK, CommandsOK, CopyKept, FileKept
  <2>2. PresetOf(copy[p].mode) \in Presets
    BY <2>1 DEF PresetOf, Profiles, Modes, Presets
  <2>3. db' \in Databases
    BY <1>3, <2>1, <2>2, DatabaseTypes DEF InsertCampaign
  <2>4. QED
    BY <1>a, <1>3, <2>3, NoneAssumption DEF InsertCampaign, FilesOK
<1>4. CASE InsertLab(p)
  <2>1. db \in Databases /\ copy[p] \in Profiles
    BY <1>a, <1>4 DEF InsertLab, FilesOK, CommandsOK, CopyKept, FileKept
  <2>2. copy[p].lab \in BOOLEAN
    BY <2>1 DEF Profiles
  <2>3. db' \in Databases
    BY <1>4, <2>1, <2>2 DEF InsertLab, Databases
  <2>4. QED
    BY <1>a, <1>4, <2>3, NoneAssumption DEF InsertLab, FilesOK
<1>5. CASE SetVersion(p)
  <2>1. db \in Databases
    BY <1>a, <1>5 DEF SetVersion, FilesOK, FileKept
  <2>2. db' \in Databases
    BY <1>5, <2>1, DatabaseTypes DEF SetVersion, Presets
  <2>3. QED
    BY <1>a, <1>5, <2>2, NoneAssumption DEF SetVersion, FilesOK
<1>6. CASE OrphanEnds(p) \/ Open(p)
  BY <1>a, <1>6 DEF OrphanEnds, Open, FilesOK, files
<1>7. CASE AddColumns(p)
  <2>1. CASE UNCHANGED db
    BY <1>a, <1>7, <2>1 DEF AddColumns, FilesOK
  <2>2. CASE db # None /\ db' = [db EXCEPT !.columns = TRUE, !.version = 2]
    <3>1. db' \in Databases
      BY <1>a, <2>2, DatabaseTypes DEF FilesOK, Presets
    <3>2. QED
      BY <1>a, <1>7, <3>1, NoneAssumption DEF AddColumns, FilesOK
  <2>3. QED
    BY <1>7, <2>1, <2>2 DEF AddColumns
<1>8. CASE AddLab(p)
  <2>1. CASE UNCHANGED db
    BY <1>a, <1>8, <2>1 DEF AddLab, FilesOK
  <2>2. CASE db # None /\ db' = [db EXCEPT !.table = TRUE, !.row = TRUE, !.version = 3]
    <3>1. db' \in Databases
      BY <1>a, <2>2, DatabaseTypes DEF FilesOK, Presets
    <3>2. QED
      BY <1>a, <1>8, <3>1, NoneAssumption DEF AddLab, FilesOK
  <2>3. QED
    BY <1>8, <2>1, <2>2 DEF AddLab
<1>9. CASE SetupOpened(p) \/ Vanished(p) \/ Reseed(p)
  BY <1>a, <1>9 DEF SetupOpened, Vanished, Reseed, Opened, FilesOK, files
<1>10. CASE Launch(p) \/ EnableHypothesis(p)
  <2>1. db' \in Databases
    BY <1>a, <1>10, DatabaseTypes DEF Launch, EnableHypothesis, FilesOK, Presets
  <2>2. QED
    BY <1>a, <1>10, <2>1, NoneAssumption DEF Launch, EnableHypothesis, Opened, FilesOK
<1>11. CASE EnableCold(p)
  <2>1. db' \in Databases
    BY <1>a, <1>11, DatabaseTypes DEF EnableCold, FilesOK, Presets
  <2>2. QED
    BY <1>a, <1>11, <2>1, NoneAssumption DEF EnableCold, Opened, FilesOK
<1>12. CASE SaveProfile(p)
  <2>1. profile' \in Profiles
    BY <1>12, EditedTypes DEF SaveProfile
  <2>2. QED
    BY <1>a, <1>12, <2>1 DEF SaveProfile, FilesOK
<1>13. CASE LeaseChunk(p)
  BY <1>a, <1>13 DEF LeaseChunk, FilesOK, files
<1>14. CASE EndChunk(p)
  <2>1. db' \in Databases
    BY <1>a, <1>14, DatabaseTypes DEF EndChunk, FilesOK, Presets
  <2>2. QED
    BY <1>a, <1>14, <2>1, NoneAssumption DEF EndChunk, FilesOK
<1>15. QED
  BY <1>1, <1>2, <1>3, <1>4, <1>5, <1>6, <1>7, <1>8, <1>9, <1>10, <1>11, <1>12, <1>13, <1>14, <1>16, <1>17
     DEF Step, Initialize, Opening, Work

LEMMA TypeStep == TypeInv /\ [Next]_vars => TypeInv'
<1> SUFFICES ASSUME TypeInv, [Next]_vars PROVE TypeInv'
  OBVIOUS
<1>a. FilesOK /\ CommandsOK /\ CopyKept /\ FileKept
  BY DEF TypeInv
<1>b. UNCHANGED files => FilesOK'
  BY <1>a DEF FilesOK, files
<1>c. {"benchmarking", "opening", "saving"} \subseteq Stages \ InitStages
  BY DEF Stages, InitStages
<1>1. ASSUME NEW p \in Procs, Setup(p) PROVE TypeInv'
  <2>1. PICK m \in Modes : Start(p, "setup", "benchmarking",
                                 [mode |-> m, lab |-> m = "hypothesis", armed |-> FALSE])
    BY <1>1 DEF Setup
  <2>2. [mode |-> m, lab |-> m = "hypothesis", armed |-> FALSE] \in Profiles
    BY DEF Profiles
  <2>3. commands' \in 0 .. MaxCommands
    BY <1>a, <1>1, BoundsAssumption DEF Setup, CommandsOK
  <2>4. "setup" \in Commands
    BY DEF Commands
  <2>5. QED
    BY <1>a, <1>b, <1>c, <2>1, <2>2, <2>3, <2>4, StartTypes DEF TypeInv, Start
<1>2. ASSUME NEW p \in Procs, Command(p) PROVE TypeInv'
  <2>1. profile \in Profiles
    BY <1>a, <1>2 DEF Command, FilesOK
  <2>2. commands' \in 0 .. MaxCommands
    BY <1>a, <1>2, BoundsAssumption DEF Command, CommandsOK
  <2>3. PICK command \in Commands, stage \in {"opening", "saving"} :
          Start(p, command, stage, profile)
    BY <1>2 DEF Command, Commands
  <2>4. QED
    BY <1>a, <1>b, <1>c, <2>1, <2>2, <2>3, StartTypes DEF TypeInv, Start
<1>3. ASSUME NEW p \in Procs, Run(p) PROVE TypeInv'
  <2>1. profile \in Profiles /\ commands' \in 0 .. MaxCommands /\ "run" \in Commands
    BY <1>a, <1>3 DEF Run, FilesOK, CommandsOK, Commands
  <2>2. QED
    BY <1>a, <1>b, <1>c, <1>3, <2>1, StartTypes DEF TypeInv, Start, Run
<1>4. ASSUME NEW p \in Procs, Step(p) PROVE TypeInv'
  <2>1. /\ UNCHANGED others /\ faults' \in 0 .. MaxFaults
        /\ FilesOK' /\ pc[p] # "idle"
    BY <1>a, <1>4, StepShape DEF CommandsOK
  <2>2. CASE Unlink(p)
    BY <1>a, <2>1, <2>2, UnlinkTypes DEF TypeInv
  <2>3. CASE \E stage \in Stages : /\ Goto(p, stage)
                                   /\ db # None => db' # None
                                   /\ stage \in InitStages => db' # None
    <3>1. cut' \subseteq {"hypothesis", "cold"}
      BY <1>a, <2>1 DEF CommandsOK, others
    <3>2. QED
      BY <1>a, <2>1, <2>3, <3>1, GotoTypes, FileKeptStep DEF TypeInv, others
  <2>4. QED
    BY <1>4, <2>2, <2>3, StepShape
<1>5. ASSUME NEW p \in Procs, InitFails(p) PROVE TypeInv'
  <2>1. faults' \in 0 .. MaxFaults
    BY <1>a, <1>5, FaultTypes DEF InitFails
  <2>2. FilesOK'
    BY <1>a, <1>5 DEF InitFails, Unlink, FilesOK
  <2>3. QED
    BY <1>a, <1>5, <2>1, <2>2, UnlinkTypes DEF TypeInv, InitFails
<1>6. ASSUME NEW p \in Procs, Crash(p) PROVE TypeInv'
  <2>1. faults' \in 0 .. MaxFaults /\ "idle" \in Stages /\ "idle" \notin InitStages
    BY <1>a, <1>6, FaultTypes DEF Crash, Stages, InitStages
  <2>4. cut' \subseteq {"hypothesis", "cold"}
    BY <1>a, <1>6 DEF Crash, CommandsOK, Halfway
  <2>2. CommandsOK' /\ CopyKept' /\ FileKept'
    BY <1>a, <1>6, <2>1, <2>4, GotoTypes, FileKeptStep DEF Crash
  <2>3. FilesOK'
    BY <1>a, <1>6 DEF Crash, FilesOK
  <2>5. QED
    BY <2>2, <2>3 DEF TypeInv
<1>7. CASE Reclaim
  BY <1>a, <1>7 DEF Reclaim, TypeInv, FilesOK, CommandsOK, CopyKept, FileKept, others
<1>8. CASE UNCHANGED vars
  BY <1>a, <1>8 DEF vars, files, TypeInv, FilesOK, CommandsOK, CopyKept, FileKept
<1>9. QED
  BY <1>1, <1>2, <1>3, <1>4, <1>5, <1>6, <1>7, <1>8 DEF Next

LEMMA OldTypes == \A version \in {1, 2} : OldDatabase(version) \in Databases
  BY DEF OldDatabase, Databases, Presets

LEMMA InitTypes == Init => TypeInv
<1> SUFFICES ASSUME Init PROVE TypeInv
  OBVIOUS
<1>2. FilesOK
  <2>1. [mode |-> "affine", lab |-> FALSE, armed |-> FALSE] \in Profiles
    BY DEF Profiles, Modes
  <2>2. db \in Databases \cup {None}
    BY OldTypes DEF Init
  <2>3. QED
    BY <2>1, <2>2 DEF Init, FilesOK
<1>3. CommandsOK
  <2>1. "idle" \in Stages /\ "run" \in Commands
    BY DEF Stages, Commands
  <2>2. pc \in [Procs -> Stages] /\ cmd \in [Procs -> Commands]
    BY <2>1 DEF Init
  <2>3. copy \in [Procs -> Profiles \cup {None}]
    BY DEF Init
  <2>4. 0 \in 0 .. MaxCommands /\ 0 \in 0 .. MaxFaults
    BY BoundsAssumption
  <2>5. overlapped \in BOOLEAN /\ cut = {} /\ commands = 0 /\ faults = 0
    BY DEF Init
  <2>6. QED
    BY <2>2, <2>3, <2>4, <2>5 DEF CommandsOK
<1>4. CopyKept /\ FileKept
  BY DEF Init, CopyKept, FileKept, InitStages
<1>5. QED
  BY <1>2, <1>3, <1>4 DEF TypeInv

\* The files and the terminals keep to their sets, and no command runs without
\* a profile in hand.
THEOREM TypeCorrect == Spec => [](TypeOK /\ CopyKept /\ FileKept)
<1>1. Spec => []TypeInv
  BY InitTypes, TypeStep, PTL DEF Spec
<1>2. TypeInv => TypeOK /\ CopyKept /\ FileKept
  BY TypeParts DEF TypeInv
<1>3. QED
  BY <1>1, <1>2, PTL

-----------------------------------------------------------------------------
(***************************************************************************)
(* The version is true to the file                                         *)
(***************************************************************************)

SettingUp == {"benchmarking", "initializing", "creating", "orphan"} \cup InitStages
MigrationStages == {"alter", "create_lab"}

\* What the version, the columns and the tables of a file say of each other.
DbShape ==
  db # None =>
    /\ db.version = 3 => db.columns /\ db.campaign /\ db.table /\ db.row
    /\ ~db.table => db.version \in {1, 2} /\ db.campaign
    /\ db.version = 1 => ~db.columns
    /\ ~db.columns => db.version = 1
    /\ db.version \in {1, 2} => ~db.table

\* A file that is being made has no version, and the rows written so far.
Making ==
  \A p \in Procs : pc[p] \in InitStages =>
    /\ db # None /\ db.version = 0 /\ db.columns /\ db.table
    /\ pc[p] \in {"campaign", "rows"} => db.campaign
    /\ pc[p] = "rows" => db.row

OneMaker == \A p, q \in Procs : pc[p] \in InitStages /\ pc[q] \in InitStages => p = q

\* A file of an older release is migrated, or still to be: it has its campaign,
\* and the report that comes with it keeps every set-up away.
Upgrading == (db # None /\ ~db.table) \/ \E p \in Procs : pc[p] \in MigrationStages
OldKept ==
  Upgrading =>
    /\ benchmark /\ db # None /\ db.campaign
    /\ \A p \in Procs : pc[p] \notin SettingUp
    /\ \A p \in Procs : pc[p] = "create_lab" => db.columns

SchemaInv == DbShape /\ Making /\ OneMaker /\ OldKept

SameSchema ==
  \/ UNCHANGED db
  \/ /\ db # None /\ db' # None
     /\ db'.version = db.version /\ db'.columns = db.columns
     /\ db'.campaign = db.campaign /\ db'.table = db.table /\ db'.row = db.row

\* Statements that leave the schema alone.
LEMMA SchemaQuiet ==
  ASSUME TypeInv, SchemaInv, NEW p \in Procs,
         NEW stage \in Stages \ (SettingUp \cup MigrationStages),
         Goto(p, stage), SameSchema, UNCHANGED benchmark
  PROVE  SchemaInv'
<1>1. \A q \in Procs : q # p => pc'[q] = pc[q]
  BY DEF TypeInv, CommandsOK, Goto
<1>2. pc'[p] \notin SettingUp \cup MigrationStages
  BY DEF TypeInv, CommandsOK, Goto
<1>3. DbShape'
  BY DEF SchemaInv, DbShape, SameSchema
<1>4. Making'
  BY <1>1, <1>2 DEF SchemaInv, Making, SameSchema, SettingUp
<1>5. OneMaker'
  BY <1>1, <1>2 DEF SchemaInv, OneMaker, SettingUp
<1>6. Upgrading' => Upgrading
  BY <1>1, <1>2 DEF Upgrading, SameSchema
<1>7. OldKept'
  BY <1>1, <1>2, <1>6 DEF SchemaInv, OldKept, SameSchema, MigrationStages, SettingUp
<1>8. QED
  BY <1>3, <1>4, <1>5, <1>7 DEF SchemaInv

\* A set-up on its way to the database.
LEMMA SchemaSetup ==
  ASSUME TypeInv, SchemaInv, NEW p \in Procs,
         NEW stage \in SettingUp \ InitStages, Goto(p, stage), UNCHANGED db,
         benchmark => benchmark', ~Upgrading
  PROVE  SchemaInv'
<1>1. \A q \in Procs : q # p => pc'[q] = pc[q]
  BY DEF TypeInv, CommandsOK, Goto
<1>2. pc'[p] = stage /\ stage \notin MigrationStages
  BY DEF TypeInv, CommandsOK, Goto, SettingUp, MigrationStages, InitStages
<1>3. DbShape'
  BY DEF SchemaInv, DbShape
<1>4. Making' /\ OneMaker'
  BY <1>1, <1>2 DEF SchemaInv, Making, OneMaker
<1>5. OldKept'
  BY <1>1, <1>2 DEF OldKept, Upgrading
<1>6. QED
  BY <1>3, <1>4, <1>5 DEF SchemaInv

\* While a campaign is set up, nothing is migrated.
LEMMA NothingOld ==
  ASSUME SchemaInv, NEW p \in Procs, pc[p] \in SettingUp
  PROVE  ~Upgrading
  BY DEF SchemaInv, OldKept

LEMMA SchemaUnlink ==
  ASSUME TypeInv, SchemaInv, NEW p \in Procs, pc[p] \in SettingUp, Unlink(p)
  PROVE  SchemaInv'
<1>1. \A q \in Procs : pc'[q] \notin InitStages \cup MigrationStages
  BY NothingOld DEF Unlink, InitStages, MigrationStages, Upgrading
<1>2. ~Upgrading'
  BY <1>1 DEF Upgrading, Unlink
<1>3. QED
  BY <1>1, <1>2 DEF SchemaInv, DbShape, Making, OneMaker, OldKept, Unlink

\* A statement of initialize leaves a file behind.
LEMMA FileKeptNext ==
  ASSUME TypeInv, NEW p \in Procs, pc[p] \in InitStages,
         \/ InsertCampaign(p) \/ InsertLab(p)
  PROVE  db' # None
<1>1. Step(p)
  BY DEF Step, Initialize
<1>2. FilesOK /\ CommandsOK /\ FileKept
  BY DEF TypeInv
<1>3. ~Unlink(p)
  BY <1>2 DEF Unlink, InsertCampaign, InsertLab, Goto, CommandsOK
<1>4. QED
  BY <1>1, <1>2, <1>3, StepShape DEF FileKept

\* The mode and the end of a campaign are no part of the schema.
LEMMA ModeSchema ==
  ASSUME NEW d \in Databases, NEW e,
         \/ e = [d EXCEPT !.lab = TRUE]
         \/ e = [d EXCEPT !.preset = "cold", !.lab = FALSE]
         \/ \E over \in BOOLEAN : e = [d EXCEPT !.over = @ \/ over]
  PROVE  /\ e \in Databases
         /\ e.version = d.version /\ e.columns = d.columns
         /\ e.campaign = d.campaign /\ e.table = d.table /\ e.row = d.row
<1>5. e \in Databases
  BY DatabaseTypes DEF Presets
<1>1. CASE e = [d EXCEPT !.lab = TRUE]
  BY <1>1 DEF Databases
<1>2. CASE e = [d EXCEPT !.preset = "cold", !.lab = FALSE]
  <2>1. PICK f \in Databases : f = [d EXCEPT !.preset = "cold"]
    BY DEF Databases, Presets
  <2>2. /\ f.version = d.version /\ f.columns = d.columns
        /\ f.campaign = d.campaign /\ f.table = d.table /\ f.row = d.row
    BY <2>1 DEF Databases
  <2>3. e = [f EXCEPT !.lab = FALSE]
    BY <1>2, <2>1
  <2>4. /\ e.version = f.version /\ e.columns = f.columns
        /\ e.campaign = f.campaign /\ e.table = f.table /\ e.row = f.row
    BY <2>3 DEF Databases
  <2>5. QED
    BY <1>5, <2>2, <2>4
<1>3. CASE \E over \in BOOLEAN : e = [d EXCEPT !.over = @ \/ over]
  BY <1>3 DEF Databases
<1>4. QED
  BY <1>1, <1>2, <1>3, <1>5

LEMMA SchemaInitialize ==
  ASSUME TypeInv, SchemaInv, NEW p \in Procs, Initialize(p)
  PROVE  SchemaInv'
<1> USE DEF SettingUp, MigrationStages, InitStages
<1>a. FilesOK /\ CommandsOK /\ FileKept
  BY DEF TypeInv
<1>b. DbShape /\ Making /\ OneMaker /\ OldKept
  BY DEF SchemaInv
<1>1. CASE CheckPath(p)
  <2>1. ~Upgrading
    BY <1>1, NothingOld DEF CheckPath
  <2>2. QED
    BY <1>1, <2>1, SchemaQuiet, SchemaSetup DEF CheckPath, files, SameSchema, Stages
<1>2. CASE OrphanEnds(p)
  BY <1>2, SchemaQuiet DEF OrphanEnds, files, SameSchema, Stages
<1>3. CASE CreateTables(p)
  <2>1. ~Upgrading
    BY <1>3, NothingOld DEF CreateTables
  <2>2. CASE Unlink(p)
    BY <1>3, <2>2, SchemaUnlink DEF CreateTables
  <2>3. CASE db = None /\ Goto(p, "tables")
    <3>1. /\ pc'[p] = "tables"
          /\ \A q \in Procs : q # p => pc'[q] = pc[q] /\ pc[q] \notin InitStages
      BY <1>a, <2>3 DEF CommandsOK, FileKept, Goto
    <3>2. /\ db' # None /\ db'.version = 0 /\ db'.columns /\ db'.table
      <4>1. db' = NewDatabase
        BY <1>3, <2>3 DEF CreateTables, NewDatabase
      <4>2. /\ NewDatabase \in Databases /\ NewDatabase.version = 0
            /\ NewDatabase.columns /\ NewDatabase.table
        BY DEF NewDatabase, Databases, Presets
      <4>3. QED
        BY <4>1, <4>2, NoneAssumption
    <3>3. DbShape'
      BY <3>2 DEF DbShape
    <3>4. Making' /\ OneMaker'
      BY <3>1, <3>2 DEF Making, OneMaker
    <3>5. ~Upgrading'
      BY <2>1, <3>1, <3>2 DEF Upgrading
    <3>6. QED
      BY <3>3, <3>4, <3>5 DEF SchemaInv, OldKept
  <2>4. QED
    BY <1>3, <2>2, <2>3 DEF CreateTables
<1>4. ASSUME \/ InsertCampaign(p) \/ InsertLab(p) \/ SetVersion(p)
      PROVE  SchemaInv'
  <2>1. /\ pc[p] \in InitStages /\ db \in Databases /\ db # None
        /\ db.version = 0 /\ db.columns /\ db.table /\ ~Upgrading
        /\ pc[p] \in {"campaign", "rows"} => db.campaign
        /\ pc[p] = "rows" => db.row
    BY <1>a, <1>b, <1>4, NothingOld
       DEF FilesOK, Making, InsertCampaign, InsertLab, SetVersion
  <2>2. \A q \in Procs : q # p => pc'[q] = pc[q] /\ pc[q] \notin InitStages
    BY <1>a, <1>b, <1>4, <2>1
       DEF CommandsOK, Goto, OneMaker, InsertCampaign, InsertLab, SetVersion
  <2>3. copy[p] \in Profiles
    BY <2>1 DEF TypeInv, CommandsOK, CopyKept
  <2>4. CASE InsertCampaign(p)
    <3>1. db' = [db EXCEPT !.campaign = TRUE, !.preset = PresetOf(copy[p].mode)]
          /\ pc'[p] = "campaign"
      BY <1>a, <2>4 DEF InsertCampaign, Goto, CommandsOK
    <3>2. db'.version = 0 /\ db'.columns /\ db'.table /\ db'.campaign
      BY <2>1, <3>1 DEF Databases
    <3>3. db' # None
      BY <2>1, <2>4, FileKeptNext DEF InsertCampaign
    <3>4. QED
      BY <2>1, <2>2, <3>1, <3>2, <3>3 DEF SchemaInv, DbShape, Making, OneMaker, OldKept, Upgrading
  <2>5. CASE InsertLab(p)
    <3>1. db' = [db EXCEPT !.row = TRUE, !.lab = copy[p].lab] /\ pc'[p] = "rows"
      BY <1>a, <2>5 DEF InsertLab, Goto, CommandsOK
    <3>2. db'.version = 0 /\ db'.columns /\ db'.table /\ db'.campaign /\ db'.row
      BY <2>1, <2>5, <3>1 DEF Databases, InsertLab
    <3>3. db' # None
      BY <2>1, <2>5, FileKeptNext DEF InsertLab
    <3>4. QED
      BY <2>1, <2>2, <3>1, <3>2, <3>3 DEF SchemaInv, DbShape, Making, OneMaker, OldKept, Upgrading
  <2>6. CASE SetVersion(p)
    <3>1. db' = [db EXCEPT !.version = 3] /\ pc'[p] = "opening"
      BY <1>a, <2>6 DEF SetVersion, Goto, CommandsOK
    <3>2. db'.version = 3 /\ db'.columns /\ db'.table /\ db'.campaign /\ db'.row
      BY <2>1, <2>6, <3>1 DEF Databases, SetVersion
    <3>3. QED
      BY <2>1, <2>2, <3>1, <3>2 DEF SchemaInv, DbShape, Making, OneMaker, OldKept, Upgrading
  <2>7. QED
    BY <1>4, <2>4, <2>5, <2>6
<1>5. QED
  BY <1>1, <1>2, <1>3, <1>4 DEF Initialize

LEMMA SchemaOpening ==
  ASSUME TypeInv, SchemaInv, NEW p \in Procs, Opening(p)
  PROVE  SchemaInv'
<1>a. FilesOK /\ CommandsOK /\ FileKept
  BY DEF TypeInv
<1>b. DbShape /\ Making /\ OneMaker /\ OldKept
  BY DEF SchemaInv
<1>c. "idle" \in Stages \ (SettingUp \cup MigrationStages)
      /\ "opened" \in Stages \ (SettingUp \cup MigrationStages)
  BY DEF Stages, SettingUp, MigrationStages, InitStages
<1>1. CASE Open(p)
  <2>1. CASE Goto(p, "idle") \/ Goto(p, "opened")
    BY <1>1, <1>c, <2>1, SchemaQuiet DEF Open, files, SameSchema
  <2>2. CASE /\ db # None
             /\ \/ db.version = 1 /\ Goto(p, "alter")
                \/ db.version = 2 /\ Goto(p, "create_lab")
    <3>1. /\ Upgrading /\ (db.version = 2 => db.columns)
      BY <1>b, <2>2 DEF DbShape, Upgrading
    <3>2. /\ pc'[p] \in MigrationStages
          /\ pc'[p] = "create_lab" => db.version = 2
          /\ \A q \in Procs : q # p => pc'[q] = pc[q]
      BY <1>a, <2>2 DEF CommandsOK, Goto, MigrationStages
    <3>3. OldKept'
      BY <1>1, <1>b, <3>1, <3>2 DEF OldKept, Open, files, MigrationStages, SettingUp, InitStages
    <3>4. DbShape' /\ Making' /\ OneMaker'
      BY <1>1, <1>b, <3>2
         DEF DbShape, Making, OneMaker, Open, files, MigrationStages, InitStages
    <3>5. QED
      BY <3>3, <3>4 DEF SchemaInv
  <2>3. QED
    BY <1>1, <2>1, <2>2 DEF Open
<1>2. ASSUME AddColumns(p) \/ AddLab(p) PROVE SchemaInv'
  <2>1. Upgrading /\ pc[p] \in MigrationStages
    BY <1>2 DEF AddColumns, AddLab, Upgrading, MigrationStages
  <2>2. /\ benchmark /\ db \in Databases /\ db # None /\ db.campaign
        /\ \A q \in Procs : pc[q] \notin SettingUp
        /\ pc[p] = "create_lab" => db.columns
    BY <1>a, <1>b, <2>1 DEF FilesOK, OldKept
  <2>3. CASE UNCHANGED db /\ Goto(p, "idle")
    BY <1>2, <1>c, <2>3, SchemaQuiet DEF AddColumns, AddLab, SameSchema
  <2>4. CASE /\ AddColumns(p) /\ ~db.columns /\ Goto(p, "create_lab")
             /\ db' = [db EXCEPT !.columns = TRUE, !.version = 2]
    <3>1. ~db.table
      BY <1>b, <2>2, <2>4 DEF DbShape
    <3>2. db' \in Databases
      BY <2>2, <2>4, DatabaseTypes DEF Presets
    <3>3. /\ db' # None /\ db'.version = 2 /\ db'.columns /\ ~db'.table /\ db'.campaign
      BY <2>2, <2>4, <3>1, <3>2, NoneAssumption DEF Databases
    <3>4. \A q \in Procs : pc'[q] \notin SettingUp
      BY <1>a, <2>2, <2>4 DEF CommandsOK, Goto, SettingUp, InitStages
    <3>5. QED
      BY <2>2, <2>4, <3>3, <3>4
         DEF SchemaInv, DbShape, Making, OneMaker, OldKept, SettingUp, AddColumns
  <2>5. CASE /\ AddLab(p) /\ pc[p] = "create_lab" /\ Goto(p, "opened")
             /\ db' = [db EXCEPT !.table = TRUE, !.row = TRUE, !.version = 3]
    <3>1. db' \in Databases
      BY <2>2, <2>5, DatabaseTypes DEF Presets
    <3>2. db'.version = 3 /\ db'.columns /\ db'.table /\ db'.row
      BY <2>2, <2>5 DEF Databases
    <3>3. db'.campaign /\ db' # None
      BY <2>2, <2>5, <3>1, NoneAssumption DEF Databases
    <3>4. \A q \in Procs : pc'[q] \notin SettingUp
      BY <1>a, <2>2, <2>5 DEF CommandsOK, Goto, SettingUp, InitStages
    <3>5. QED
      BY <2>2, <2>5, <3>2, <3>3, <3>4
         DEF SchemaInv, DbShape, Making, OneMaker, OldKept, SettingUp, AddLab
  <2>6. QED
    BY <1>2, <2>3, <2>4, <2>5 DEF AddColumns, AddLab
<1>3. QED
  BY <1>1, <1>2 DEF Opening

LEMMA SchemaStep == TypeInv /\ SchemaInv /\ [Next]_vars => SchemaInv'
<1> SUFFICES ASSUME TypeInv, SchemaInv, [Next]_vars PROVE SchemaInv'
  OBVIOUS
<1>a. FilesOK /\ CommandsOK
  BY DEF TypeInv
<1>b. {"idle", "opening", "opened", "saving", "running", "scanning"}
        \subseteq Stages \ (SettingUp \cup MigrationStages)
  BY DEF Stages, SettingUp, MigrationStages, InitStages
<1>1. ASSUME NEW p \in Procs, Setup(p) PROVE SchemaInv'
  <2>1. ~Upgrading
    BY <1>1 DEF Setup, SchemaInv, OldKept
  <2>2. "benchmarking" \in SettingUp \ InitStages
    BY DEF SettingUp, InitStages
  <2>3. QED
    BY <1>1, <2>1, <2>2, SchemaSetup DEF Setup, Start, files
<1>2. ASSUME NEW p \in Procs, Command(p) \/ Run(p) PROVE SchemaInv'
  BY <1>2, <1>b, SchemaQuiet DEF Command, Run, Start, files, SameSchema
<1>3. ASSUME NEW p \in Procs, Step(p) PROVE SchemaInv'
  <2>1. CASE BenchmarkFails(p)
    BY <2>1, <1>b, SchemaQuiet DEF BenchmarkFails, files, SameSchema
  <2>2. CASE SaveReport(p)
    <3>1. ~Upgrading /\ "initializing" \in SettingUp \ InitStages
      BY <2>2, NothingOld DEF SaveReport, SettingUp, InitStages
    <3>2. QED
      BY <2>2, <3>1, SchemaSetup DEF SaveReport
  <2>3. CASE SetupOpened(p) \/ Vanished(p) \/ Reseed(p) \/ SaveProfile(p) \/ LeaseChunk(p)
    BY <2>3, <1>b, SchemaQuiet
       DEF SetupOpened, Vanished, Reseed, SaveProfile, LeaseChunk, files, SameSchema
  <2>4. CASE Launch(p) \/ EnableHypothesis(p)
    <3>1. SameSchema
      BY <1>a, <1>3, <2>4, ModeSchema, NoneAssumption DEF Launch, EnableHypothesis, SameSchema, FilesOK
    <3>2. QED
      BY <2>4, <3>1, <1>b, SchemaQuiet DEF Launch, EnableHypothesis
  <2>5. CASE EnableCold(p)
    <3>1. SameSchema
      BY <1>a, <1>3, <2>5, ModeSchema, NoneAssumption DEF EnableCold, SameSchema, FilesOK
    <3>2. QED
      BY <2>5, <3>1, <1>b, SchemaQuiet DEF EnableCold
  <2>6. CASE EndChunk(p)
    <3>1. SameSchema
      BY <1>a, <1>3, <2>6, ModeSchema, NoneAssumption DEF EndChunk, SameSchema, FilesOK
    <3>2. QED
      BY <2>6, <3>1, <1>b, SchemaQuiet DEF EndChunk
  <2>7. QED
    BY <1>3, <2>1, <2>2, <2>3, <2>4, <2>5, <2>6, SchemaInitialize, SchemaOpening
       DEF Step, Work
<1>4. ASSUME NEW p \in Procs, InitFails(p) PROVE SchemaInv'
  BY <1>4, SchemaUnlink DEF InitFails, SettingUp
<1>5. ASSUME NEW p \in Procs, Crash(p) PROVE SchemaInv'
  BY <1>5, <1>b, SchemaQuiet DEF Crash, SameSchema
<1>6. CASE Reclaim \/ UNCHANGED vars
  BY <1>6 DEF Reclaim, vars, files, SchemaInv, DbShape, Making, OneMaker, OldKept, Upgrading
<1>7. QED
  BY <1>1, <1>2, <1>3, <1>4, <1>5, <1>6 DEF Next

LEMMA InitSchema == Init => SchemaInv
<1> SUFFICES ASSUME Init PROVE SchemaInv
  OBVIOUS
<1>1. \A p \in Procs : pc[p] \notin SettingUp \cup MigrationStages
  BY DEF Init, SettingUp, MigrationStages, InitStages
<1>2. Making /\ OneMaker
  BY <1>1 DEF Making, OneMaker, SettingUp
<1>3. DbShape /\ OldKept
  <2>1. CASE db = None
    BY <1>1, <2>1 DEF DbShape, OldKept, Upgrading
  <2>2. CASE benchmark = TRUE /\ \E version \in {1, 2} : db = OldDatabase(version)
    <3>1. PICK version \in {1, 2} : db = OldDatabase(version)
      BY <2>2
    <3>2. /\ db.version \in {1, 2} /\ db.campaign /\ ~db.table
          /\ db.columns <=> db.version = 2
      BY <3>1 DEF OldDatabase
    <3>3. db # None
      BY <3>1, OldTypes, NoneAssumption
    <3>4. DbShape
      BY <3>2 DEF DbShape
    <3>5. OldKept
      BY <1>1, <2>2, <3>2, <3>3 DEF OldKept, MigrationStages
    <3>6. QED
      BY <3>4, <3>5
  <2>3. QED
    BY <2>1, <2>2 DEF Init
<1>4. QED
  BY <1>2, <1>3 DEF SchemaInv

\* A database that opens has all of its tables and rows, whatever creation or
\* migration was cut off and however many processes migrated it at once.
THEOREM VersionTrueCorrect == Spec => []VersionTrue
<1>1. Spec => [](TypeInv /\ SchemaInv)
  BY InitTypes, InitSchema, TypeStep, SchemaStep, PTL DEF Spec
<1>2. SchemaInv => VersionTrue
  BY DEF SchemaInv, DbShape, VersionTrue
<1>3. QED
  BY <1>1, <1>2, PTL

-----------------------------------------------------------------------------
(***************************************************************************)
(* A profile is there only with a campaign                                 *)
(***************************************************************************)

Founded == db # None /\ db.version > 0

\* As long as no two commands met, at most one is under way.
Alone == ~overlapped => \A p, q \in Procs : UnderWay(p) /\ UnderWay(q) => p = q

\* A set-up by itself has no profile before it, and nobody takes its file away.
NoneYet ==
  ~overlapped => \A p \in Procs : pc[p] \in SettingUp => profile = None /\ pc[p] # "orphan"

\* A profile is written after the database was opened.
OpenedFounded ==
  ~overlapped => \A p \in Procs : pc[p] \in {"opened", "saving"} => Founded

ProfileInv == Alone /\ NoneYet /\ OpenedFounded /\ ProfileHasCampaign

LEMMA StageSets ==
  ASSUME NEW p \in Procs, pc[p] \in SettingUp \cup {"opened", "saving", "opening"}
  PROVE  UnderWay(p)
  BY DEF UnderWay, SettingUp, InitStages

\* A step of one command that does not touch the profile.
LEMMA ProfileQuiet ==
  ASSUME TypeInv, ProfileInv, NEW p \in Procs, NEW stage \in Stages, Goto(p, stage),
         UNCHANGED <<overlapped, profile>>,
         UnderWay(p) \/ stage \in {"idle", "running", "scanning"},
         stage \in SettingUp => pc[p] \in SettingUp /\ stage # "orphan",
         stage \in {"opened", "saving"} => Founded',
         pc[p] \in SettingUp \/ (Founded => Founded')
  PROVE  ProfileInv'
<1> SUFFICES ASSUME ~overlapped PROVE ProfileInv'
  BY DEF ProfileInv, Alone, NoneYet, OpenedFounded, ProfileHasCampaign
<1>1. /\ pc'[p] = stage
      /\ \A q \in Procs : q # p => pc'[q] = pc[q]
  BY DEF TypeInv, CommandsOK, Goto
<1>2. Alone'
  BY <1>1 DEF ProfileInv, Alone, UnderWay
<1>3. NoneYet'
  BY <1>1 DEF ProfileInv, NoneYet
<1>4. pc[p] \in SettingUp => \A q \in Procs : q # p => pc[q] \notin {"opened", "saving"}
  BY StageSets DEF ProfileInv, Alone
<1>5. OpenedFounded'
  BY <1>1, <1>4 DEF ProfileInv, OpenedFounded
<1>6. ProfileHasCampaign'
  BY DEF ProfileInv, ProfileHasCampaign, NoneYet, Founded
<1>7. QED
  BY <1>2, <1>3, <1>5, <1>6 DEF ProfileInv

LEMMA ProfileUnlink ==
  ASSUME TypeInv, ProfileInv, NEW p \in Procs, pc[p] \in SettingUp, Unlink(p),
         UNCHANGED <<overlapped, profile>>
  PROVE  ProfileInv'
<1> SUFFICES ASSUME ~overlapped PROVE ProfileInv'
  BY DEF ProfileInv, Alone, NoneYet, OpenedFounded, ProfileHasCampaign
<1>1. UnderWay(p) /\ profile = None
  BY StageSets DEF ProfileInv, NoneYet
<1>2. \A q \in Procs : q # p => ~UnderWay(q)
  BY <1>1 DEF ProfileInv, Alone
<1>3. \A q \in Procs : ~UnderWay(q)'
  BY <1>2 DEF Unlink, UnderWay, InitStages
<1>4. \A q \in Procs : pc'[q] \notin SettingUp \cup {"opened", "saving"}
  BY <1>3 DEF UnderWay, SettingUp, InitStages
<1>5. QED
  BY <1>1, <1>3, <1>4 DEF ProfileInv, Alone, NoneYet, OpenedFounded, ProfileHasCampaign

LEMMA ProfileStart ==
  ASSUME TypeInv, ProfileInv, NEW p \in Procs, NEW command, NEW loaded,
         NEW stage \in Stages, Start(p, command, stage, loaded),
         \/ stage = "benchmarking" /\ profile = None
         \/ stage \in {"opening", "saving"} /\ profile # None
  PROVE  ProfileInv'
<1> SUFFICES ASSUME ~overlapped' PROVE ProfileInv'
  BY DEF ProfileInv, Alone, NoneYet, OpenedFounded, ProfileHasCampaign
<1>1. /\ ~overlapped /\ \A q \in Procs : q # p => ~UnderWay(q)
      /\ UNCHANGED <<db, profile>>
  BY DEF Start, files
<1>2. /\ pc'[p] = stage
      /\ \A q \in Procs : q # p => pc'[q] = pc[q]
  BY DEF TypeInv, CommandsOK, Start, Goto
<1>3. \A q \in Procs : q # p => ~UnderWay(q)'
  BY <1>1, <1>2 DEF UnderWay
<1>4. Alone'
  BY <1>3 DEF Alone
<1>5. \A q \in Procs : q # p => pc'[q] \notin SettingUp \cup {"opened", "saving"}
  BY <1>3 DEF UnderWay, SettingUp, InitStages
<1>6. NoneYet'
  BY <1>1, <1>2, <1>5 DEF NoneYet, SettingUp, InitStages
<1>7. OpenedFounded' /\ ProfileHasCampaign'
  BY <1>1, <1>2, <1>5 DEF OpenedFounded, ProfileInv, ProfileHasCampaign, Founded
<1>8. QED
  BY <1>4, <1>6, <1>7 DEF ProfileInv

\* Nothing is claimed once two commands met.
LEMMA OverlappedFree == overlapped' => ProfileInv'
  BY DEF ProfileInv, Alone, NoneYet, OpenedFounded, ProfileHasCampaign

LEMMA ProfileStep == TypeInv /\ ProfileInv /\ [Next]_vars => ProfileInv'
<1> SUFFICES ASSUME TypeInv, ProfileInv, [Next]_vars PROVE ProfileInv'
  OBVIOUS
<1>a. FilesOK /\ CommandsOK
  BY DEF TypeInv
<1>b. {"idle", "opening", "opened", "saving", "running", "scanning", "alter", "create_lab"}
        \subseteq Stages \ SettingUp
  BY DEF Stages, SettingUp, InitStages
<1>c. SettingUp \subseteq Stages
  BY DEF Stages, SettingUp
<1>d. UNCHANGED files => UNCHANGED <<db, profile>> /\ (Founded => Founded')
  BY DEF files, Founded
<1>e. UNCHANGED others => UNCHANGED overlapped
  BY DEF others
<1>1. ASSUME NEW p \in Procs, Setup(p) PROVE ProfileInv'
  BY <1>1, <1>c, ProfileStart DEF Setup, SettingUp
<1>2. ASSUME NEW p \in Procs, Command(p) \/ Run(p) PROVE ProfileInv'
  BY <1>2, <1>b, ProfileStart DEF Command, Run
<1>3. ASSUME NEW p \in Procs, Initialize(p) PROVE ProfileInv'
  <2>1. CASE Unlink(p)
    BY <1>3, <2>1, <1>e, ProfileUnlink
       DEF Initialize, CheckPath, CreateTables, InsertCampaign, InsertLab, SetVersion,
           OrphanEnds, SettingUp, InitStages, files
  <2>2. CASE ~Unlink(p)
    <3>1. pc[p] \in SettingUp /\ UNCHANGED <<overlapped, profile>>
      BY <1>3, <1>e
         DEF Initialize, CheckPath, CreateTables, InsertCampaign, InsertLab, SetVersion,
             OrphanEnds, SettingUp, InitStages, files
    <3>2. PICK stage \in {"creating", "idle", "tables", "campaign", "rows", "opening"} :
            Goto(p, stage)
      BY <1>3, <2>2
         DEF Initialize, CheckPath, CreateTables, InsertCampaign, InsertLab, SetVersion,
             OrphanEnds
    <3>3. stage \in Stages /\ stage # "orphan"
      BY <3>2 DEF Stages, InitStages
    <3>4. UnderWay(p)
      BY <3>1, StageSets
    <3>5. QED
      BY <3>1, <3>2, <3>3, <3>4, ProfileQuiet
  <2>3. QED
    BY <2>1, <2>2
<1>4. ASSUME NEW p \in Procs, Opening(p) PROVE ProfileInv'
  <2>1. pc[p] \in {"opening", "alter", "create_lab"} /\ UNCHANGED <<overlapped, profile>>
    BY <1>4, <1>e DEF Opening, Open, AddColumns, AddLab, files
  <2>2. UnderWay(p)
    BY <2>1 DEF UnderWay
  <2>3. CASE Open(p) \/ (UNCHANGED db /\ Goto(p, "idle"))
    <3>1. UNCHANGED db /\ \E stage \in {"idle", "alter", "create_lab", "opened"} :
            Goto(p, stage) /\ (stage = "opened" => db # None /\ db.version = 3)
      BY <2>3 DEF Open, files
    <3>2. QED
      BY <1>b, <2>1, <2>2, <2>3, <3>1, ProfileQuiet DEF Founded
  <2>4. CASE /\ db # None /\ Goto(p, "create_lab")
             /\ db' = [db EXCEPT !.columns = TRUE, !.version = 2]
    <3>1. db' \in Databases
      BY <1>a, <2>4, DatabaseTypes DEF FilesOK, Presets
    <3>2. db'.version = 2
      BY <1>a, <2>4 DEF FilesOK, Databases
    <3>3. Founded'
      BY <3>1, <3>2, NoneAssumption DEF Founded
    <3>4. QED
      BY <1>b, <2>1, <2>2, <2>4, <3>3, ProfileQuiet
  <2>5. CASE /\ db # None /\ Goto(p, "opened")
             /\ db' = [db EXCEPT !.table = TRUE, !.row = TRUE, !.version = 3]
    <3>1. db' \in Databases
      BY <1>a, <2>5, DatabaseTypes DEF FilesOK, Presets
    <3>2. db'.version = 3
      BY <1>a, <2>5 DEF FilesOK, Databases
    <3>3. Founded'
      BY <3>1, <3>2, NoneAssumption DEF Founded
    <3>4. QED
      BY <1>b, <2>1, <2>2, <2>5, <3>3, ProfileQuiet
  <2>6. QED
    BY <1>4, <2>3, <2>4, <2>5 DEF Opening, AddColumns, AddLab
<1>5. ASSUME NEW p \in Procs, SetupOpened(p) \/ Reseed(p) PROVE ProfileInv'
  <2>1. pc[p] = "opened" /\ UnderWay(p)
    BY <1>5 DEF SetupOpened, Reseed, Opened, UnderWay
  <2>2. ~overlapped => Founded
    BY <2>1 DEF ProfileInv, OpenedFounded
  <2>3. ~overlapped => ProfileInv'
    BY <1>5, <1>b, <1>d, <1>e, <2>1, <2>2, ProfileQuiet DEF SetupOpened, Reseed, Founded
  <2>4. QED
    BY <1>5, <1>e, <2>3, OverlappedFree DEF SetupOpened, Reseed
<1>6. ASSUME NEW p \in Procs, BenchmarkFails(p) \/ SaveReport(p) PROVE ProfileInv'
  <2>1. /\ pc[p] = "benchmarking" /\ pc[p] \in SettingUp
        /\ UNCHANGED <<overlapped, profile>>
    BY <1>6, <1>e DEF BenchmarkFails, SaveReport, SettingUp, files
  <2>2. Goto(p, "idle") \/ Goto(p, "initializing")
    BY <1>6 DEF BenchmarkFails, SaveReport
  <2>3. UnderWay(p) /\ "initializing" \in Stages
    BY <2>1, StageSets DEF Stages
  <2>4. QED
    BY <1>b, <2>1, <2>2, <2>3, ProfileQuiet
<1>7. ASSUME NEW p \in Procs,
             \/ Launch(p) \/ EnableHypothesis(p) \/ EnableCold(p) \/ EndChunk(p)
      PROVE  ProfileInv'
  <2>1. db # None /\ db \in Databases /\ UNCHANGED <<overlapped, profile>>
    BY <1>7, <1>a, <1>e DEF Launch, EnableHypothesis, EnableCold, EndChunk, FilesOK
  <2>2. db' # None /\ db'.version = db.version
    BY <1>7, <2>1, ModeSchema, NoneAssumption
       DEF Launch, EnableHypothesis, EnableCold, EndChunk
  <2>3. Founded => Founded'
    BY <2>2 DEF Founded
  <2>4. /\ UnderWay(p) \/ ~EnableCold(p)
        /\ \E stage \in {"idle", "running", "saving"} :
             /\ Goto(p, stage)
             /\ stage = "saving" => pc[p] = "opened"
    BY <1>7 DEF Launch, EnableHypothesis, EnableCold, EndChunk, Opened, UnderWay
  <2>5. ASSUME ~overlapped PROVE ProfileInv'
    <3>1. pc[p] = "opened" => Founded' /\ UnderWay(p)
      BY <2>3, <2>5 DEF ProfileInv, OpenedFounded, UnderWay
    <3>2. QED
      BY <1>b, <2>1, <2>3, <2>4, <3>1, ProfileQuiet
  <2>6. QED
    BY <2>1, <2>5, OverlappedFree
<1>8. ASSUME NEW p \in Procs, Vanished(p) \/ LeaseChunk(p) \/ Crash(p) PROVE ProfileInv'
  BY <1>8, <1>b, <1>d, <1>e, ProfileQuiet DEF Vanished, LeaseChunk, Crash, Founded, others
<1>9. ASSUME NEW p \in Procs, SaveProfile(p) PROVE ProfileInv'
  <2>1. pc[p] = "saving" /\ UnderWay(p) /\ UNCHANGED <<db, overlapped>>
    BY <1>9, <1>e DEF SaveProfile, UnderWay
  <2>2. ASSUME ~overlapped PROVE ProfileInv'
    <3>1. \A q \in Procs : q # p => ~UnderWay(q)
      BY <2>1, <2>2 DEF ProfileInv, Alone
    <3>2. /\ pc'[p] \in {"idle", "opening"}
          /\ \A q \in Procs : q # p => pc'[q] = pc[q]
      BY <1>9, <1>a DEF SaveProfile, Goto, CommandsOK
    <3>3. \A q \in Procs : pc'[q] \notin SettingUp \cup {"opened", "saving"}
      BY <3>1, <3>2 DEF UnderWay, SettingUp, InitStages
    <3>4. Founded'
      BY <2>1, <2>2 DEF ProfileInv, OpenedFounded, Founded
    <3>5. Alone'
      BY <3>1, <3>2 DEF Alone, UnderWay
    <3>6. QED
      BY <3>3, <3>4, <3>5
         DEF ProfileInv, NoneYet, OpenedFounded, ProfileHasCampaign, Founded
  <2>3. QED
    BY <2>1, <2>2, OverlappedFree
<1>10. ASSUME NEW p \in Procs, InitFails(p) PROVE ProfileInv'
  BY <1>10, <1>e, ProfileUnlink DEF InitFails, SettingUp
<1>11. CASE Reclaim \/ UNCHANGED vars
  BY <1>11 DEF Reclaim, vars, files, others, ProfileInv, Alone, NoneYet, OpenedFounded,
               ProfileHasCampaign, Founded, UnderWay
<1>12. QED
  BY <1>1, <1>2, <1>3, <1>4, <1>5, <1>6, <1>7, <1>8, <1>9, <1>10, <1>11 DEF Next, Step, Work

LEMMA InitProfile == Init => ProfileInv
<1> SUFFICES ASSUME Init PROVE ProfileInv
  OBVIOUS
<1>1. \A p \in Procs : pc[p] = "idle"
  BY DEF Init
<1>2. Alone /\ NoneYet /\ OpenedFounded
  BY <1>1 DEF Alone, NoneYet, OpenedFounded, UnderWay, SettingUp, InitStages
<1>3. ASSUME NEW version \in {1, 2}, db = OldDatabase(version)
      PROVE  db # None /\ db.version > 0
  <2>1. db # None
    BY <1>3, OldTypes, NoneAssumption
  <2>2. db.version = version
    BY <1>3 DEF OldDatabase
  <2>3. QED
    BY <2>1, <2>2
<1>4. ProfileHasCampaign
  BY <1>3 DEF Init, ProfileHasCampaign
<1>5. QED
  BY <1>2, <1>4 DEF ProfileInv

\* A profile is there only when its database can be opened, unless two commands
\* were ever under way at once.
THEOREM ProfileHasCampaignCorrect == Spec => []ProfileHasCampaign
<1>1. Spec => [](TypeInv /\ ProfileInv)
  BY InitTypes, InitProfile, TypeStep, ProfileStep, PTL DEF Spec
<1>2. ProfileInv => ProfileHasCampaign
  BY DEF ProfileInv
<1>3. QED
  BY <1>1, <1>2, PTL

-----------------------------------------------------------------------------
(***************************************************************************)
(* Profile and database disagree on the mode only while it is half changed *)
(***************************************************************************)

\* A command by itself migrates from the version it read.
MigratingFrom(p) ==
  /\ pc[p] = "alter" => db # None /\ db.version = 1
  /\ pc[p] = "create_lab" => db # None /\ db.version = 2
Migrating == ~overlapped => \A p \in Procs : MigratingFrom(p)

\* After initialize.
Late == {"opening", "alter", "create_lab", "opened", "saving"}

\* A set-up brings the campaign into the mode it is going to write.
SetupClaim(p) ==
  cmd[p] = "setup" /\ UnderWay(p) =>
    /\ copy[p].lab <=> copy[p].mode = "hypothesis"
    /\ pc[p] \in {"tables", "campaign"} => ~db.lab
    /\ pc[p] \in {"campaign", "rows"} \cup Late /\ db # None =>
         db.preset = PresetOf(copy[p].mode)
    /\ pc[p] \in {"rows"} \cup Late /\ db # None => (db.lab <=> copy[p].lab)

\* What any other command read is still in the file, or what it wrote is.
ReadClaim(p) ==
  UnderWay(p) =>
    /\ cmd[p] \in {"run", "cold", "reseed", "edit"} => copy[p] = profile
    /\ cmd[p] = "hypothesis" /\ pc[p] = "saving" => copy[p] = profile
    /\ cmd[p] = "hypothesis" /\ pc[p] # "saving" => profile # None /\ profile.lab
    /\ cmd[p] = "cold" /\ pc[p] = "saving" => ~db.lab /\ db.preset = "cold"
    /\ pc[p] \in SettingUp => cmd[p] = "setup"

ClaimInv == ~overlapped => \A p \in Procs : SetupClaim(p) /\ ReadClaim(p)

HonestInv ==
  TypeInv /\ SchemaInv /\ ProfileInv /\ Migrating /\ ClaimInv /\ NoFalseClaim

LEMMA MigratingStep ==
  TypeInv /\ ProfileInv /\ Migrating /\ [Next]_vars => Migrating'
<1> SUFFICES ASSUME TypeInv, ProfileInv, Migrating, [Next]_vars, ~overlapped',
                    NEW q \in Procs
             PROVE  MigratingFrom(q)'
  BY DEF Migrating
<1>a. FilesOK /\ CommandsOK
  BY DEF TypeInv
<1>b. ASSUME ~overlapped, UNCHANGED db,
             pc'[q] = pc[q] \/ pc'[q] \notin MigrationStages
      PROVE  MigratingFrom(q)'
  BY <1>b DEF Migrating, MigratingFrom, MigrationStages
<1>1. ASSUME NEW p \in Procs, Setup(p) \/ Command(p) \/ Run(p) PROVE MigratingFrom(q)'
  <2>1. PICK stage \in {"benchmarking", "opening", "saving"} :
          Goto(p, stage) /\ UNCHANGED db /\ ~overlapped
    BY <1>1 DEF Setup, Command, Run, Start, files
  <2>2. QED
    BY <1>a, <1>b, <2>1 DEF Goto, CommandsOK, MigrationStages
<1>2. ASSUME NEW p \in Procs, Step(p), UnderWay(p), ~overlapped PROVE MigratingFrom(q)'
  <2>1. q # p => pc[q] \notin MigrationStages
    BY <1>2 DEF ProfileInv, Alone, UnderWay, MigrationStages
  <2>2. ASSUME pc'[q] \notin MigrationStages PROVE MigratingFrom(q)'
    BY <2>2 DEF MigratingFrom, MigrationStages
  <2>3. CASE Unlink(p)
    BY <2>1, <2>2, <2>3 DEF Unlink, MigrationStages
  <2>4. ASSUME NEW stage \in Stages \ MigrationStages, Goto(p, stage)
        PROVE  MigratingFrom(q)'
    BY <1>a, <2>1, <2>2, <2>4 DEF Goto, CommandsOK
  <2>5. CASE Open(p)
    <3>1. q # p => pc'[q] = pc[q]
      BY <1>a, <2>5 DEF Open, Goto, CommandsOK
    <3>2. CASE q # p
      BY <2>1, <2>2, <3>1, <3>2
    <3>3. CASE q = p
      BY <1>a, <2>5, <3>3 DEF Open, Goto, CommandsOK, MigratingFrom, files
    <3>4. QED
      BY <3>2, <3>3
  <2>6. CASE AddColumns(p) /\ Goto(p, "create_lab")
    <3>1. /\ q # p => pc'[q] = pc[q]
          /\ pc'[p] = "create_lab"
      BY <1>a, <2>6 DEF Goto, CommandsOK
    <3>2. CASE q # p
      BY <2>1, <2>2, <3>1, <3>2
    <3>3. CASE q = p
      <4>1. db # None /\ db' = [db EXCEPT !.columns = TRUE, !.version = 2]
        BY <3>1, <2>6, <1>a DEF AddColumns, Goto, CommandsOK
      <4>2. db' \in Databases /\ db'.version = 2
        <5>1. db \in Databases
          BY <1>a, <4>1 DEF FilesOK
        <5>2. db' \in Databases
          BY <4>1, <5>1, DatabaseTypes DEF Presets
        <5>3. QED
          BY <4>1, <5>1, <5>2 DEF Databases
      <4>3. QED
        BY <3>1, <3>3, <4>2, NoneAssumption DEF MigratingFrom
    <3>4. QED
      BY <3>2, <3>3
  <2>7. QED
    BY <1>2, <2>3, <2>4, <2>5, <2>6
    DEF Step, BenchmarkFails, SaveReport, Initialize, CheckPath, CreateTables,
        InsertCampaign, InsertLab, SetVersion, OrphanEnds, Opening, AddColumns, AddLab,
        Work, SetupOpened, Launch, EnableHypothesis, EnableCold, Reseed, SaveProfile,
        Vanished, LeaseChunk, EndChunk, Stages, InitStages, MigrationStages
<1>3. ASSUME NEW p \in Procs, Step(p), ~UnderWay(p), ~overlapped PROVE MigratingFrom(q)'
  <2>1. pc[p] \in {"running", "scanning"} /\ ~(pc[p] \in {"opened", "saving"})
    BY <1>3, StepShape DEF UnderWay
  <2>2. Vanished(p) \/ LeaseChunk(p) \/ EndChunk(p)
    BY <1>3, <2>1
    DEF Step, BenchmarkFails, SaveReport, Initialize, CheckPath, CreateTables,
        InsertCampaign, InsertLab, SetVersion, OrphanEnds, Opening, Open, AddColumns,
        AddLab, Work, SetupOpened, Launch, EnableHypothesis, EnableCold, Reseed,
        SaveProfile, Opened, InitStages
  <2>3. pc'[q] = pc[q] \/ pc'[q] \notin MigrationStages
    BY <1>a, <2>2 DEF Vanished, LeaseChunk, EndChunk, Goto, CommandsOK, MigrationStages
  <2>4. CASE UNCHANGED db
    BY <1>3, <1>b, <2>3, <2>4
  <2>5. CASE EndChunk(p)
    <3>1. db \in Databases /\ \E over \in BOOLEAN : db' = [db EXCEPT !.over = @ \/ over]
      BY <1>a, <2>5 DEF EndChunk, FilesOK
    <3>2. db' # None /\ db'.version = db.version
      BY <3>1, ModeSchema, NoneAssumption
    <3>3. QED
      BY <1>3, <2>3, <3>2 DEF Migrating, MigratingFrom, MigrationStages
  <2>6. QED
    BY <2>2, <2>4, <2>5 DEF Vanished, LeaseChunk, files
<1>4. ASSUME NEW p \in Procs, InitFails(p), ~overlapped PROVE MigratingFrom(q)'
  <2>1. UnderWay(p) /\ Unlink(p) /\ pc[p] \notin MigrationStages
    BY <1>4 DEF InitFails, InitStages, UnderWay, MigrationStages
  <2>2. q # p => pc[q] \notin MigrationStages
    BY <1>4, <2>1 DEF ProfileInv, Alone, UnderWay, MigrationStages
  <2>3. pc'[q] \notin MigrationStages
    BY <2>1, <2>2 DEF Unlink, MigrationStages
  <2>4. QED
    BY <2>3 DEF MigratingFrom, MigrationStages
<1>5. ASSUME NEW p \in Procs, Crash(p) PROVE MigratingFrom(q)'
  BY <1>a, <1>b, <1>5 DEF Crash, Goto, CommandsOK, MigrationStages
<1>6. CASE Reclaim \/ UNCHANGED vars
  BY <1>b, <1>6 DEF Reclaim, vars, files, others
<1>7. \A p \in Procs : Step(p) \/ InitFails(p) => ~overlapped
  BY StepShape DEF InitFails, others
<1>8. QED
  BY <1>1, <1>2, <1>3, <1>4, <1>5, <1>6, <1>7 DEF Next

\* So a command by itself never fails half-way because of the schema.
LEMMA OpeningGoesOn ==
  ASSUME TypeInv, SchemaInv, ProfileInv, Migrating, ~overlapped, profile # None,
         NEW p \in Procs, Opening(p)
  PROVE  pc'[p] \in {"alter", "create_lab", "opened"}
<1>1. /\ CommandsOK /\ db \in Databases /\ db # None /\ db.version > 0
      /\ db.version \in 0 .. 3
  BY DEF TypeInv, FilesOK, ProfileInv, ProfileHasCampaign, Databases
<1>2. CASE Open(p)
  BY <1>1, <1>2 DEF Open, Goto, CommandsOK, SchemaInv, DbShape
<1>3. CASE AddColumns(p)
  BY <1>1, <1>3 DEF AddColumns, Goto, CommandsOK, SchemaInv, DbShape, Migrating,
                    MigratingFrom
<1>4. CASE AddLab(p)
  BY <1>1, <1>4 DEF AddLab, Goto, CommandsOK, SchemaInv, DbShape, Migrating,
                    MigratingFrom
<1>5. QED
  BY <1>2, <1>3, <1>4 DEF Opening

\* A command stays half done until it is done with its second file.
LEMMA HalfKept ==
  ASSUME CommandsOK, NEW p \in Procs, NEW stage, Goto(p, stage), UNCHANGED cmd,
         cut \subseteq cut', Halfway(p) => Halfway(p)' \/ cmd[p] \in cut'
  PROVE  \A command : HalfDone(command) => HalfDone(command)'
<1>1. \A q \in Procs : q # p => (Halfway(q) => Halfway(q)')
  BY DEF CommandsOK, Goto, Halfway
<1>2. QED
  BY <1>1 DEF HalfDone

SameMode ==
  \/ UNCHANGED db
  \/ db # None /\ db' # None /\ db'.lab = db.lab /\ db'.preset = db.preset

\* A statement that leaves the mode alone, and does not lead to a save.
LEMMA ClaimQuiet ==
  ASSUME HonestInv, ~overlapped, NEW p \in Procs, NEW stage \in Stages, Goto(p, stage),
         UNCHANGED <<overlapped, profile, cmd, copy>>, SameMode, cut \subseteq cut',
         Halfway(p) => Halfway(p)' \/ cmd[p] \in cut',
         UnderWay(p) \/ stage \in {"idle", "running", "scanning"},
         stage \notin InitStages \cup {"saving"}, pc[p] = "saving" => stage = "idle",
         stage \in Late => pc[p] \in {"rows"} \cup Late,
         stage \in SettingUp => pc[p] \in SettingUp
  PROVE  ClaimInv' /\ NoFalseClaim'
<1>1. /\ pc'[p] = stage
      /\ \A q \in Procs : q # p => pc'[q] = pc[q]
  BY DEF HonestInv, TypeInv, CommandsOK, Goto
<1>2. ASSUME NEW q \in Procs PROVE SetupClaim(q)' /\ ReadClaim(q)'
  <2>1. SetupClaim(q) /\ ReadClaim(q)
    BY DEF HonestInv, ClaimInv
  <2>2. CASE q = p
    <3>1. CASE UnderWay(p)
      BY <1>1, <2>1, <2>2, <3>1
         DEF SetupClaim, ReadClaim, UnderWay, SameMode, InitStages, Late
    <3>2. CASE stage \in {"idle", "running", "scanning"}
      BY <1>1, <2>2, <3>2 DEF SetupClaim, ReadClaim, UnderWay
    <3>3. QED
      BY <3>1, <3>2
  <2>3. CASE q # p
    <3>1. pc'[q] = pc[q] /\ (UnderWay(q)' <=> UnderWay(q))
      BY <1>1, <2>3 DEF UnderWay
    <3>2. pc[q] \in InitStages => db # None
      BY DEF HonestInv, TypeInv, FileKept
    <3>3. UnderWay(q) /\ pc[q] = "saving" => db # None
      BY DEF HonestInv, ProfileInv, OpenedFounded, Founded
    <3>4. QED
      BY <2>1, <3>1, <3>2, <3>3 DEF SetupClaim, ReadClaim, SameMode, InitStages
  <2>4. QED
    BY <2>2, <2>3
<1>3. profile # None => db # None
  BY DEF HonestInv, ProfileInv, ProfileHasCampaign
<1>4. NoFalseClaim'
  <2>1. \A command : HalfDone(command) => HalfDone(command)'
    BY HalfKept DEF HonestInv, TypeInv
  <2>2. QED
    BY <1>3, <2>1 DEF HonestInv, NoFalseClaim, SameMode, Agree
<1>5. QED
  BY <1>2, <1>4 DEF ClaimInv

\* What a command does by itself concerns its own claims only.
LEMMA ClaimAlone ==
  ASSUME HonestInv, ~overlapped, NEW p \in Procs, UnderWay(p),
         NEW stage \in Stages, Goto(p, stage),
         (SetupClaim(p) /\ ReadClaim(p))'
  PROVE  ClaimInv'
<1>1. \A q \in Procs : q # p => ~UnderWay(q) /\ pc'[q] = pc[q]
  BY DEF HonestInv, TypeInv, CommandsOK, Goto, ProfileInv, Alone
<1>2. \A q \in Procs : q # p => ~UnderWay(q)'
  BY <1>1 DEF UnderWay
<1>3. \A q \in Procs : q # p => SetupClaim(q)' /\ ReadClaim(q)'
  BY <1>2 DEF SetupClaim, ReadClaim
<1>4. QED
  BY <1>3 DEF ClaimInv

\* Nothing is claimed once two commands met.
LEMMA OverlappedClaims == overlapped' => ClaimInv' /\ NoFalseClaim'
  BY DEF ClaimInv, NoFalseClaim

LEMMA ClaimUnlink ==
  ASSUME HonestInv, ~overlapped, NEW p \in Procs, pc[p] \in SettingUp, Unlink(p),
         UNCHANGED profile
  PROVE  ClaimInv' /\ NoFalseClaim'
<1>1. profile = None /\ UnderWay(p)
  BY StageSets DEF HonestInv, ProfileInv, NoneYet
<1>2. \A q \in Procs : q # p => ~UnderWay(q)
  BY <1>1 DEF HonestInv, ProfileInv, Alone
<1>3. \A q \in Procs : ~UnderWay(q)'
  BY <1>2 DEF Unlink, UnderWay, InitStages
<1>4. ClaimInv'
  BY <1>3 DEF ClaimInv, SetupClaim, ReadClaim
<1>5. QED
  BY <1>1, <1>4 DEF NoFalseClaim

LEMMA ClaimStart ==
  ASSUME HonestInv, NEW p \in Procs, NEW command \in Commands, NEW loaded \in Profiles,
         NEW stage \in Stages, Start(p, command, stage, loaded),
         \/ /\ command = "setup" /\ stage = "benchmarking"
            /\ loaded.lab <=> loaded.mode = "hypothesis"
         \/ /\ loaded = profile
            /\ \/ command \in {"run", "cold", "reseed"} /\ stage = "opening"
               \/ command \in {"hypothesis", "edit"} /\ stage = "saving"
  PROVE  ClaimInv' /\ NoFalseClaim'
<1>1. CASE overlapped'
  BY <1>1, OverlappedClaims
<1>2. CASE ~overlapped'
  <2>1. /\ ~overlapped /\ \A q \in Procs : q # p => ~UnderWay(q)
        /\ UNCHANGED <<db, profile>>
    BY <1>2 DEF Start, files
  <2>2. /\ pc'[p] = stage /\ cmd'[p] = command /\ copy'[p] = loaded
        /\ \A q \in Procs : q # p => pc'[q] = pc[q]
    BY DEF HonestInv, TypeInv, CommandsOK, Start, Goto
  <2>3. \A q \in Procs : q # p => SetupClaim(q)' /\ ReadClaim(q)'
    BY <2>1, <2>2 DEF UnderWay, SetupClaim, ReadClaim
  <2>4. SetupClaim(p)'
    BY <2>2 DEF SetupClaim, Late
  <2>5. ReadClaim(p)'
    BY <2>1, <2>2 DEF ReadClaim, SettingUp, InitStages
  <2>6. NoFalseClaim'
    <3>1. \A q \in Procs : ~Halfway(q)
      BY <2>1 DEF Start, Halfway, UnderWay
    <3>2. \A other : HalfDone(other) => HalfDone(other)'
      BY <3>1 DEF HalfDone, Start
    <3>3. QED
      BY <2>1, <3>2 DEF HonestInv, NoFalseClaim, Agree
  <2>7. QED
    BY <2>3, <2>4, <2>5, <2>6 DEF ClaimInv
<1>3. QED
  BY <1>1, <1>2

\* The fields of the mode after each statement.
LEMMA ModeFields ==
  ASSUME NEW d \in Databases, NEW flag \in BOOLEAN, NEW preset \in Presets
  PROVE  /\ LET e == [d EXCEPT !.campaign = TRUE, !.preset = preset]
            IN  (e.lab <=> d.lab) /\ e.preset = preset
         /\ LET e == [d EXCEPT !.row = TRUE, !.lab = flag]
            IN  (e.lab <=> flag) /\ e.preset = d.preset
         /\ LET e == [d EXCEPT !.version = 3]
            IN  e.lab = d.lab /\ e.preset = d.preset
         /\ LET e == [d EXCEPT !.columns = TRUE, !.version = 2]
            IN  e.lab = d.lab /\ e.preset = d.preset
         /\ LET e == [d EXCEPT !.table = TRUE, !.row = TRUE, !.version = 3]
            IN  e.lab = d.lab /\ e.preset = d.preset
         /\ LET e == [d EXCEPT !.lab = TRUE]
            IN  e.lab /\ e.preset = d.preset
         /\ LET e == [d EXCEPT !.preset = "cold", !.lab = FALSE]
            IN  ~e.lab /\ e.preset = "cold"
         /\ LET e == [d EXCEPT !.over = @ \/ flag]
            IN  e.lab = d.lab /\ e.preset = d.preset
<1>1. LET e == [d EXCEPT !.campaign = TRUE, !.preset = preset]
      IN  (e.lab <=> d.lab) /\ e.preset = preset
  BY DEF Databases
<1>2. LET e == [d EXCEPT !.row = TRUE, !.lab = flag]
      IN  (e.lab <=> flag) /\ e.preset = d.preset
  BY DEF Databases
<1>3. LET e == [d EXCEPT !.version = 3]
      IN  e.lab = d.lab /\ e.preset = d.preset
  BY DEF Databases
<1>4. LET e == [d EXCEPT !.columns = TRUE, !.version = 2]
      IN  e.lab = d.lab /\ e.preset = d.preset
  BY DEF Databases
<1>5. LET e == [d EXCEPT !.table = TRUE, !.row = TRUE, !.version = 3]
      IN  e.lab = d.lab /\ e.preset = d.preset
  BY DEF Databases
<1>6. LET e == [d EXCEPT !.lab = TRUE]
      IN  e.lab /\ e.preset = d.preset
  BY DEF Databases
<1>7. LET e == [d EXCEPT !.preset = "cold", !.lab = FALSE]
      IN  ~e.lab /\ e.preset = "cold"
  BY DEF Databases
<1>8. LET e == [d EXCEPT !.over = @ \/ flag]
      IN  e.lab = d.lab /\ e.preset = d.preset
  BY DEF Databases
<1>9. QED
  BY <1>1, <1>2, <1>3, <1>4, <1>5, <1>6, <1>7, <1>8

LEMMA NewTables ==
  ASSUME NEW p \in Procs, CreateTables(p), db = None
  PROVE  ~db'.lab
<1>1. db' = NewDatabase
  BY DEF CreateTables, NewDatabase
<1>2. QED
  BY <1>1 DEF NewDatabase

LEMMA ClaimInitialize ==
  ASSUME HonestInv, ~overlapped, NEW p \in Procs, Initialize(p)
  PROVE  ClaimInv' /\ NoFalseClaim'
<1>a. FilesOK /\ CommandsOK /\ CopyKept /\ FileKept
  BY DEF HonestInv, TypeInv
<1>b. SetupClaim(p) /\ ReadClaim(p)
  BY DEF HonestInv, ClaimInv
<1>1. /\ pc[p] \in SettingUp /\ UnderWay(p)
      /\ UNCHANGED <<overlapped, profile, cmd, copy, cut>>
  BY StageSets
     DEF Initialize, CheckPath, CreateTables, InsertCampaign, InsertLab, SetVersion,
         OrphanEnds, SettingUp, InitStages, files, others
<1>2. profile = None /\ profile' = None /\ pc[p] # "orphan" /\ copy[p] \in Profiles
  BY <1>1, <1>a DEF HonestInv, ProfileInv, NoneYet, CommandsOK, CopyKept, UnderWay
<1>3. NoFalseClaim'
  BY <1>2 DEF NoFalseClaim
<1>4. CASE Unlink(p)
  BY <1>1, <1>4, ClaimUnlink
<1>5. CASE CheckPath(p)
  BY <1>1, <1>5, ClaimQuiet
     DEF CheckPath, Halfway, files, SameMode, Stages, InitStages, SettingUp, Late
<1>6. ASSUME NEW stage \in InitStages \cup {"opening"}, Goto(p, stage), SetupClaim(p)'
      PROVE  ClaimInv'
  <2>1. cmd[p] = "setup"
    BY <1>1, <1>b DEF ReadClaim
  <2>2. ReadClaim(p)'
    BY <1>1, <2>1 DEF ReadClaim
  <2>3. QED
    BY <1>1, <1>6, <2>2, ClaimAlone DEF Stages
<1>7. CASE CreateTables(p) /\ db = None /\ Goto(p, "tables")
  <2>1. pc'[p] = "tables" /\ ~db'.lab
    BY <1>a, <1>7, NewTables DEF Goto, CommandsOK
  <2>2. SetupClaim(p)'
    BY <1>1, <1>b, <2>1 DEF SetupClaim, Late
  <2>3. QED
    BY <1>3, <1>6, <1>7, <2>2 DEF InitStages
<1>8. CASE InsertCampaign(p) \/ InsertLab(p) \/ SetVersion(p)
  <2>1. db \in Databases /\ db # None /\ pc[p] \in InitStages
    BY <1>a, <1>8 DEF FilesOK, FileKept, InsertCampaign, InsertLab, SetVersion, InitStages
  <2>2. copy[p].lab \in BOOLEAN /\ PresetOf(copy[p].mode) \in Presets
    BY <1>2 DEF Profiles, PresetOf, Modes, Presets
  <2>3. CASE InsertCampaign(p)
    <3>1. pc'[p] = "campaign" /\ Goto(p, "campaign")
      BY <1>a, <2>3 DEF InsertCampaign, Goto, CommandsOK
    <3>2. (db'.lab <=> db.lab) /\ db'.preset = PresetOf(copy[p].mode)
      BY <2>1, <2>2, <2>3, ModeFields DEF InsertCampaign
    <3>3. SetupClaim(p)'
      BY <1>1, <1>b, <2>3, <3>1, <3>2 DEF SetupClaim, Late, InsertCampaign
    <3>4. QED
      BY <1>3, <1>6, <3>1, <3>3 DEF InitStages
  <2>4. CASE InsertLab(p)
    <3>1. pc'[p] = "rows" /\ Goto(p, "rows")
      BY <1>a, <2>4 DEF InsertLab, Goto, CommandsOK
    <3>2. (db'.lab <=> copy[p].lab) /\ db'.preset = db.preset
      BY <2>1, <2>2, <2>4, ModeFields DEF InsertLab
    <3>3. SetupClaim(p)'
      BY <1>1, <1>b, <2>1, <2>4, <3>1, <3>2 DEF SetupClaim, Late, InsertLab
    <3>4. QED
      BY <1>3, <1>6, <3>1, <3>3 DEF InitStages
  <2>5. CASE SetVersion(p)
    <3>1. pc'[p] = "opening" /\ Goto(p, "opening")
      BY <1>a, <2>5 DEF SetVersion, Goto, CommandsOK
    <3>2. db'.lab = db.lab /\ db'.preset = db.preset
      BY <2>1, <2>5, ModeFields DEF SetVersion
    <3>3. SetupClaim(p)'
      BY <1>1, <1>b, <2>1, <2>5, <3>1, <3>2 DEF SetupClaim, Late, SetVersion
    <3>4. QED
      BY <1>3, <1>6, <3>1, <3>3
  <2>6. QED
    BY <1>8, <2>3, <2>4, <2>5
<1>9. QED
  BY <1>2, <1>4, <1>5, <1>7, <1>8 DEF Initialize, CreateTables, OrphanEnds

\* What a command does with an open database, or with the profile.
LEMMA ClaimWork ==
  ASSUME HonestInv, ~overlapped, NEW p \in Procs, Work(p)
  PROVE  ClaimInv' /\ NoFalseClaim'
<1>a. FilesOK /\ CommandsOK /\ CopyKept
  BY DEF HonestInv, TypeInv
<1>b. SetupClaim(p) /\ ReadClaim(p)
  BY DEF HonestInv, ClaimInv
<1>c. {"idle", "opening", "opened", "saving", "running"} \subseteq Stages
  BY DEF Stages
<1>d. profile # None => db # None
  BY DEF HonestInv, ProfileInv, ProfileHasCampaign
<1>1. UNCHANGED <<overlapped, cmd, copy, cut>>
  BY DEF Work, SetupOpened, Launch, EnableHypothesis, EnableCold, Reseed, SaveProfile,
         Vanished, others
<1>e. ASSUME NEW stage, Goto(p, stage), ~Halfway(p), profile # None,
             UNCHANGED <<db, profile>>
      PROVE  NoFalseClaim'
  <2>1. \A command : HalfDone(command) => HalfDone(command)'
    BY <1>a, <1>1, <1>e, HalfKept
  <2>2. QED
    BY <1>1, <1>e, <2>1 DEF HonestInv, NoFalseClaim, Agree
<1>2. CASE Vanished(p)
  <2>1. pc[p] # "opened" /\ ~Halfway(p)
    BY <1>2 DEF Vanished, Halfway, HonestInv, ProfileInv, OpenedFounded, Founded
  <2>2. QED
    BY <1>1, <1>2, <1>c, <2>1, ClaimQuiet
       DEF Vanished, files, SameMode, Late, SettingUp, InitStages
<1>3. CASE SetupOpened(p) \/ Reseed(p)
  <2>1. /\ pc[p] = "opened" /\ UnderWay(p) /\ cmd[p] \in {"setup", "reseed"}
        /\ UNCHANGED <<db, profile>> /\ ~Halfway(p)
    BY <1>3 DEF SetupOpened, Reseed, Opened, UnderWay, Halfway, files
  <2>2. CASE Goto(p, "idle")
    BY <1>1, <1>c, <2>1, <2>2, ClaimQuiet DEF SameMode, Late, SettingUp, InitStages
  <2>3. CASE Goto(p, "saving")
    <3>1. pc'[p] = "saving"
      BY <1>a, <2>3 DEF CommandsOK, Goto
    <3>2. (SetupClaim(p) /\ ReadClaim(p))'
      BY <1>1, <1>b, <2>1, <3>1 DEF SetupClaim, ReadClaim, Late, SettingUp, InitStages
    <3>3. NoFalseClaim'
      BY <1>e, <2>1, <2>3 DEF NoFalseClaim
    <3>4. QED
      BY <1>c, <2>1, <2>3, <3>2, <3>3, ClaimAlone
  <2>4. QED
    BY <1>3, <2>2, <2>3 DEF SetupOpened, Reseed
<1>4. CASE Launch(p) \/ EnableHypothesis(p)
  <2>1. /\ pc[p] = "opened" /\ UnderWay(p) /\ cmd[p] \in {"run", "hypothesis"}
        /\ profile' = profile
        /\ \/ db' = db /\ ~Halfway(p)
           \/ db \in Databases /\ db' = [db EXCEPT !.lab = TRUE] /\ profile.lab
    <3>1. pc[p] = "opened" /\ UnderWay(p)
      BY <1>4 DEF Launch, EnableHypothesis, Opened, UnderWay
    <3>2. CASE Launch(p)
      <4>1. cmd[p] = "run" /\ copy[p] = profile /\ profile' = profile
        BY <1>b, <3>1, <3>2 DEF Launch, Opened, ReadClaim
      <4>2. CASE copy[p].lab
        BY <1>a, <3>1, <3>2, <4>1, <4>2 DEF Launch, FilesOK
      <4>3. CASE ~copy[p].lab
        BY <3>1, <3>2, <4>1, <4>3 DEF Launch, Halfway
      <4>4. QED
        BY <4>2, <4>3
    <3>3. CASE EnableHypothesis(p)
      BY <1>a, <1>b, <3>1, <3>3 DEF EnableHypothesis, Opened, ReadClaim, FilesOK
    <3>4. QED
      BY <1>4, <3>2, <3>3
  <2>2. PICK stage \in {"running", "idle"} : Goto(p, stage)
    BY <1>4 DEF Launch, EnableHypothesis
  <2>3. ~UnderWay(p)'
    BY <1>a, <2>2 DEF CommandsOK, Goto, UnderWay
  <2>4. ClaimInv'
    BY <1>c, <2>1, <2>2, <2>3, ClaimAlone DEF SetupClaim, ReadClaim
  <2>5. NoFalseClaim'
    <3>1. CASE db' = db /\ ~Halfway(p)
      BY <1>e, <2>1, <2>2, <3>1 DEF NoFalseClaim
    <3>2. CASE db \in Databases /\ db' = [db EXCEPT !.lab = TRUE] /\ profile.lab
      <4>1. db'.lab
        BY <3>2 DEF Databases
      <4>2. Agree' \/ profile = None
        BY <1>a, <2>1, <3>2, <4>1 DEF Agree, FilesOK, Profiles
      <4>3. QED
        BY <1>1, <2>1, <4>2 DEF HonestInv, NoFalseClaim
    <3>3. QED
      BY <2>1, <3>1, <3>2
  <2>6. QED
    BY <2>4, <2>5
<1>5. CASE EnableCold(p)
  <2>1. pc[p] = "opened" /\ UnderWay(p) /\ cmd[p] = "cold" /\ profile' = profile
    BY <1>5 DEF EnableCold, Opened, UnderWay
  <2>2. CASE UNCHANGED db /\ Goto(p, "idle")
    BY <1>1, <1>c, <2>1, <2>2, ClaimQuiet
       DEF SameMode, Late, SettingUp, InitStages, Halfway
  <2>3. CASE db # None /\ db' = [db EXCEPT !.preset = "cold", !.lab = FALSE] /\ Goto(p, "saving")
    <3>1. db \in Databases
      BY <1>a, <2>3 DEF FilesOK
    <3>2. ~db'.lab /\ db'.preset = "cold"
      BY <2>3, <3>1, ModeFields DEF Presets
    <3>3. pc'[p] = "saving"
      BY <1>a, <2>3 DEF CommandsOK, Goto
    <3>4. (SetupClaim(p) /\ ReadClaim(p))'
      BY <1>1, <1>b, <2>1, <3>2, <3>3 DEF SetupClaim, ReadClaim, SettingUp, InitStages
    <3>5. NoFalseClaim'
      <4>1. HalfDone("cold")'
        BY <1>1, <2>1, <3>3 DEF HalfDone, Halfway
      <4>2. QED
        BY <1>1, <2>1, <3>2, <4>1 DEF HonestInv, NoFalseClaim
    <3>6. QED
      BY <1>c, <2>1, <2>3, <3>4, <3>5, ClaimAlone
  <2>4. QED
    BY <1>5, <2>2, <2>3 DEF EnableCold
<1>6. CASE SaveProfile(p)
  <2>1. /\ pc[p] = "saving" /\ UnderWay(p) /\ db' = db /\ profile' \in Edited(p)
        /\ copy[p] \in Profiles
    BY <1>6, <1>a DEF SaveProfile, UnderWay, CommandsOK, CopyKept
  <2>2. db # None
    BY <2>1 DEF HonestInv, ProfileInv, OpenedFounded, Founded
  <2>3. CASE cmd[p] = "hypothesis"
    <3>1. profile'.lab /\ profile'.mode = "hypothesis" /\ profile' # None
      <4>1. profile' \in Profiles
        BY <2>1, EditedTypes DEF HonestInv
      <4>2. QED
        BY <2>1, <2>3, <4>1, NoneAssumption DEF Edited, Profiles
    <3>2. Goto(p, "opening") /\ pc'[p] = "opening"
      BY <1>6, <1>a, <2>3 DEF SaveProfile, CommandsOK, Goto
    <3>3. (SetupClaim(p) /\ ReadClaim(p))'
      BY <1>1, <2>3, <3>1, <3>2 DEF SetupClaim, ReadClaim, SettingUp, InitStages
    <3>4. NoFalseClaim'
      <4>1. HalfDone("hypothesis")'
        BY <1>1, <2>3, <3>2 DEF HalfDone, Halfway
      <4>2. db.lab \in BOOLEAN
        BY <1>a, <2>2 DEF FilesOK, Databases
      <4>3. Agree' \/ ~db.lab
        BY <2>1, <3>1, <4>2, <1>a, <1>6, EditedTypes
           DEF Agree, HonestInv, Profiles
      <4>4. QED
        BY <2>1, <3>1, <4>1, <4>3 DEF NoFalseClaim
    <3>5. QED
      BY <1>c, <2>1, <3>2, <3>3, <3>4, ClaimAlone
  <2>4. CASE cmd[p] # "hypothesis"
    <3>1. Goto(p, "idle") /\ pc'[p] = "idle"
      BY <1>6, <1>a, <2>4 DEF SaveProfile, CommandsOK, Goto
    <3>2. ClaimInv'
      BY <1>c, <2>1, <3>1, ClaimAlone DEF SetupClaim, ReadClaim, UnderWay
    <3>3. ~overlapped' /\ db' = db /\ db.lab \in BOOLEAN
      BY <1>1, <1>a, <2>1, <2>2 DEF FilesOK, Databases
    <3>4. NoFalseClaim'
      <4>1. CASE cmd[p] = "setup"
        <5>1. /\ profile' = copy[p] /\ (copy[p].lab <=> copy[p].mode = "hypothesis")
              /\ db.preset = PresetOf(copy[p].mode) /\ (db.lab <=> copy[p].lab)
              /\ copy[p].lab \in BOOLEAN
          BY <1>b, <2>1, <2>2, <4>1 DEF Edited, SetupClaim, Late, Profiles
        <5>2. Agree'
          BY <3>3, <5>1 DEF Agree, PresetOf
        <5>3. QED
          BY <5>1, <5>2 DEF NoFalseClaim
      <4>2. CASE cmd[p] = "cold"
        <5>1. ~db.lab /\ db.preset = "cold"
          BY <1>b, <2>1, <4>2 DEF ReadClaim
        <5>2. profile'.mode = "cold" /\ profile'.lab = FALSE
          BY <2>1, <4>2 DEF Edited, Profiles, Modes
        <5>3. Agree'
          BY <3>3, <5>1, <5>2 DEF Agree
        <5>4. QED
          BY <5>2, <5>3 DEF NoFalseClaim
      <4>3. CASE cmd[p] \in {"edit", "run", "reseed"}
        <5>1. copy[p] = profile /\ profile # None
          BY <1>b, <2>1, <4>3, NoneAssumption DEF ReadClaim
        <5>2. profile'.lab = profile.lab /\ profile'.mode = profile.mode
          BY <2>1, <4>3, <5>1 DEF Edited, Profiles
        <5>3. \A command : HalfDone(command) => HalfDone(command)'
          BY <1>a, <1>1, <3>1, <4>3, HalfKept DEF Halfway
        <5>4. QED
          BY <3>3, <5>1, <5>2, <5>3 DEF HonestInv, NoFalseClaim, Agree
      <4>4. QED
        BY <1>a, <2>4, <4>1, <4>2, <4>3 DEF CommandsOK, Commands
    <3>5. QED
      BY <3>2, <3>4
  <2>5. QED
    BY <2>3, <2>4
<1>7. QED
  BY <1>2, <1>3, <1>4, <1>5, <1>6 DEF Work

\* Migrations and chunks leave the mode alone.
LEMMA SameModeSteps ==
  ASSUME db \in Databases,
         \/ db' = [db EXCEPT !.columns = TRUE, !.version = 2]
         \/ db' = [db EXCEPT !.table = TRUE, !.row = TRUE, !.version = 3]
         \/ \E over \in BOOLEAN : db' = [db EXCEPT !.over = @ \/ over]
  PROVE  SameMode
<1>1. db # None
  BY NoneAssumption
<1>2. db' \in Databases
  BY DatabaseTypes DEF Presets
<1>3. db' # None
  BY <1>2, NoneAssumption
<1>4. CASE db' = [db EXCEPT !.columns = TRUE, !.version = 2]
  BY <1>1, <1>3, <1>4 DEF SameMode, Databases
<1>5. CASE db' = [db EXCEPT !.table = TRUE, !.row = TRUE, !.version = 3]
  BY <1>1, <1>3, <1>5 DEF SameMode, Databases
<1>6. CASE \E over \in BOOLEAN : db' = [db EXCEPT !.over = @ \/ over]
  BY <1>1, <1>3, <1>6 DEF SameMode, Databases
<1>7. QED
  BY <1>4, <1>5, <1>6

LEMMA ClaimStep == HonestInv /\ [Next]_vars => ClaimInv' /\ NoFalseClaim'
<1> SUFFICES ASSUME HonestInv, [Next]_vars, ~overlapped'
             PROVE  ClaimInv' /\ NoFalseClaim'
  BY OverlappedClaims
<1>a. FilesOK /\ CommandsOK
  BY DEF HonestInv, TypeInv
<1>b. {"idle", "initializing", "opening", "opened", "alter", "create_lab", "running", "scanning"}
        \subseteq Stages \ InitStages
  BY DEF Stages, InitStages
<1>1. ASSUME NEW p \in Procs, Setup(p) PROVE ClaimInv' /\ NoFalseClaim'
  <2>1. PICK m \in Modes : Start(p, "setup", "benchmarking",
                                 [mode |-> m, lab |-> m = "hypothesis", armed |-> FALSE])
    BY <1>1 DEF Setup
  <2>2. [mode |-> m, lab |-> m = "hypothesis", armed |-> FALSE] \in Profiles
    BY DEF Profiles
  <2>3. QED
    BY <2>1, <2>2, ClaimStart DEF Commands, Stages
<1>2. ASSUME NEW p \in Procs, Command(p) \/ Run(p) PROVE ClaimInv' /\ NoFalseClaim'
  <2>1. profile \in Profiles
    BY <1>2, <1>a DEF Command, Run, FilesOK
  <2>2. QED
    BY <1>2, <2>1, ClaimStart DEF Command, Run, Commands, Stages
<1>3. ASSUME NEW p \in Procs, Step(p) PROVE ClaimInv' /\ NoFalseClaim'
  <2>1. ~overlapped /\ UNCHANGED <<overlapped, cmd, copy, cut>>
    BY <1>3, StepShape DEF HonestInv, others
  <2>2. CASE BenchmarkFails(p) \/ SaveReport(p)
    BY <1>b, <2>1, <2>2, ClaimQuiet
       DEF BenchmarkFails, SaveReport, files, SameMode, Late, SettingUp, UnderWay,
           Halfway
  <2>3. CASE Initialize(p)
    BY <2>1, <2>3, ClaimInitialize
  <2>4. CASE Opening(p)
    <3>1. /\ pc[p] \in {"opening", "alter", "create_lab"} /\ UnderWay(p) /\ UNCHANGED profile
          /\ \E stage \in {"idle", "alter", "create_lab", "opened"} : Goto(p, stage)
      BY <2>4 DEF Opening, Open, AddColumns, AddLab, UnderWay, files
    <3>2. \/ UNCHANGED db
          \/ /\ db \in Databases
             /\ \/ db' = [db EXCEPT !.columns = TRUE, !.version = 2]
                \/ db' = [db EXCEPT !.table = TRUE, !.row = TRUE, !.version = 3]
      BY <1>a, <2>4 DEF Opening, Open, AddColumns, AddLab, files, FilesOK
    <3>3. SameMode
      <4>1. CASE UNCHANGED db
        BY <4>1 DEF SameMode
      <4>2. CASE db \in Databases /\ db' = [db EXCEPT !.columns = TRUE, !.version = 2]
        BY <4>2, SameModeSteps
      <4>3. CASE db \in Databases /\ db' = [db EXCEPT !.table = TRUE, !.row = TRUE, !.version = 3]
        BY <4>3, SameModeSteps
      <4>4. QED
        BY <3>2, <4>1, <4>2, <4>3
    <3>4. Halfway(p) => Halfway(p)'
      <4>1. ASSUME Halfway(p) PROVE cmd[p] = "hypothesis" /\ profile # None
        <5>1. ReadClaim(p)
          BY <2>1 DEF HonestInv, ClaimInv
        <5>2. QED
          BY <3>1, <4>1, <5>1 DEF Halfway, ReadClaim
      <4>2. QED
        BY <2>1, <2>4, <4>1, OpeningGoesOn DEF HonestInv, Halfway
    <3>5. QED
      BY <1>b, <2>1, <3>1, <3>3, <3>4, ClaimQuiet DEF Late, SettingUp, InitStages
  <2>5. CASE Work(p)
    BY <2>1, <2>5, ClaimWork
  <2>6. CASE LeaseChunk(p)
    BY <1>b, <2>1, <2>6, ClaimQuiet
       DEF LeaseChunk, files, SameMode, Late, SettingUp, InitStages, Halfway
  <2>7. CASE EndChunk(p)
    <3>1. db \in Databases /\ \E over \in BOOLEAN : db' = [db EXCEPT !.over = @ \/ over]
      BY <1>a, <2>7 DEF EndChunk, FilesOK
    <3>2. SameMode
      BY <3>1, SameModeSteps
    <3>3. QED
      BY <1>b, <2>1, <2>7, <3>2, ClaimQuiet
         DEF EndChunk, Late, SettingUp, InitStages, Halfway
  <2>8. QED
    BY <1>3, <2>2, <2>3, <2>4, <2>5, <2>6, <2>7 DEF Step
<1>4. ASSUME NEW p \in Procs, InitFails(p) PROVE ClaimInv' /\ NoFalseClaim'
  BY <1>4, ClaimUnlink DEF InitFails, others, SettingUp
<1>5. ASSUME NEW p \in Procs, Crash(p) PROVE ClaimInv' /\ NoFalseClaim'
  BY <1>5, <1>b, ClaimQuiet DEF Crash, SameMode, Late, SettingUp
<1>6. CASE Reclaim \/ UNCHANGED vars
  BY <1>6 DEF Reclaim, vars, files, others, HonestInv, ClaimInv, SetupClaim, ReadClaim,
              UnderWay, NoFalseClaim, Agree, HalfDone, Halfway
<1>7. QED
  BY <1>1, <1>2, <1>3, <1>4, <1>5, <1>6 DEF Next

LEMMA InitClaims == Init => ClaimInv /\ NoFalseClaim
<1> SUFFICES ASSUME Init PROVE ClaimInv /\ NoFalseClaim
  OBVIOUS
<1>1. ClaimInv
  BY DEF Init, ClaimInv, SetupClaim, ReadClaim, UnderWay
<1>2. ASSUME profile # None PROVE Agree /\ profile.mode # "hypothesis" /\ ~profile.lab
  <2>1. PICK version \in {1, 2} : db = OldDatabase(version)
    BY <1>2 DEF Init
  <2>2. db.lab = FALSE /\ db.preset = "affine"
    BY <2>1 DEF OldDatabase
  <2>3. profile.lab = FALSE /\ profile.mode = "affine"
    BY <1>2 DEF Init
  <2>4. QED
    BY <2>2, <2>3 DEF Agree
<1>3. QED
  BY <1>1, <1>2 DEF NoFalseClaim

\* Unless two commands were ever under way at once, profile and database disagree
\* on the mode only where a hypothesis-enable or a cold-enable is half done or was
\* killed half-way, and then in the one way that each of them leaves behind.
THEOREM NoFalseClaimCorrect == Spec => []NoFalseClaim
<1>1. Init => HonestInv
  <2>1. Init => Migrating
    BY DEF Init, Migrating, MigratingFrom
  <2>2. QED
    BY InitTypes, InitSchema, InitProfile, InitClaims, <2>1 DEF HonestInv
<1>2. HonestInv /\ [Next]_vars => HonestInv'
  BY TypeStep, SchemaStep, ProfileStep, MigratingStep, ClaimStep DEF HonestInv
<1>3. HonestInv => NoFalseClaim
  BY DEF HonestInv
<1>4. QED
  BY <1>1, <1>2, <1>3, PTL DEF Spec

=============================================================================
