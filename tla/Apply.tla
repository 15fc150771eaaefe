------------------------------- MODULE Apply -------------------------------
(***************************************************************************)
(* Loading job files (cli/applycmd.go, store/apply.go, store/jobs.go,      *)
(* store/schedulesync.go, store/sensors.go).  An apply reads its files,    *)
(* takes the state directory's lock, settles on a plan for every file from *)
(* the rows as they stand, and performs all the plans in one transaction.  *)
(* Between two applies the daemon and the operator move the same rows:     *)
(* cursors and pauses belong to them, definitions belong to the files.     *)
(*                                                                         *)
(* A document is a canonical job: which schedules and sensors it declares  *)
(* and how.  Two files with the same meaning are the same document.        *)
(***************************************************************************)
EXTENDS Integers, Sequences

CONSTANTS
    Jobs, Schedules, Sensors,   \* names; a sensor's is unique across all jobs
    Definitions,                \* of schedules and sensors
    Documents,                  \* [schedules, sensors]: name -> definition or NoDef
    NoDef, NoJob, NoDocument,
    Commands,                   \* processes that may run "paceq apply"
    MaxFiles,                   \* bound: files of one apply
    MaxDrift                    \* bound: moves of one row

ASSUME NoDefAssumption == NoDef \notin Definitions /\ NoJob \notin Jobs
ASSUME DocumentsAssumption ==
    Documents \subseteq [schedules : [Schedules -> Definitions \cup {NoDef}],
                         sensors   : [Sensors -> Definitions \cup {NoDef}]]
ASSUME HoldersAssumption == {"none", "daemon"} \cap Commands = {}
ASSUME FilesAssumption == MaxFiles \in Nat \ {0} /\ MaxDrift \in Nat

VARIABLES
    current,    \* the document of the version a job points at
    schedules,  \* schedule rows by job and name: [def, drift]
    sensors,    \* sensor rows by name: [job, def, drift]
    stateLock,  \* who holds the state directory: "none", "daemon" or a command
    files,      \* what a command read
    plans       \* and settled on, one plan for every file

catalog == <<current, schedules, sensors>>
applyVars == <<current, schedules, sensors, stateLock, files, plans>>

File    == [job : Jobs, doc : Documents]
Batches == UNION {[1..n -> File] : n \in 1..MaxFiles}

(* drift: how far a row is from a fresh one, its cursor, due time, pause,  *)
(* epoch and breaker taken together.                                       *)
NoSchedule == [def |-> NoDef, drift |-> 0]
NoSensor   == [job |-> NoJob, def |-> NoDef, drift |-> 0]

NewSchedule(def)    == [def |-> def, drift |-> 0]
NewSensor(job, def) == [job |-> job, def |-> def, drift |-> 0]

KindNames    == {"none", "created", "removed", "unchanged", "spec_changed"}
FilePlans    == [schedules : [Schedules -> KindNames], sensors : [Sensors -> KindNames]]
Pointers     == [Jobs -> Documents \cup {NoDocument}]
ScheduleRows == [Jobs -> [Schedules -> [def : Definitions \cup {NoDef}, drift : 0..MaxDrift]]]
SensorRows   == [Sensors -> [job : Jobs \cup {NoJob}, def : Definitions \cup {NoDef},
                             drift : 0..MaxDrift]]

ApplyTypes ==
    /\ current \in Pointers /\ schedules \in ScheduleRows /\ sensors \in SensorRows
    /\ stateLock \in {"none", "daemon"} \cup Commands
    /\ files \in [Commands -> Seq(File)]
    /\ plans \in [Commands -> Seq(FilePlans)]

ApplyInit ==
    /\ current = [j \in Jobs |-> NoDocument]
    /\ schedules = [j \in Jobs |-> [n \in Schedules |-> NoSchedule]]
    /\ sensors = [s \in Sensors |-> NoSensor]
    /\ stateLock = "none"
    /\ files = [p \in Commands |-> <<>>] /\ plans = [p \in Commands |-> <<>>]

-----------------------------------------------------------------------------
(* Reading the files                                                       *)

Declares(file, s) == file.doc.sensors[s] # NoDef

Named(file) == {s \in Sensors : Declares(file, s)}

(* CheckGlobalSensorNames: a file with a name an earlier one has is        *)
(* refused, the names it adds are taken all the same, and the rest of the  *)
(* batch goes on.                                                          *)
KeepUnlessTaken(acc, file) ==
    [kept  |-> IF Named(file) \cap acc.owner = {} THEN Append(acc.kept, file) ELSE acc.kept,
     owner |-> acc.owner \cup Named(file)]

CheckGlobalSensorNames(batch) ==
    LET after[k \in 0..Len(batch)] ==
            IF k = 0 THEN [kept |-> <<>>, owner |-> {}] ELSE KeepUnlessTaken(after[k - 1], batch[k])
    IN  after[Len(batch)]

RefuseSensorNameConflicts(batch) == CheckGlobalSensorNames(batch).kept

LoadFiles(p) ==
    /\ files[p] = <<>>
    /\ \E batch \in Batches :
          files' = [files EXCEPT ![p] = RefuseSensorNameConflicts(batch)]
    /\ UNCHANGED <<current, schedules, sensors, stateLock, plans>>

(* OpenState: the lock first, at once or not at all.                       *)
OpenApplyState(p) ==
    /\ files[p] # <<>> /\ stateLock = "none"
    /\ stateLock' = p
    /\ UNCHANGED <<current, schedules, sensors, files, plans>>

Refused(p) ==
    /\ files[p] # <<>> /\ stateLock \notin {"none", p}
    /\ files' = [files EXCEPT ![p] = <<>>]
    /\ UNCHANGED <<current, schedules, sensors, stateLock, plans>>

-----------------------------------------------------------------------------
(* Plans                                                                   *)

KindOf(was, def) ==
    IF def = NoDef THEN IF was = NoDef THEN "none" ELSE "removed"
    ELSE CASE was = NoDef -> "created"
           [] was = def   -> "unchanged"
           [] OTHER       -> "spec_changed"

BuildSchedulePlan(file, rows) ==
    [n \in Schedules |-> KindOf(rows[file.job][n].def, file.doc.schedules[n])]

(* currentSensorSpecs: only the rows the job itself owns.                  *)
BuildSensorPlan(file, rows) ==
    [s \in Sensors |-> KindOf(IF rows[s].job = file.job THEN rows[s].def ELSE NoDef,
                              file.doc.sensors[s])]

PlansFor(batch, sched, sens) ==
    [i \in DOMAIN batch |-> [schedules |-> BuildSchedulePlan(batch[i], sched),
                             sensors   |-> BuildSensorPlan(batch[i], sens)]]

(* Mutant: the rows are read before the lock is taken.                     *)
PlanUnlocked(p) ==
    /\ files[p] # <<>> /\ plans[p] = <<>>
    /\ plans' = [plans EXCEPT ![p] = PlansFor(files[p], schedules, sensors)]
    /\ UNCHANGED <<current, schedules, sensors, stateLock, files>>

(* The first half of ApplyJobs: every plan, before the transaction.        *)
PlanJobs(p) ==
    /\ stateLock = p /\ plans[p] = <<>>
    /\ plans' = [plans EXCEPT ![p] = PlansFor(files[p], schedules, sensors)]
    /\ UNCHANGED <<current, schedules, sensors, stateLock, files>>

-----------------------------------------------------------------------------
(* The transaction                                                         *)

Writes(kind) == kind \in {"created", "spec_changed"}

(* writeJobVersion: a new row or the one that carries the hash already, and*)
(* the job points at it; the last file of a job decides.                   *)
PointTo(pointers, file) == [pointers EXCEPT ![file.job] = file.doc]

CurrentAfter(batch) ==
    LET after[k \in 0..Len(batch)] ==
            IF k = 0 THEN current ELSE PointTo(after[k - 1], batch[k])
    IN  after[Len(batch)]

AfterRemovals(batch, plan, sens) ==
    [s \in Sensors |->
        IF \E i \in DOMAIN batch : plan[i].sensors[s] = "removed" /\ sens[s].job = batch[i].job
        THEN NoSensor ELSE sens[s]]

(* refuseTakenSensorNames, against what the removals left.                 *)
Taken(batch, sens) ==
    \E s \in Sensors, i \in DOMAIN batch :
        Declares(batch[i], s) /\ sens[s].job \notin {NoJob, batch[i].job}

(* Mutant: the names are checked before the removals.                      *)
RefusedBeforeRemovals(batch, plan, sens) == Taken(batch, sens)

RefusedNames(batch, plan, sens) == Taken(batch, AfterRemovals(batch, plan, sens))

(* The conflict branch: the definition is the file's, the rest stays.      *)
UpsertSensor(row, file, s) ==
    IF row.job = NoJob THEN NewSensor(file.job, file.doc.sensors[s])
    ELSE [row EXCEPT !.def = file.doc.sensors[s]]

AfterUpserts(batch, plan, sens) ==
    [s \in Sensors |->
        IF \E i \in DOMAIN batch : Writes(plan[i].sensors[s])
        THEN UpsertSensor(sens[s],
                          batch[CHOOSE i \in DOMAIN batch : Writes(plan[i].sensors[s])], s)
        ELSE sens[s]]

(* Mutant: a changed expression starts the row over.                       *)
UpsertStartsOver(row, def) == NewSchedule(def)

UpsertSchedule(row, def) ==
    IF row.def = NoDef THEN NewSchedule(def) ELSE [row EXCEPT !.def = def]

SyncRows(rows, file, plan) ==
    [n \in Schedules |->
        CASE Writes(plan.schedules[n])     -> UpsertSchedule(rows[n], file.doc.schedules[n])
          [] plan.schedules[n] = "removed" -> NoSchedule
          [] OTHER                         -> rows[n]]

SyncSchedules(sched, file, plan) == [sched EXCEPT ![file.job] = SyncRows(@, file, plan)]

SchedulesAfter(batch, plan, sched) ==
    LET after[k \in 0..Len(batch)] ==
            IF k = 0 THEN sched ELSE SyncSchedules(after[k - 1], batch[k], plan[k])
    IN  after[Len(batch)]

SensorsAfter(batch, plan, sens) ==
    AfterUpserts(batch, plan, AfterRemovals(batch, plan, sens))

(* The second half of ApplyJobs: everything, or nothing at all.            *)
ApplyJobs(p) ==
    /\ stateLock = p /\ plans[p] # <<>>
    /\ IF RefusedNames(files[p], plans[p], sensors)
       THEN UNCHANGED catalog
       ELSE /\ current' = CurrentAfter(files[p])
            /\ sensors' = SensorsAfter(files[p], plans[p], sensors)
            /\ schedules' = SchedulesAfter(files[p], plans[p], schedules)
    /\ stateLock' = "none"
    /\ files' = [files EXCEPT ![p] = <<>>] /\ plans' = [plans EXCEPT ![p] = <<>>]

(* The command dies or its transaction fails; the kernel drops the lock.   *)
ApplyFails(p) ==
    /\ stateLock = p
    /\ stateLock' = "none"
    /\ files' = [files EXCEPT ![p] = <<>>] /\ plans' = [plans EXCEPT ![p] = <<>>]
    /\ UNCHANGED catalog

-----------------------------------------------------------------------------
(* What moves the rows between two applies                                 *)

DaemonStarts == stateLock = "none" /\ stateLock' = "daemon" /\ UNCHANGED <<catalog, files, plans>>
DaemonStops  == stateLock = "daemon" /\ stateLock' = "none" /\ UNCHANGED <<catalog, files, plans>>

MoveSchedule(j, n) ==
    /\ schedules[j][n].def # NoDef /\ schedules[j][n].drift < MaxDrift
    /\ schedules' = [schedules EXCEPT ![j][n].drift = @ + 1]
    /\ UNCHANGED <<current, sensors, stateLock, files, plans>>

MoveSensor(s) ==
    /\ sensors[s].job # NoJob /\ sensors[s].drift < MaxDrift
    /\ sensors' = [sensors EXCEPT ![s].drift = @ + 1]
    /\ UNCHANGED <<current, schedules, stateLock, files, plans>>

Tick(j, n)  == stateLock = "daemon" /\ MoveSchedule(j, n)
Evaluate(s) == stateLock = "daemon" /\ MoveSensor(s)

(* The operator on a state that nobody holds; through the daemon it is the *)
(* same move.                                                              *)
PauseSchedule(j, n) == stateLock = "none" /\ MoveSchedule(j, n)
PauseSensor(s)      == stateLock = "none" /\ MoveSensor(s)

-----------------------------------------------------------------------------
ApplyNext ==
    \/ \E p \in Commands :
          LoadFiles(p) \/ OpenApplyState(p) \/ Refused(p) \/ PlanJobs(p) \/ ApplyJobs(p) \/ ApplyFails(p)
    \/ DaemonStarts \/ DaemonStops
    \/ \E j \in Jobs, n \in Schedules : Tick(j, n) \/ PauseSchedule(j, n)
    \/ \E s \in Sensors : Evaluate(s) \/ PauseSensor(s)

ApplySpec == ApplyInit /\ [][ApplyNext]_applyVars

-----------------------------------------------------------------------------
(* Properties                                                              *)

OneFileAJob(batch) == \A i, k \in DOMAIN batch : batch[i].job = batch[k].job => i = k

Committed(p) == stateLock = p /\ plans[p] # <<>> /\ plans'[p] = <<>> /\ catalog' # catalog

(* An apply that lands leaves every job it names with exactly the rows its *)
(* file declares and with the version that says so, and leaves every other *)
(* job alone; although the plans were made before the write lock was taken.*)
LandsComplete(batch) ==
    /\ \A i \in DOMAIN batch : LET j == batch[i].job IN
          /\ current'[j] = batch[i].doc
          /\ \A n \in Schedules : schedules'[j][n].def = batch[i].doc.schedules[n]
          /\ \A s \in Sensors : (sensors'[s].job = j) = Declares(batch[i], s)
          /\ \A s \in Sensors : Declares(batch[i], s) => sensors'[s].def = batch[i].doc.sensors[s]
    /\ \A j \in Jobs \ {batch[i].job : i \in DOMAIN batch} :
          /\ schedules'[j] = schedules[j] /\ current'[j] = current[j]
          /\ \A s \in Sensors : sensors[s].job = j => sensors'[s] = sensors[s]

CatalogIsTheBatch ==
    [][\A p \in Commands : Committed(p) /\ OneFileAJob(files[p]) => LandsComplete(files[p])]_applyVars

(* "A re-apply must not move the cursor": what the daemon and the operator *)
(* did to a row survives every apply that keeps it, and a sensor's never   *)
(* passes to another job.                                                  *)
DriftSurvives ==
    [][\A p \in Commands : Committed(p) /\ OneFileAJob(files[p]) =>
        /\ \A j \in Jobs, n \in Schedules :
              schedules[j][n].def # NoDef /\ schedules'[j][n].def # NoDef =>
                  schedules'[j][n].drift = schedules[j][n].drift
        /\ \A s \in Sensors : sensors'[s].job # NoJob =>
              sensors'[s].drift = IF sensors[s].job = sensors'[s].job THEN sensors[s].drift ELSE 0]_applyVars

(* How an operator splits and orders the files does not matter: one apply  *)
(* of two files is refused exactly when the reverse is, ends in the same   *)
(* rows, and in those two applies end in when both are taken.              *)
Outcome(batch, sched, sens) ==
    LET plan == PlansFor(batch, sched, sens)
    IN  IF RefusedNames(batch, plan, sens) THEN [taken |-> FALSE, schedules |-> sched, sensors |-> sens]
        ELSE [taken     |-> TRUE,
              schedules |-> SchedulesAfter(batch, plan, sched),
              sensors   |-> SensorsAfter(batch, plan, sens)]

OneApplyOrTwo ==
    stateLock = "none" =>
        \A f, g \in File : f.job # g.job /\ Named(f) \cap Named(g) = {} =>
            LET both  == Outcome(<<f, g>>, schedules, sensors)
                first == Outcome(<<f>>, schedules, sensors)
                then  == Outcome(<<g>>, first.schedules, first.sensors)
            IN  /\ both = Outcome(<<g, f>>, schedules, sensors)
                /\ first.taken /\ then.taken => both = then
                /\ both.taken => Outcome(<<f, g>>, both.schedules, both.sensors) = both
=============================================================================
