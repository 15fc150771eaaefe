------------------------- MODULE AttemptSpoolProofs -------------------------
(* What holds between a step's rows, its processes and its result files,   *)
(* proved for every attempt budget and any number of launches, machine     *)
(* restarts, lost shims and store errors.                                  *)
EXTENDS AttemptSpool, FiniteSetTheorems, TLAPS

Verdicts == {"succeeded", "failed", "cancelled"}

RowTypes ==
    /\ run \in {"queued", "running", "done"} /\ step \in {"pending", "running"} \cup Terminal
    /\ attempt \in 0..Budget /\ epoch \in Nat /\ lease \in {"none", "live", "lapsed", "dead"}
    /\ base \in 0..MaxLaunches
LaunchTypes ==
    /\ launched \in 0..MaxLaunches
    /\ made \in [Launches -> [attempt : 0..Budget, token : Nat, boot : Nat]]
    /\ shim \in [Launches -> {"none", "up", "exited", "killed"}]
    /\ job \in [Launches -> {"none", "up"} \cup Ended]
SpoolTypes ==
    /\ file \in [Attempts -> 0..MaxLaunches] /\ mark \in [Attempts -> BOOLEAN]
    /\ stamped \in [Launches -> BOOLEAN]
DaemonTypes ==
    /\ place \in {"down", "sweep", "list", "spool", "unlink", "reap", "converge", "serve"}
    /\ pass \subseteq Attempts
    /\ drive \in {"idle", "top", "spawn", "wait", "record", "unlink", "owed"}
    /\ token \in Nat /\ mine \in 0..MaxLaunches
    /\ heard \in [from : 0..MaxLaunches, verdict : {"none"} \cup Verdicts]
BootTypes ==
    /\ boot \in Nat /\ bootOnFile \in Nat
    /\ faults \in 0..MaxFaults /\ errors \in 0..MaxErrors
Types == RowTypes /\ LaunchTypes /\ SpoolTypes /\ DaemonTypes /\ BootTypes

(* A drive belongs to a serving daemon that holds the run, and its lease   *)
(* is renewed as long as it lives.                                         *)
DriveHolds ==
    drive # "idle" => place = "serve" /\ run = "running" /\ epoch = token /\ lease = "live"

(* A step that may start has an attempt left; one being launched or waited *)
(* for is running.                                                         *)
StepAttempt ==
    /\ step = "pending" => attempt < Budget
    /\ step = "running" => attempt >= 1
    /\ drive \in {"spawn", "wait", "record"} => step = "running"

(* Nothing lives under a launch not made yet, and each one made was made   *)
(* for a real attempt, on a boot that is on file.                          *)
LaunchesAreReal ==
    \A i \in Launches :
        IF i > launched THEN shim[i] = "none" /\ job[i] = "none"
        ELSE made[i].attempt >= 1 /\ made[i].boot <= bootOnFile
MineIsLaunched == mine <= launched /\ (drive = "wait" => mine >= 1)

(* A file is the result of an ended job, under the number of its attempt.  *)
FilesAreResults ==
    \A a \in Attempts : file[a] # 0 =>
        file[a] <= launched /\ made[file[a]].attempt = a /\ job[file[a]] \in Ended

(* What a drive is about to record is a verdict, and a success was one.    *)
HeardRan ==
    /\ drive = "record" => heard.verdict \in Verdicts
    /\ heard.verdict = "succeeded" => \E i \in Launches : job[i] = "succeeded"

PassHasFiles == \A a \in pass : file[a] # 0 /\ place \in {"spool", "unlink"}

(* A changed boot shows: until the daemon serves, every launch is of an    *)
(* earlier boot, and none of them left a shim.                             *)
NoShim == \A i \in Launches : shim[i] # "up"
BootsAgree ==
    /\ bootOnFile <= boot /\ (place # "down" => bootOnFile = boot)
    /\ place = "down" /\ bootOnFile # boot => NoShim
    /\ changed /\ place \notin {"down", "serve"} =>
          NoShim /\ \A i \in Launches : i <= launched => made[i].boot < bootOnFile

(* While the grace fits the lease, a shim outlives its drive only over a   *)
(* run nobody may take yet, and there is one at a time.                    *)
ShimsArePlaced ==
    GraceFits =>
        /\ \A i \in Launches : shim[i] = "up" =>
              \/ drive = "wait" /\ mine = i
              \/ drive = "idle" /\ run # "queued"
        /\ \A i, j \in Launches : shim[i] = "up" /\ shim[j] = "up" => i = j
        /\ lease \in {"lapsed", "dead"} => NoShim

JobsHaveShims == faults = 0 => \A i \in Launches : job[i] = "up" => shim[i] = "up"

(* A run about to be handed back has had every result of its attempt that  *)
(* the pass is through with taken from the spool.                          *)
ResultsAreKept ==
    GraceFits /\ place \in {"spool", "unlink", "reap"} /\ errors = 0
      /\ step = "running" /\ ReapableAtStart
    => \A a \in Attempts \ pass : file[a] # 0 => ~Current(file[a])

Inv ==
    /\ Types /\ DriveHolds /\ StepAttempt /\ LaunchesAreReal /\ MineIsLaunched
    /\ FilesAreResults /\ HeardRan /\ SucceededRan /\ PassHasFiles
    /\ BootsAgree /\ ShimsArePlaced /\ JobsHaveShims /\ ResultsAreKept

-----------------------------------------------------------------------------
(* What the operators return.                                              *)

(* A verdict read from a result, and what it leaves on the step.           *)
LEMMA VerdictTypes ==
    ASSUME Types
    PROVE  /\ \A i \in Launches : job[i] \in Ended => Said(i) \in Verdicts
           /\ \A i \in Launches : Said(i) = "succeeded" => job[i] = "succeeded"
           /\ \A o \in Verdicts :
                 /\ Settled(o) \in {"pending"} \cup Terminal
                 /\ Settled(o) = "pending" => attempt < Budget
                 /\ Settled(o) = "succeeded" => o = "succeeded"
           /\ \A i \in Launches :
                 /\ NoFileVerdicts(i) \subseteq Verdicts
                 /\ "succeeded" \in NoFileVerdicts(i) => job[i] = "succeeded"
  BY DEF Said, Settled, Verdicts, Terminal, Ended, NoFileVerdicts

(* Killing a group ends a job that was up, and no other.                   *)
LEMMA KillTypes ==
    ASSUME Types, NEW i \in Launches
    PROVE  /\ VerifiedGroupKill(i) \in [Launches -> {"none", "up"} \cup Ended]
           /\ \A k \in Launches :
                 \/ VerifiedGroupKill(i)[k] = job[k]
                 \/ job[k] = "up" /\ VerifiedGroupKill(i)[k] = "signalled"
           /\ Swept \in [Launches -> {"none", "up"} \cup Ended]
           /\ \A k \in Launches :
                 \/ Swept[k] = job[k]
                 \/ job[k] = "up" /\ Swept[k] = "signalled"
<1>1. job \in [Launches -> {"none", "up"} \cup Ended] /\ "signalled" \in Ended
  BY DEF Types, LaunchTypes, Ended
<1>2. QED  BY <1>1 DEF VerifiedGroupKill, Swept, Orphans

(* The step a reap leaves.                                                 *)
LEMMA ReapedTypes ==
    ASSUME Types, Reaped
    PROVE  /\ step' \in {"pending"} \cup Terminal /\ (step' = "pending" => step = "pending" \/ attempt < Budget)
           /\ step' = "succeeded" => step = "succeeded"
           /\ run' \in {"queued", "done"} /\ epoch' = epoch + 1 /\ lease' = "none"
           /\ UNCHANGED <<attempt, base, asked>>
<1>1. Settled("failed") \in {"pending", "failed"} /\ (Settled("failed") = "pending" => attempt < Budget)
  BY DEF Settled
<1>2. QED  BY <1>1 DEF Reaped, Types, RowTypes, Terminal

-----------------------------------------------------------------------------
(* Type correctness, part by part.                                         *)

(* The columns of the run and its step stay in their domains: an attempt   *)
(* is begun only under the budget.                                         *)
LEMMA RowStep ==
    ASSUME Inv, [Next]_vars
    PROVE  RowTypes'
<1>0. RowTypes /\ Types /\ StepAttempt /\ Budget \in Nat
  BY SpoolAssumption DEF Inv, Types
<1>1. CASE UNCHANGED rowVars
  BY <1>0, <1>1 DEF rowVars, RowTypes
<1>2. CASE RequestCancel \/ LeaseElapses
  BY <1>0, <1>2 DEF RequestCancel, LeaseElapses, RowTypes
<1>3. CASE ClaimRuns
  BY <1>0, <1>3 DEF ClaimRuns, RowTypes, Terminal
<1>4. CASE Loop
  BY <1>0, <1>4 DEF Loop, Close, RowTypes, Terminal, StepAttempt
<1>5. CASE RecordAttemptProcess
  BY <1>0, <1>5 DEF RecordAttemptProcess, RowTypes, Types, DaemonTypes
<1>6. CASE RecordStepOutcome
  <2>1. heard.verdict \in Verdicts
    BY <1>6 DEF RecordStepOutcome, Inv, HeardRan
  <2>2. Settled(heard.verdict) \in {"pending"} \cup Terminal
    BY <1>0, <2>1, VerdictTypes
  <2>3. QED  BY <1>0, <1>6, <2>2 DEF RecordStepOutcome, RowTypes
<1>7. CASE DrainRun
  BY <1>0, <1>7 DEF DrainRun, RowTypes, StepAttempt
<1>8. ASSUME NEW a \in Attempts, ConsumeSpoolResult(a)
      PROVE  RowTypes'
  <2>1. CASE step' = step
    BY <1>0, <1>8, <2>1 DEF ConsumeSpoolResult, RowTypes
  <2>2. CASE step' # step
    <3>1. step' = Settled(Said(file[a])) /\ a \in pass
      BY <1>8, <2>2 DEF ConsumeSpoolResult, Archive
    <3>2. file[a] \in Launches /\ job[file[a]] \in Ended
      BY <3>1, SpoolAssumption DEF Inv, Types, SpoolTypes, PassHasFiles, FilesAreResults, Launches
    <3>3. step' \in {"pending"} \cup Terminal
      BY <1>0, <3>1, <3>2, VerdictTypes
    <3>4. QED  BY <1>0, <1>8, <3>3 DEF ConsumeSpoolResult, RowTypes
  <2>3. QED  BY <2>1, <2>2
<1>9. CASE StartupReap \/ ReapExpiredRuns
  <2>1. CASE Reaped
    BY <1>0, <2>1, ReapedTypes DEF RowTypes
  <2>2. QED  BY <1>1, <1>9, <2>1 DEF StartupReap, ReapExpiredRuns
<1>10. CASE ReconcileRunStates
  BY <1>0, <1>10 DEF ReconcileRunStates, RowTypes
<1>11. QED  BY <1>1, <1>2, <1>3, <1>4, <1>5, <1>6, <1>7, <1>8, <1>9, <1>10
  DEF Next, Daemon, Startup, Shims, Stop, Crash, PowerLoss, SpawnViaShim, CancelStep, ReadResult,
      RemoveResult, GiveUp, Exit, PeriodicSweep, StartSession, SweepProcesses, List, RemoveCommitted,
      SpoolPassEnds, SpoolPassFails, StartJob, JobEnds, ShimKills, WriteResult, ShimDies, vars

(* A launch is made once, below the bound, and its shim and job go through *)
(* their states.                                                           *)
LEMMA LaunchStep ==
    ASSUME Inv, [Next]_vars
    PROVE  LaunchTypes'
<1>0. LaunchTypes /\ Types /\ \A i \in Launches : i <= MaxLaunches /\ i >= 1
  BY DEF Inv, Types, Launches
<1>1. CASE UNCHANGED launchVars
  BY <1>0, <1>1 DEF launchVars, LaunchTypes
<1>2. CASE SpawnViaShim
  <2>1. launched + 1 \in Launches /\ launched' = launched + 1 /\ launched' \in 0..MaxLaunches
    BY <1>0, <1>2, SpoolAssumption DEF SpawnViaShim, LaunchTypes, Launches
  <2>2. [attempt |-> attempt, token |-> token, boot |-> boot] \in [attempt : 0..Budget, token : Nat, boot : Nat]
    BY <1>0 DEF Types, RowTypes, DaemonTypes, BootTypes
  <2>3. made' \in [Launches -> [attempt : 0..Budget, token : Nat, boot : Nat]]
    BY <1>0, <1>2, <2>1, <2>2 DEF SpawnViaShim, LaunchTypes
  <2>4. /\ shim' \in [Launches -> {"none", "up", "exited", "killed"}]
        /\ job' \in [Launches -> {"none", "up"} \cup Ended]
    BY <1>0, <1>2, <2>1 DEF SpawnViaShim, LaunchTypes, Ended
  <2>5. QED  BY <2>1, <2>3, <2>4 DEF LaunchTypes
<1>3. CASE ReadResult
  <2>1. UNCHANGED <<launched, made, shim>> /\ (job' = job \/ (job' = VerifiedGroupKill(mine) /\ mine = base))
    BY <1>3 DEF ReadResult
  <2>2. drive = "wait"
    BY <1>3 DEF ReadResult
  <2>3. mine \in Launches
    BY <1>0, <2>2 DEF Inv, MineIsLaunched, Types, DaemonTypes, Launches
  <2>4. QED  BY <1>0, <2>1, <2>3, KillTypes DEF LaunchTypes
<1>4. CASE PeriodicSweep \/ SweepProcesses
  <2>1. UNCHANGED <<launched, made, shim>> /\ job' \in {job, Swept}
    BY <1>4 DEF PeriodicSweep, SweepProcesses
  <2>2. Swept \in [Launches -> {"none", "up"} \cup Ended]
    BY <1>0, SpoolAssumption, KillTypes DEF Launches
  <2>3. QED  BY <1>0, <2>1, <2>2 DEF LaunchTypes
<1>5. CASE PowerLoss
  BY <1>0, <1>5 DEF PowerLoss, LaunchTypes, Ended
<1>6. ASSUME NEW i \in Launches,
             StartJob(i) \/ JobEnds(i) \/ ShimKills(i) \/ WriteResult(i) \/ ShimDies(i)
      PROVE  LaunchTypes'
  <2>1. CASE ShimKills(i)
    BY <1>0, <2>1, KillTypes DEF ShimKills, LaunchTypes
  <2>2. CASE ~ShimKills(i)
    BY <1>0, <1>6, <2>2 DEF StartJob, JobEnds, WriteResult, ShimDies, LaunchTypes, Ended
  <2>3. QED  BY <2>1, <2>2
<1>7. QED  BY <1>1, <1>2, <1>3, <1>4, <1>5, <1>6
  DEF Next, Daemon, Startup, Shims, RequestCancel, Stop, Crash, LeaseElapses, ClaimRuns, Loop,
      RecordAttemptProcess, CancelStep, RecordStepOutcome, RemoveResult, GiveUp, DrainRun, Exit,
      ReapExpiredRuns, StartSession, List, ConsumeSpoolResult, RemoveCommitted, SpoolPassEnds,
      SpoolPassFails, StartupReap, ReconcileRunStates, vars, launchVars

(* A file is put under an attempt's name by a launch and is taken away by  *)
(* its readers.                                                            *)
LEMMA SpoolStep ==
    ASSUME Inv, [Next]_vars
    PROVE  SpoolTypes'
<1>0. SpoolTypes
  BY DEF Inv, Types
<1>1. CASE UNCHANGED spoolVars
  BY <1>0, <1>1 DEF spoolVars, SpoolTypes
<1>2. ASSUME NEW a, Remove(a), UNCHANGED stamped
      PROVE  SpoolTypes'
  <2>1. file' = [file EXCEPT ![a] = 0] /\ mark' = [mark EXCEPT ![a] = FALSE]
    BY <1>2 DEF Remove, ClearCancelMark
  <2>2. file' \in [Attempts -> 0..MaxLaunches]
    <3>1. 0 \in 0..MaxLaunches
      BY SpoolAssumption
    <3>2. QED  BY <1>0, <2>1, <3>1 DEF SpoolTypes
  <2>3. PICK m \in BOOLEAN : mark' = [mark EXCEPT ![a] = m]
    BY <2>1
  <2>4. mark' \in [Attempts -> BOOLEAN]
    BY <1>0, <2>3 DEF SpoolTypes
  <2>5. QED  BY <1>0, <1>2, <2>2, <2>4 DEF SpoolTypes
<1>3. CASE CancelStep \/ ReadResult
  <2>1. UNCHANGED <<file, stamped>> /\ \E m \in BOOLEAN : mark' = [mark EXCEPT ![attempt] = m]
    BY <1>3 DEF CancelStep, ReadResult, MarkCancel, ClearCancelMark
  <2>2. PICK m \in BOOLEAN : mark' = [mark EXCEPT ![attempt] = m]
    BY <2>1
  <2>3. mark' \in [Attempts -> BOOLEAN]
    BY <1>0, <2>2 DEF SpoolTypes
  <2>4. QED  BY <1>0, <2>1, <2>3 DEF SpoolTypes
<1>4. CASE RemoveResult \/ RemoveCommitted
  BY <1>2, <1>4 DEF RemoveResult, RemoveCommitted
<1>5. ASSUME NEW a \in Attempts, ConsumeSpoolResult(a)
      PROVE  SpoolTypes'
  BY <1>1, <1>2, <1>5 DEF ConsumeSpoolResult, Archive, spoolVars
<1>6. ASSUME NEW i \in Launches, WriteResult(i)
      PROVE  SpoolTypes'
  <2>1. i \in 0..MaxLaunches
    BY DEF Launches
  <2>2. file' \in [Attempts -> 0..MaxLaunches] /\ mark' = mark
    BY <1>0, <1>6, <2>1 DEF WriteResult, SpoolTypes
  <2>3. (job[i] = "signalled" /\ CancelMarked(made[i].attempt)) \in BOOLEAN
    OBVIOUS
  <2>4. stamped' = [stamped EXCEPT ![i] = job[i] = "signalled" /\ CancelMarked(made[i].attempt)]
    BY <1>6 DEF WriteResult
  <2>5. stamped' \in [Launches -> BOOLEAN]
    BY <1>0, <2>3, <2>4 DEF SpoolTypes
  <2>6. QED  BY <1>0, <2>2, <2>5 DEF SpoolTypes
<1>7. CASE PowerLoss
  <2>1. PICK left \in SUBSET Attempts : mark' = [a \in Attempts |-> mark[a] /\ a \in left]
    BY <1>7 DEF PowerLoss
  <2>2. mark' \in [Attempts -> BOOLEAN]
    BY <2>1
  <2>3. QED  BY <1>0, <1>7, <2>2 DEF PowerLoss, SpoolTypes
<1>8. QED  BY <1>1, <1>2, <1>3, <1>4, <1>5, <1>6, <1>7
  DEF Next, Daemon, Startup, Shims, RequestCancel, Stop, Crash, LeaseElapses, ClaimRuns, Loop,
      SpawnViaShim, RecordAttemptProcess, RecordStepOutcome, GiveUp, DrainRun, Exit,
      ReapExpiredRuns, PeriodicSweep, StartSession, SweepProcesses, List, SpoolPassEnds,
      SpoolPassFails, StartupReap, ReconcileRunStates, StartJob, JobEnds, ShimKills, ShimDies,
      vars, spoolVars

(* The daemon's place, its drive and what it heard stay in their domains.  *)
LEMMA DaemonStep ==
    ASSUME Inv, [Next]_vars
    PROVE  DaemonTypes'
<1>0. DaemonTypes /\ BootTypes /\ Types
  BY DEF Inv, Types
<1>d. Down => DaemonTypes'
  BY SpoolAssumption DEF Down, Returned, DaemonTypes
<1>1. CASE UNCHANGED daemonVars
  BY <1>0, <1>1 DEF daemonVars, driveVars, spawnVars, DaemonTypes
<1>2. CASE Crash \/ PowerLoss \/ Exit
  BY <1>d, <1>2 DEF Crash, PowerLoss, Exit
<1>3. CASE Stop \/ CancelStep \/ ClaimRuns \/ Loop \/ RemoveResult \/ DrainRun
  BY <1>0, <1>3 DEF Stop, CancelStep, ClaimRuns, Loop, Close, RemoveResult, DrainRun, spawnVars,
     DaemonTypes, Types, RowTypes
<1>4. CASE RecordStepOutcome \/ GiveUp
  BY <1>0, <1>4, SpoolAssumption DEF RecordStepOutcome, GiveUp, Returned, DaemonTypes
<1>5. CASE SpawnViaShim
  <2>1. launched + 1 \in 0..MaxLaunches
    BY <1>0, <1>5, SpoolAssumption DEF SpawnViaShim, Types, LaunchTypes
  <2>2. QED  BY <1>0, <1>5, <2>1 DEF SpawnViaShim, DaemonTypes, Verdicts
<1>6. CASE ReadResult
  <2>1. drive = "wait" /\ attempt \in Attempts /\ mine \in Launches
    BY <1>0, <1>6 DEF ReadResult, Inv, StepAttempt, MineIsLaunched, Types, RowTypes, DaemonTypes, Attempts, Launches
  <2>2. file[attempt] # 0 => file[attempt] \in Launches /\ job[file[attempt]] \in Ended
    BY <1>0, <2>1 DEF Inv, FilesAreResults, Types, SpoolTypes, Launches
  <2>3. heard' \in [from : 0..MaxLaunches, verdict : {"none"} \cup Verdicts]
    <3>1. CASE file[attempt] # 0
      <4>1. Said(file[attempt]) \in Verdicts /\ file[attempt] \in 0..MaxLaunches
        BY <1>0, <2>2, <3>1, VerdictTypes DEF Launches
      <4>2. QED  BY <1>6, <3>1, <4>1 DEF ReadResult
    <3>2. CASE file[attempt] = 0
      <4>1. PICK o \in NoFileVerdicts(mine) : heard' = [from |-> mine, verdict |-> o]
        BY <1>6, <3>2 DEF ReadResult
      <4>2. o \in Verdicts /\ mine \in 0..MaxLaunches
        BY <1>0, <2>1, <4>1, VerdictTypes DEF Launches
      <4>3. QED  BY <4>1, <4>2
    <3>3. QED  BY <3>1, <3>2
  <2>4. QED  BY <1>0, <1>6, <2>3 DEF ReadResult, DaemonTypes
<1>7. CASE \/ StartSession \/ SweepProcesses \/ List \/ RemoveCommitted \/ SpoolPassEnds
           \/ SpoolPassFails \/ StartupReap \/ ReconcileRunStates
  BY <1>0, <1>7 DEF StartSession, SweepProcesses, AfterSweep, List, RemoveCommitted, SpoolPassEnds,
     SpoolPassFails, StartupReap, ReconcileRunStates, driveVars, spawnVars, DaemonTypes
<1>8. ASSUME NEW a \in Attempts, ConsumeSpoolResult(a)
      PROVE  DaemonTypes'
  BY <1>0, <1>8 DEF ConsumeSpoolResult, Archive, driveVars, spawnVars, DaemonTypes
<1>9. QED
  BY <1>1, <1>2, <1>3, <1>4, <1>5, <1>6, <1>7, <1>8
  DEF Next, Daemon, Startup, Shims, RequestCancel, LeaseElapses, RecordAttemptProcess, ReapExpiredRuns,
      PeriodicSweep, StartJob, JobEnds, ShimKills, WriteResult, ShimDies, vars

(* Boot ids and the counts of faults and errors only grow.                 *)
LEMMA BootStep ==
    ASSUME Inv, [Next]_vars
    PROVE  BootTypes'
<1>1. BootTypes
  BY DEF Inv, Types
<1>2. /\ boot' \in {boot, boot + 1} /\ bootOnFile' \in {bootOnFile, boot}
      /\ faults' = faults \/ (faults < MaxFaults /\ faults' = faults + 1)
      /\ errors' = errors \/ (errors < MaxErrors /\ errors' = errors + 1)
  BY DEF Next, Daemon, Startup, Shims, RequestCancel, Stop, Crash, PowerLoss, LeaseElapses, ClaimRuns, Loop,
      SpawnViaShim, RecordAttemptProcess, CancelStep, ReadResult, RecordStepOutcome, RemoveResult, GiveUp,
      DrainRun, Exit, ReapExpiredRuns, PeriodicSweep, StartSession, SweepProcesses, List,
      ConsumeSpoolResult, RemoveCommitted, SpoolPassEnds, SpoolPassFails, StartupReap, ReconcileRunStates,
      StartJob, JobEnds, ShimKills, WriteResult, ShimDies, vars, bootVars
<1>3. QED  BY <1>1, <1>2, SpoolAssumption DEF BootTypes

(* Every step keeps the types.                                             *)
LEMMA TypesStep ==
    ASSUME Inv, [Next]_vars
    PROVE  Types'
  BY RowStep, LaunchStep, SpoolStep, DaemonStep, BootStep DEF Types

-----------------------------------------------------------------------------
(* Who moves what.                                                         *)

(* Launches are made by the drive alone, one after the other.              *)
LEMMA LaunchesGrow ==
    ASSUME Inv, [Next]_vars
    PROVE  UNCHANGED <<launched, made>> \/ SpawnViaShim
  BY DEF Next, Daemon, Startup, Shims, RequestCancel, Stop, Crash, PowerLoss, LeaseElapses, ClaimRuns,
     Loop, RecordAttemptProcess, CancelStep, ReadResult, RecordStepOutcome, RemoveResult, GiveUp,
     DrainRun, Exit, ReapExpiredRuns, PeriodicSweep, StartSession, SweepProcesses, List,
     ConsumeSpoolResult, RemoveCommitted, SpoolPassEnds, SpoolPassFails, StartupReap,
     ReconcileRunStates, StartJob, JobEnds, ShimKills, WriteResult, ShimDies, vars, launchVars

(* A shim starts with its launch, and ends by itself, lost, or with the    *)
(* machine.                                                                *)
LEMMA ShimsMove ==
    ASSUME Inv, [Next]_vars
    PROVE  \/ UNCHANGED shim \/ SpawnViaShim \/ PowerLoss
           \/ \E i \in Launches : WriteResult(i) \/ ShimDies(i)
  BY DEF Next, Daemon, Startup, Shims, RequestCancel, Stop, Crash, LeaseElapses, ClaimRuns,
     Loop, RecordAttemptProcess, CancelStep, ReadResult, RecordStepOutcome, RemoveResult, GiveUp,
     DrainRun, Exit, ReapExpiredRuns, PeriodicSweep, StartSession, SweepProcesses, List,
     ConsumeSpoolResult, RemoveCommitted, SpoolPassEnds, SpoolPassFails, StartupReap,
     ReconcileRunStates, StartJob, JobEnds, ShimKills, vars, launchVars

(* The jobs after a step: an ended job stays as it ended, none leaves the  *)
(* state of a job that is up but to end, and one starts under its shim.    *)
LEMMA JobsMove ==
    ASSUME Inv, [Next]_vars
    PROVE  \A k \in Launches :
               \/ job'[k] = job[k]
               \/ job[k] = "up" /\ job'[k] \in Ended
               \/ job[k] = "none" /\ shim[k] = "up" /\ shim'[k] = "up"
               \/ job[k] = "none" /\ SpawnViaShim /\ k = launched + 1 /\ job'[k] = "failed"
<1>0. Types /\ LaunchTypes /\ LaunchesAreReal
  BY DEF Inv, Types
<1>1. CASE SpawnViaShim
  <2>1. launched + 1 \in Launches /\ job[launched + 1] = "none"
    BY <1>0, <1>1, SpoolAssumption DEF SpawnViaShim, LaunchTypes, Launches, LaunchesAreReal
  <2>2. job' = job \/ job' = [job EXCEPT ![launched + 1] = "failed"]
    BY <1>1 DEF SpawnViaShim
  <2>3. QED  BY <1>0, <1>1, <2>1, <2>2 DEF LaunchTypes
<1>2. CASE ReadResult
  <2>1. job' = job \/ job' = VerifiedGroupKill(mine)
    BY <1>2 DEF ReadResult
  <2>2. mine \in Launches
    BY <1>0, <1>2 DEF ReadResult, Inv, MineIsLaunched, Types, DaemonTypes, Launches
  <2>3. QED  BY <1>0, <2>1, <2>2, KillTypes DEF Ended
<1>3. CASE PeriodicSweep \/ SweepProcesses
  <2>1. job' = job \/ job' = Swept
    BY <1>3 DEF PeriodicSweep, SweepProcesses
  <2>2. 1 \in Launches
    BY SpoolAssumption DEF Launches
  <2>3. QED  BY <1>0, <2>1, <2>2, KillTypes DEF Ended
<1>4. CASE PowerLoss
  BY <1>0, <1>4 DEF PowerLoss, LaunchTypes, Ended
<1>5. ASSUME NEW i \in Launches, StartJob(i) \/ JobEnds(i)
      PROVE  \A k \in Launches :
               \/ job'[k] = job[k]
               \/ job[k] = "up" /\ job'[k] \in Ended
               \/ job[k] = "none" /\ shim[k] = "up" /\ shim'[k] = "up"
  BY <1>0, <1>5 DEF StartJob, JobEnds, LaunchTypes, Ended
<1>6. ASSUME NEW i \in Launches, ShimKills(i)
      PROVE  \A k \in Launches : job'[k] = job[k] \/ (job[k] = "up" /\ job'[k] \in Ended)
  BY <1>0, <1>6, KillTypes DEF ShimKills, Ended
<1>7. CASE UNCHANGED job
  BY <1>7
<1>8. QED  BY <1>1, <1>2, <1>3, <1>4, <1>5, <1>6, <1>7
  DEF Next, Daemon, Startup, Shims, RequestCancel, Stop, Crash, LeaseElapses, ClaimRuns,
     Loop, RecordAttemptProcess, CancelStep, RecordStepOutcome, RemoveResult, GiveUp,
     DrainRun, Exit, ReapExpiredRuns, StartSession, List, ConsumeSpoolResult, RemoveCommitted,
     SpoolPassEnds, SpoolPassFails, StartupReap, ReconcileRunStates, WriteResult, ShimDies,
     vars, launchVars

(* A file is dropped by the drive or by the start-up pass, and written by  *)
(* the shim that leaves.                                                   *)
LEMMA FilesMove ==
    ASSUME Inv, [Next]_vars
    PROVE  \/ UNCHANGED file
           \/ RemoveResult /\ file' = [file EXCEPT ![attempt] = 0]
           \/ RemoveCommitted /\ file' = [file EXCEPT ![attempt] = 0]
           \/ \E a \in Attempts :
                 ConsumeSpoolResult(a) /\ pass' = pass \ {a} /\ file' = [file EXCEPT ![a] = 0]
           \/ \E i \in Launches : WriteResult(i)
  BY DEF Next, Daemon, Startup, Shims, RequestCancel, Stop, Crash, PowerLoss, LeaseElapses, ClaimRuns,
     Loop, SpawnViaShim, RecordAttemptProcess, CancelStep, ReadResult, RecordStepOutcome, RemoveResult,
     GiveUp, DrainRun, Exit, ReapExpiredRuns, PeriodicSweep, StartSession, SweepProcesses, List,
     ConsumeSpoolResult, Archive, Remove, RemoveCommitted, SpoolPassEnds, SpoolPassFails, StartupReap,
     ReconcileRunStates, StartJob, JobEnds, ShimKills, ShimDies, vars, spoolVars

-----------------------------------------------------------------------------
(* The drive and its step.                                                 *)

(* Nobody takes the run from a living drive: its lease is live.            *)
LEMMA DriveHoldsStep ==
    ASSUME Inv, [Next]_vars
    PROVE  DriveHolds'
<1>0. DriveHolds
  BY DEF Inv
<1>1. CASE ClaimRuns \/ Loop \/ DrainRun
  BY <1>0, <1>1 DEF DriveHolds, ClaimRuns, Loop, Close, DrainRun, Serving
<1>2. CASE SpawnViaShim \/ ReadResult \/ RecordStepOutcome \/ RemoveResult \/ GiveUp
  BY <1>0, <1>2 DEF DriveHolds, SpawnViaShim, ReadResult, RecordStepOutcome, RemoveResult, GiveUp,
     rowVars, spawnVars
<1>3. CASE Exit \/ Crash \/ PowerLoss
  BY <1>3 DEF DriveHolds, Exit, Crash, PowerLoss, Down
<1>4. CASE LeaseElapses \/ ReapExpiredRuns \/ ReconcileRunStates \/ RecordAttemptProcess \/ RequestCancel
           \/ Stop \/ CancelStep
  BY <1>0, <1>4 DEF DriveHolds, LeaseElapses, ReapExpiredRuns, ReconcileRunStates, Converged,
     RecordAttemptProcess, RequestCancel, Stop, CancelStep, rowVars, daemonVars, driveVars
<1>5. CASE UNCHANGED drive /\ place # "serve"
  BY <1>0, <1>5 DEF DriveHolds
<1>6. CASE UNCHANGED <<rowVars, drive, token, place>>
  BY <1>0, <1>6 DEF DriveHolds, rowVars
<1>7. QED  BY <1>1, <1>2, <1>3, <1>4, <1>5, <1>6
  DEF Next, Daemon, Startup, Shims, PeriodicSweep, StartSession, SweepProcesses, List,
     ConsumeSpoolResult, RemoveCommitted, SpoolPassEnds, SpoolPassFails, StartupReap,
     StartJob, JobEnds, ShimKills, WriteResult, ShimDies, vars, daemonVars, driveVars

(* A step goes back to pending only with an attempt left.                  *)
LEMMA StepAttemptStep ==
    ASSUME Inv, [Next]_vars
    PROVE  StepAttempt'
<1>0. /\ StepAttempt /\ Types /\ DriveHolds /\ HeardRan
      /\ attempt \in 0..Budget /\ Budget \in Nat \ {0}
  BY SpoolAssumption DEF Inv, Types, RowTypes
<1>1. CASE Loop
  BY <1>0, <1>1 DEF StepAttempt, Loop, Close, Terminal
<1>2. CASE RecordStepOutcome
  <2>1. /\ Settled(heard.verdict) \in {"pending"} \cup Terminal
        /\ Settled(heard.verdict) = "pending" => attempt < Budget
    BY <1>0, <1>2, VerdictTypes DEF RecordStepOutcome, HeardRan
  <2>2. QED  BY <1>0, <1>2, <2>1 DEF StepAttempt, RecordStepOutcome, Terminal
<1>3. CASE DrainRun
  BY <1>0, <1>3 DEF StepAttempt, DrainRun
<1>4. ASSUME NEW a \in Attempts, ConsumeSpoolResult(a), step' # step
      PROVE  StepAttempt'
  <2>1. step' = Settled(Said(file[a])) /\ a \in pass /\ UNCHANGED <<drive, attempt>>
    BY <1>4 DEF ConsumeSpoolResult, Archive, driveVars
  <2>2. file[a] \in Launches /\ job[file[a]] \in Ended /\ place # "serve"
    BY <2>1, SpoolAssumption DEF Inv, Types, SpoolTypes, PassHasFiles, FilesAreResults, Launches
  <2>3. step' \in {"pending"} \cup Terminal /\ (step' = "pending" => attempt < Budget)
    BY <1>0, <2>1, <2>2, VerdictTypes
  <2>4. drive' = "idle"
    BY <1>0, <2>1, <2>2 DEF DriveHolds
  <2>5. QED  BY <2>1, <2>3, <2>4 DEF StepAttempt, Terminal
<1>5. CASE Reaped /\ drive' = "idle"
  BY <1>0, <1>5, ReapedTypes DEF StepAttempt, Terminal
<1>6. CASE (StartupReap \/ ReapExpiredRuns) /\ Reaped
  BY <1>0, <1>5, <1>6 DEF DriveHolds, StartupReap, ReapExpiredRuns, daemonVars, driveVars
<1>7. CASE UNCHANGED <<step, attempt>> /\ (UNCHANGED drive \/ drive' \notin {"spawn", "wait", "record"})
  BY <1>0, <1>7 DEF StepAttempt
<1>8. CASE UNCHANGED <<step, attempt>> /\ drive \in {"spawn", "wait"}
  BY <1>0, <1>8 DEF StepAttempt
<1>9. CASE ClaimRuns
  BY <1>0, <1>9 DEF StepAttempt, ClaimRuns
<1>10. QED  BY <1>1, <1>2, <1>3, <1>4, <1>6, <1>7, <1>8, <1>9
  DEF Next, Daemon, Startup, Shims, RequestCancel, Stop, Crash, PowerLoss, Exit, Down, LeaseElapses,
     SpawnViaShim, RecordAttemptProcess, CancelStep, ReadResult, RemoveResult, GiveUp,
     ReapExpiredRuns, PeriodicSweep, StartSession, SweepProcesses, List, ConsumeSpoolResult,
     RemoveCommitted, SpoolPassEnds, SpoolPassFails, StartupReap, ReconcileRunStates, StartJob, JobEnds,
     ShimKills, WriteResult, ShimDies, vars, rowVars, daemonVars, driveVars

(* The drive's own launch is one that was made.                            *)
LEMMA MineIsLaunchedStep ==
    ASSUME Inv, [Next]_vars
    PROVE  MineIsLaunched'
<1>0. MineIsLaunched /\ launched \in 0..MaxLaunches
  BY DEF Inv, Types, LaunchTypes
<1>1. CASE SpawnViaShim
  BY <1>0, <1>1 DEF MineIsLaunched, SpawnViaShim
<1>2. CASE launched' = launched /\ mine' = mine /\ (drive' = drive \/ drive' # "wait")
  BY <1>0, <1>2 DEF MineIsLaunched
<1>3. CASE launched' = launched /\ mine' = 0 /\ drive' # "wait"
  BY <1>0, <1>3 DEF MineIsLaunched
<1>4. QED  BY <1>1, <1>2, <1>3
  DEF Next, Daemon, Startup, Shims, RequestCancel, Stop, Crash, PowerLoss, Exit, Down, Returned,
     LeaseElapses, ClaimRuns, Loop, Close, RecordAttemptProcess, CancelStep, ReadResult, RecordStepOutcome,
     RemoveResult, GiveUp, DrainRun, ReapExpiredRuns, PeriodicSweep, StartSession, SweepProcesses, List,
     ConsumeSpoolResult, RemoveCommitted, SpoolPassEnds, SpoolPassFails, StartupReap,
     ReconcileRunStates, StartJob, JobEnds, ShimKills, WriteResult, ShimDies, vars, launchVars,
     daemonVars, driveVars, spawnVars

-----------------------------------------------------------------------------
(* The launches and what they leave.                                       *)

(* The machine restarts with the power, and a new session notes it.        *)
LEMMA BootsMove ==
    ASSUME Inv, [Next]_vars
    PROVE  /\ UNCHANGED boot \/ PowerLoss
           /\ UNCHANGED <<bootOnFile, changed>> \/ StartSession
<1>1. CASE PowerLoss
  BY <1>1 DEF PowerLoss
<1>2. CASE StartSession
  BY <1>2 DEF StartSession
<1>3. CASE ~PowerLoss /\ ~StartSession
  <2>1. UNCHANGED bootVars
    BY <1>3 DEF Next, Daemon, Startup, Shims, RequestCancel, Stop, Crash, Exit, LeaseElapses,
       ClaimRuns, Loop, SpawnViaShim, RecordAttemptProcess, CancelStep, ReadResult, RecordStepOutcome,
       RemoveResult, GiveUp, DrainRun, ReapExpiredRuns, PeriodicSweep, SweepProcesses, List,
       ConsumeSpoolResult, RemoveCommitted, SpoolPassEnds, SpoolPassFails, StartupReap,
       ReconcileRunStates, StartJob, JobEnds, ShimKills, WriteResult, ShimDies, vars
  <2>2. QED  BY <2>1 DEF bootVars
<1>4. QED  BY <1>1, <1>2, <1>3

(* A daemon comes up through a new session only, and serves until it goes  *)
(* down.                                                                   *)
LEMMA PlaceMoves ==
    ASSUME Inv, [Next]_vars, ~StartSession
    PROVE  /\ place' # "down" => place # "down"
           /\ place' \notin {"down", "serve"} => place \notin {"down", "serve"}
<1>1. CASE UNCHANGED place \/ place' = "down"
  BY <1>1
<1>2. CASE place \notin {"down", "serve"} \/ (place = "serve" /\ place' = "serve")
  BY <1>2
<1>3. QED  BY <1>1, <1>2
  DEF Next, Daemon, Startup, Shims, RequestCancel, Stop, Crash, PowerLoss, Exit, Down, LeaseElapses,
     ClaimRuns, Loop, SpawnViaShim, RecordAttemptProcess, CancelStep, ReadResult, RecordStepOutcome,
     RemoveResult, GiveUp, DrainRun, ReapExpiredRuns, PeriodicSweep, SweepProcesses, List,
     ConsumeSpoolResult, RemoveCommitted, SpoolPassEnds, SpoolPassFails, StartupReap,
     ReconcileRunStates, StartJob, JobEnds, ShimKills, WriteResult, ShimDies, vars, daemonVars

(* No shim comes up but by a launch.                                       *)
LEMMA ShimsFade ==
    ASSUME Inv, [Next]_vars, ~SpawnViaShim
    PROVE  \A i \in Launches : shim'[i] \in {"up", "none"} => shim'[i] = shim[i]
<1>0. LaunchTypes
  BY DEF Inv, Types
<1>1. CASE UNCHANGED shim
  BY <1>1
<1>2. CASE PowerLoss
  BY <1>0, <1>2 DEF PowerLoss
<1>3. ASSUME NEW k \in Launches, WriteResult(k) \/ ShimDies(k)
      PROVE  \A i \in Launches : shim'[i] \in {"up", "none"} => shim'[i] = shim[i]
  BY <1>0, <1>3 DEF WriteResult, ShimDies, LaunchTypes
<1>4. QED  BY <1>1, <1>2, <1>3, ShimsMove

(* A launch is made for the attempt that is running, on the boot on file.  *)
LEMMA LaunchesAreRealStep ==
    ASSUME Inv, [Next]_vars
    PROVE  LaunchesAreReal'
<1>0. /\ LaunchesAreReal /\ LaunchTypes /\ boot \in Nat /\ bootOnFile \in Nat
      /\ Launches \subseteq Nat /\ launched \in 0..MaxLaunches
  BY DEF Inv, Types, LaunchTypes, BootTypes, Launches
<1>1. bootOnFile' \in Nat /\ bootOnFile' >= bootOnFile
  <2>1. bootOnFile <= boot
    BY DEF Inv, BootsAgree
  <2>2. QED  BY <1>0, <2>1, BootsMove DEF StartSession
<1>2. CASE SpawnViaShim
  <2>1. drive = "spawn" /\ attempt >= 1 /\ boot = bootOnFile
    BY <1>2 DEF SpawnViaShim, Serving, Inv, StepAttempt, BootsAgree
  <2>2. launched + 1 \in Launches /\ launched' = launched + 1
    BY <1>0, <1>2, SpoolAssumption DEF SpawnViaShim, Launches
  <2>3. made' = [made EXCEPT ![launched + 1] = [attempt |-> attempt, token |-> token, boot |-> boot]]
    BY <1>2 DEF SpawnViaShim
  <2>4. made'[launched + 1].attempt >= 1 /\ made'[launched + 1].boot <= bootOnFile'
    BY <1>0, <1>1, <2>1, <2>2, <2>3 DEF LaunchTypes
  <2>5. \A k \in Launches : k # launched + 1 =>
             made'[k] = made[k] /\ shim'[k] = shim[k] /\ job'[k] = job[k]
    BY <1>0, <1>2, <2>2, <2>3 DEF SpawnViaShim, LaunchTypes
  <2>6. ASSUME NEW k \in Launches
        PROVE  IF k > launched' THEN shim'[k] = "none" /\ job'[k] = "none"
               ELSE made'[k].attempt >= 1 /\ made'[k].boot <= bootOnFile'
    <3>1. CASE k = launched + 1
      BY <1>0, <2>2, <2>4, <3>1
    <3>2. CASE k # launched + 1
      <4>1. k > launched' => k > launched
        BY <1>0, <2>2, <2>6
      <4>2. ~(k > launched') => ~(k > launched)
        BY <1>0, <2>2, <2>6, <3>2
      <4>3. ~(k > launched) => made[k].attempt >= 1 /\ made[k].boot <= bootOnFile /\ made[k].boot \in Nat
        BY <1>0, <2>6 DEF LaunchesAreReal, LaunchTypes
      <4>4. QED  BY <1>0, <1>1, <2>5, <2>6, <3>2, <4>1, <4>2, <4>3 DEF LaunchesAreReal
    <3>3. QED  BY <3>1, <3>2
  <2>7. QED  BY <2>6 DEF LaunchesAreReal
<1>3. CASE ~SpawnViaShim
  <2>1. UNCHANGED <<launched, made>>
    BY <1>3, LaunchesGrow
  <2>2. \A k \in Launches : shim[k] = "none" => shim'[k] = "none"
    <3>1. CASE UNCHANGED shim
      BY <3>1
    <3>2. CASE PowerLoss
      BY <1>0, <3>2 DEF PowerLoss
    <3>3. ASSUME NEW i \in Launches, WriteResult(i) \/ ShimDies(i)
          PROVE  \A k \in Launches : shim[k] = "none" => shim'[k] = "none"
      BY <1>0, <3>3 DEF WriteResult, ShimDies, LaunchTypes
    <3>4. QED  BY <1>3, <3>1, <3>2, <3>3, ShimsMove
  <2>3. \A k \in Launches : job[k] = "none" /\ shim[k] = "none" => job'[k] = "none"
    BY <1>3, JobsMove
  <2>4. ASSUME NEW k \in Launches
        PROVE  IF k > launched' THEN shim'[k] = "none" /\ job'[k] = "none"
               ELSE made'[k].attempt >= 1 /\ made'[k].boot <= bootOnFile'
    <3>1. made[k].boot \in Nat
      BY <1>0 DEF LaunchTypes
    <3>2. QED  BY <1>0, <1>1, <2>1, <2>2, <2>3, <3>1 DEF LaunchesAreReal
  <2>5. QED  BY <2>4 DEF LaunchesAreReal
<1>4. QED  BY <1>2, <1>3

(* A result stays one: its launch was made, and its job has ended.         *)
LEMMA ResultsStay ==
    ASSUME Inv, [Next]_vars, NEW i \in Launches, i <= launched, job[i] \in Ended
    PROVE  i <= launched' /\ made'[i] = made[i] /\ job'[i] = job[i]
<1>1. LaunchTypes /\ launched \in Nat /\ i \in Nat
  BY DEF Inv, Types, LaunchTypes, Launches
<1>2. i <= launched' /\ made'[i] = made[i]
  BY <1>1, LaunchesGrow DEF SpawnViaShim, LaunchTypes
<1>3. job'[i] = job[i]
  BY JobsMove DEF Ended
<1>4. QED  BY <1>2, <1>3

(* A file under an attempt's name is written after the end of a job made   *)
(* for that attempt.                                                       *)
LEMMA FilesAreResultsStep ==
    ASSUME Inv, [Next]_vars
    PROVE  FilesAreResults'
<1>0. FilesAreResults /\ LaunchTypes /\ SpoolTypes /\ LaunchesAreReal
  BY DEF Inv, Types
<1>1. \A a \in Attempts : file[a] # 0 => file[a] \in Launches
  BY <1>0, SpoolAssumption DEF SpoolTypes, Launches
<1>2. \A i \in Launches : i <= launched /\ job[i] \in Ended =>
          i <= launched' /\ made'[i] = made[i] /\ job'[i] = job[i]
  BY ResultsStay
<1>3. CASE \A a \in Attempts : file'[a] \in {0, file[a]}
  BY <1>0, <1>1, <1>2, <1>3 DEF FilesAreResults
<1>4. ASSUME NEW i \in Launches, WriteResult(i)
      PROVE  FilesAreResults'
  <2>1. i \in Nat /\ launched \in Nat /\ made[i].attempt \in 0..Budget
    BY <1>0 DEF LaunchTypes, Launches
  <2>2. i <= launched /\ made[i].attempt >= 1 /\ job[i] \in Ended
    BY <1>0, <1>4, <2>1 DEF WriteResult, LaunchesAreReal
  <2>3. made[i].attempt \in Attempts /\ file' = [file EXCEPT ![made[i].attempt] = i]
    BY <1>4, <2>1, <2>2, SpoolAssumption DEF WriteResult, Attempts
  <2>4. ASSUME NEW a \in Attempts, file'[a] # 0
        PROVE  file'[a] <= launched' /\ made'[file'[a]].attempt = a /\ job'[file'[a]] \in Ended
    <3>1. CASE a = made[i].attempt
      BY <1>0, <1>2, <2>2, <2>3, <3>1 DEF SpoolTypes
    <3>2. CASE a # made[i].attempt
      BY <1>0, <1>1, <1>2, <2>3, <2>4, <3>2 DEF SpoolTypes, FilesAreResults
    <3>3. QED  BY <3>1, <3>2
  <2>5. QED  BY <2>4 DEF FilesAreResults
<1>5. (~\E i \in Launches : WriteResult(i)) => \A a \in Attempts : file'[a] \in {0, file[a]}
  BY <1>0, FilesMove DEF SpoolTypes
<1>6. QED  BY <1>3, <1>4, <1>5

(* A job that ran to success stays one that did.                           *)
LEMMA SuccessStays ==
    ASSUME Inv, [Next]_vars, \E i \in Launches : job[i] = "succeeded"
    PROVE  \E i \in Launches : job'[i] = "succeeded"
  BY JobsMove

(* What the drive hears is what an ended job said, or no success.          *)
LEMMA HeardRanStep ==
    ASSUME Inv, [Next]_vars
    PROVE  HeardRan'
<1>0. HeardRan /\ Types
  BY DEF Inv
<1>1. CASE UNCHANGED heard /\ (UNCHANGED drive \/ drive' # "record")
  BY <1>0, <1>1, SuccessStays DEF HeardRan
<1>2. CASE heard'.verdict = "none" /\ drive' # "record"
  BY <1>2 DEF HeardRan
<1>3. CASE heard'.verdict = "failed"
  BY <1>3 DEF HeardRan, Verdicts
<1>4. CASE ReadResult
  <2>1. drive = "wait" /\ attempt \in Attempts /\ mine \in Launches
    BY <1>0, <1>4 DEF ReadResult, Inv, StepAttempt, MineIsLaunched, Types, RowTypes, DaemonTypes, Attempts, Launches
  <2>2. heard'.verdict \in Verdicts
        /\ (heard'.verdict = "succeeded" => \E i \in Launches : job[i] = "succeeded")
    <3>1. CASE file[attempt] # 0
      <4>1. file[attempt] \in Launches /\ job[file[attempt]] \in Ended
        BY <1>0, <2>1, <3>1, SpoolAssumption DEF Inv, FilesAreResults, Types, SpoolTypes, Launches
      <4>2. heard'.verdict = Said(file[attempt])
        BY <1>4, <3>1 DEF ReadResult
      <4>3. QED  BY <1>0, <4>1, <4>2, VerdictTypes
    <3>2. CASE file[attempt] = 0
      <4>1. PICK o \in NoFileVerdicts(mine) : heard' = [from |-> mine, verdict |-> o]
        BY <1>4, <3>2 DEF ReadResult
      <4>2. QED  BY <1>0, <2>1, <4>1, VerdictTypes
    <3>3. QED  BY <3>1, <3>2
  <2>3. QED  BY <2>2, SuccessStays DEF HeardRan
<1>5. QED  BY <1>1, <1>2, <1>3, <1>4
  DEF Next, Daemon, Startup, Shims, RequestCancel, Stop, Crash, PowerLoss, Exit, Down, Returned,
     LeaseElapses, ClaimRuns, Loop, Close, SpawnViaShim, RecordAttemptProcess, CancelStep,
     RecordStepOutcome, RemoveResult, GiveUp, DrainRun, ReapExpiredRuns, PeriodicSweep, StartSession,
     SweepProcesses, List, ConsumeSpoolResult, RemoveCommitted, SpoolPassEnds, SpoolPassFails,
     StartupReap, ReconcileRunStates, StartJob, JobEnds, ShimKills, WriteResult, ShimDies, vars,
     daemonVars, driveVars, spawnVars

(* Neither the drive nor a spool commit records a success nobody had.      *)
LEMMA SucceededRanStep ==
    ASSUME Inv, [Next]_vars
    PROVE  SucceededRan'
<1>0. SucceededRan /\ Types /\ HeardRan
  BY DEF Inv
<1>1. CASE step' = step \/ step' # "succeeded"
  BY <1>0, <1>1, SuccessStays DEF SucceededRan
<1>2. CASE RecordStepOutcome
  <2>1. heard.verdict \in Verdicts /\ step' = Settled(heard.verdict)
    BY <1>0, <1>2 DEF RecordStepOutcome, HeardRan
  <2>2. step' = "succeeded" => heard.verdict = "succeeded"
    BY <1>0, <2>1, VerdictTypes
  <2>3. QED  BY <1>0, <2>2, SuccessStays DEF HeardRan, SucceededRan
<1>3. ASSUME NEW a \in Attempts, ConsumeSpoolResult(a), step' # step
      PROVE  SucceededRan'
  <2>1. step' = Settled(Said(file[a])) /\ a \in pass
    BY <1>3 DEF ConsumeSpoolResult, Archive
  <2>2. file[a] \in Launches /\ job[file[a]] \in Ended
    BY <2>1, SpoolAssumption DEF Inv, Types, SpoolTypes, PassHasFiles, FilesAreResults, Launches
  <2>3. step' = "succeeded" => job[file[a]] = "succeeded"
    BY <1>0, <2>1, <2>2, VerdictTypes
  <2>4. QED  BY <2>2, <2>3, SuccessStays DEF SucceededRan
<1>4. CASE Reaped
  BY <1>0, <1>1, <1>4, ReapedTypes
<1>5. QED  BY <1>1, <1>2, <1>3, <1>4
  DEF Next, Daemon, Startup, Shims, RequestCancel, Stop, Crash, PowerLoss, Exit,
     LeaseElapses, ClaimRuns, Loop, Close, SpawnViaShim, RecordAttemptProcess, CancelStep, ReadResult,
     RemoveResult, GiveUp, DrainRun, ReapExpiredRuns, PeriodicSweep, StartSession,
     SweepProcesses, List, RemoveCommitted, SpoolPassEnds, SpoolPassFails,
     StartupReap, ReconcileRunStates, StartJob, JobEnds, ShimKills, WriteResult, ShimDies, vars, rowVars

-----------------------------------------------------------------------------
(* What a start-up finds.                                                  *)

(* The files a pass has still to look at are there: nobody else removes    *)
(* them during a start.                                                    *)
LEMMA PassHasFilesStep ==
    ASSUME Inv, [Next]_vars
    PROVE  PassHasFiles'
<1>0. PassHasFiles /\ SpoolTypes /\ pass \subseteq Attempts
  BY DEF Inv, Types, DaemonTypes
<1>1. CASE pass' = {}
  BY <1>1 DEF PassHasFiles
<1>2. CASE pass = {} /\ UNCHANGED pass
  BY <1>2 DEF PassHasFiles
<1>3. CASE List
  BY <1>3 DEF List, spoolVars, PassHasFiles
<1>4. ASSUME NEW a \in Attempts, ConsumeSpoolResult(a)
      PROVE  PassHasFiles'
  BY <1>0, <1>4 DEF ConsumeSpoolResult, Archive, Remove, PassHasFiles, SpoolTypes
<1>5. CASE RemoveCommitted
  BY <1>0, <1>5 DEF RemoveCommitted, Remove, PassHasFiles, SpoolTypes
<1>6. ASSUME NEW i \in Launches, WriteResult(i)
      PROVE  PassHasFiles'
  <2>1. i # 0 /\ UNCHANGED <<pass, place>> /\ file' = [file EXCEPT ![made[i].attempt] = i]
    BY <1>6 DEF WriteResult, daemonVars, Launches
  <2>2. QED  BY <1>0, <2>1 DEF PassHasFiles, SpoolTypes
<1>7. CASE UNCHANGED <<pass, place, file>>
  BY <1>0, <1>7 DEF PassHasFiles
<1>8. place \notin {"spool", "unlink"} => pass = {}
  BY <1>0 DEF PassHasFiles
<1>9. QED  BY <1>1, <1>2, <1>3, <1>4, <1>5, <1>6, <1>7, <1>8
  DEF Next, Daemon, Startup, Shims, RequestCancel, Stop, Crash, PowerLoss, Exit, Down, LeaseElapses,
     ClaimRuns, Loop, SpawnViaShim, RecordAttemptProcess, CancelStep, ReadResult, RecordStepOutcome,
     RemoveResult, GiveUp, DrainRun, ReapExpiredRuns, PeriodicSweep, StartSession, SweepProcesses,
     SpoolPassEnds, SpoolPassFails, StartupReap, Serving,
     ReconcileRunStates, StartJob, JobEnds, ShimKills, ShimDies, vars, daemonVars, spoolVars

(* A machine restart takes the shims before the boot on file can differ    *)
(* from the kernel's.                                                      *)
LEMMA BootsAgreeStep ==
    ASSUME Inv, [Next]_vars
    PROVE  BootsAgree'
<1>0. BootsAgree /\ LaunchesAreReal /\ LaunchTypes /\ boot \in Nat /\ bootOnFile \in Nat
  BY DEF Inv, Types, BootTypes
<1>1. CASE StartSession
  <2>1. /\ place = "down" /\ place' = "sweep" /\ bootOnFile' = boot /\ UNCHANGED <<boot, shim, launched, made>>
        /\ changed' => bootOnFile # boot
    BY <1>1 DEF StartSession, launchVars
  <2>2. changed' => NoShim' /\ bootOnFile < bootOnFile'
    <3>1. NoShim => NoShim'
      BY <2>1 DEF NoShim
    <3>2. QED  BY <1>0, <2>1, <3>1 DEF BootsAgree
  <2>3. \A i \in Launches : i <= launched /\ launched \in Nat => made[i].boot <= bootOnFile /\ made[i].boot \in Nat
    BY <1>0 DEF LaunchesAreReal, LaunchTypes, Launches
  <2>4. \A i \in Launches : i <= launched' /\ changed' => made'[i].boot < bootOnFile'
    BY <1>0, <2>1, <2>2, <2>3 DEF LaunchTypes
  <2>5. QED  BY <1>0, <2>1, <2>2, <2>4 DEF BootsAgree
<1>2. CASE PowerLoss
  <2>1. boot' = boot + 1 /\ UNCHANGED <<bootOnFile, changed>> /\ place' = "down"
    BY <1>2 DEF PowerLoss, Down
  <2>2. NoShim'
    BY <1>2 DEF PowerLoss, NoShim
  <2>3. QED  BY <1>0, <2>1, <2>2 DEF BootsAgree
<1>3. CASE SpawnViaShim
  <2>1. place = "serve" /\ place' = "serve" /\ UNCHANGED <<boot, bootOnFile>>
    BY <1>3 DEF SpawnViaShim, Serving, bootVars
  <2>2. QED  BY <1>0, <2>1 DEF BootsAgree
<1>4. CASE ~StartSession /\ ~PowerLoss /\ ~SpawnViaShim
  <2>1. UNCHANGED <<boot, bootOnFile, changed, launched, made>>
    BY <1>4, BootsMove, LaunchesGrow
  <2>2. NoShim => NoShim'
    BY <1>4, ShimsFade DEF NoShim
  <2>3. /\ place' # "down" => place # "down"
        /\ place' \notin {"down", "serve"} => place \notin {"down", "serve"}
    BY <1>4, PlaceMoves
  <2>4. QED  BY <1>0, <2>1, <2>2, <2>3 DEF BootsAgree
<1>5. QED  BY <1>1, <1>2, <1>3, <1>4

(* A run is reaped when no shim of it is left.                             *)
LEMMA ReapedIsQuiet ==
    ASSUME Inv, GraceFits,
           \/ place = "reap" /\ ReapableAtStart
           \/ lease = "dead"
    PROVE  NoShim
  BY DEF Inv, BootsAgree, ShimsArePlaced, ReapableAtStart

(* With the grace inside the lease, no second shim is launched over the    *)
(* first.                                                                  *)
LEMMA ShimsArePlacedStep ==
    ASSUME Inv, [Next]_vars
    PROVE  ShimsArePlaced'
<1> SUFFICES ASSUME GraceFits
             PROVE  /\ \A i \in Launches : shim'[i] = "up" =>
                          \/ drive' = "wait" /\ mine' = i
                          \/ drive' = "idle" /\ run' # "queued"
                    /\ \A i, j \in Launches : shim'[i] = "up" /\ shim'[j] = "up" => i = j
                    /\ lease' \in {"lapsed", "dead"} => NoShim'
  BY DEF ShimsArePlaced
<1>0. LaunchTypes /\ DriveHolds
  BY DEF Inv, Types
<1>p. /\ \A i \in Launches : shim[i] = "up" =>
            \/ drive = "wait" /\ mine = i
            \/ drive = "idle" /\ run # "queued"
      /\ \A i, j \in Launches : shim[i] = "up" /\ shim[j] = "up" => i = j
      /\ lease \in {"lapsed", "dead"} => NoShim
  BY DEF Inv, ShimsArePlaced
<1>1. CASE SpawnViaShim
  <2>1. drive = "spawn" /\ lease = "live" /\ UNCHANGED lease
    BY <1>0, <1>1 DEF SpawnViaShim, DriveHolds, rowVars
  <2>2. NoShim
    BY <1>p, <2>1 DEF NoShim
  <2>3. \/ UNCHANGED shim
        \/ shim' = [shim EXCEPT ![launched + 1] = "up"] /\ drive' = "wait" /\ mine' = launched + 1
    BY <1>1 DEF SpawnViaShim
  <2>4. QED  BY <1>0, <2>1, <2>2, <2>3 DEF NoShim, LaunchTypes
<1>2. CASE ~SpawnViaShim
  <2>1. \A i \in Launches : shim'[i] = "up" => shim[i] = "up"
    BY <1>2, ShimsFade
  <2>2. NoShim => NoShim'
    BY <2>1 DEF NoShim
  <2>3. \A i, j \in Launches : shim'[i] = "up" /\ shim'[j] = "up" => i = j
    BY <1>p, <2>1
  <2>4. lease' \in {"lapsed", "dead"} => NoShim'
    <3>1. CASE lease' = lease \/ lease' \in {"none", "live"}
      BY <1>p, <2>2, <3>1
    <3>2. CASE LeaseElapses
      BY <1>p, <2>2, <3>2 DEF LeaseElapses, NoShim
    <3>3. QED  BY <1>2, <3>1, <3>2
      DEF Next, Daemon, Startup, Shims, RequestCancel, Stop, Crash, PowerLoss, Exit, ClaimRuns, Loop,
         Close, RecordAttemptProcess, CancelStep, ReadResult, RecordStepOutcome, RemoveResult, GiveUp,
         DrainRun, ReapExpiredRuns, Reaped, PeriodicSweep, StartSession, SweepProcesses, List,
         ConsumeSpoolResult, RemoveCommitted, SpoolPassEnds, SpoolPassFails, StartupReap,
         ReconcileRunStates, StartJob, JobEnds, ShimKills, WriteResult, ShimDies, vars, rowVars
  <2>5. ASSUME NEW i \in Launches, shim'[i] = "up"
        PROVE  \/ drive' = "wait" /\ mine' = i
               \/ drive' = "idle" /\ run' # "queued"
    <3>1. shim[i] = "up" /\ ~NoShim
      BY <2>1, <2>5 DEF NoShim
    <3>2. CASE UNCHANGED <<drive, mine>> /\ (UNCHANGED run \/ run' = "done")
      BY <1>0, <1>p, <3>1, <3>2 DEF DriveHolds, ReconcileRunStates
    <3>3. CASE Crash \/ PowerLoss \/ Exit
      BY <1>0, <1>p, <3>1, <3>3 DEF Crash, PowerLoss, Exit, Down, DriveHolds, rowVars
    <3>4. CASE ClaimRuns \/ Loop \/ RecordStepOutcome \/ RemoveResult \/ GiveUp \/ DrainRun
      BY <1>p, <3>1, <3>4 DEF ClaimRuns, Loop, RecordStepOutcome, RemoveResult, GiveUp, DrainRun
    <3>5. CASE ReadResult
      BY <1>p, <3>1, <3>5 DEF ReadResult
    <3>6. CASE (StartupReap \/ ReapExpiredRuns) /\ Reaped
      <4>1. ReapableAtStart \/ lease = "dead" \/ UNCHANGED rowVars
        BY <3>6 DEF StartupReap, ReapExpiredRuns
      <4>2. place = "reap" \/ lease = "dead"
        BY <3>6 DEF StartupReap, ReapExpiredRuns
      <4>3. UNCHANGED rowVars /\ UNCHANGED <<drive, mine>>
        BY <3>1, <3>6, <4>1, <4>2, ReapedIsQuiet DEF StartupReap, ReapExpiredRuns, daemonVars, driveVars, spawnVars
      <4>4. QED  BY <3>2, <4>3 DEF rowVars
    <3>7. CASE ReconcileRunStates
      BY <1>0, <1>p, <3>1, <3>7 DEF ReconcileRunStates, Converged, driveVars, spawnVars, DriveHolds
    <3>8. QED  BY <1>2, <3>2, <3>3, <3>4, <3>5, <3>6, <3>7
      DEF Next, Daemon, Startup, Shims, RequestCancel, Stop, LeaseElapses, RecordAttemptProcess, CancelStep,
         ReapExpiredRuns, PeriodicSweep, StartSession, SweepProcesses, List,
         ConsumeSpoolResult, RemoveCommitted, SpoolPassEnds, SpoolPassFails, StartupReap,
         StartJob, JobEnds, ShimKills, WriteResult, ShimDies, vars, rowVars, daemonVars, driveVars, spawnVars
  <2>6. QED  BY <2>3, <2>4, <2>5
<1>3. QED  BY <1>1, <1>2

(* A job outlives its shim only by a fault.                                *)
LEMMA JobsHaveShimsStep ==
    ASSUME Inv, [Next]_vars
    PROVE  JobsHaveShims'
<1> SUFFICES ASSUME faults' = 0, NEW k \in Launches, job'[k] = "up"
             PROVE  shim'[k] = "up"
  BY DEF JobsHaveShims
<1>0. LaunchTypes /\ faults \in Nat
  BY DEF Inv, Types, BootTypes
<1>1. faults = 0 /\ ~\E i \in Launches : ShimDies(i)
  <2>1. faults' = faults \/ faults' = faults + 1
    BY DEF Next, Daemon, Startup, Shims, RequestCancel, Stop, Crash, PowerLoss, Exit, LeaseElapses,
       ClaimRuns, Loop, SpawnViaShim, RecordAttemptProcess, CancelStep, ReadResult, RecordStepOutcome,
       RemoveResult, GiveUp, DrainRun, ReapExpiredRuns, PeriodicSweep, StartSession, SweepProcesses,
       List, ConsumeSpoolResult, RemoveCommitted, SpoolPassEnds, SpoolPassFails, StartupReap,
       ReconcileRunStates, StartJob, JobEnds, ShimKills, WriteResult, ShimDies, vars
  <2>2. (\E i \in Launches : ShimDies(i)) => faults' = faults + 1
    BY DEF ShimDies
  <2>3. QED  BY <1>0, <2>1, <2>2
<1>2. job[k] = "up" => shim[k] = "up"
  BY <1>1 DEF Inv, JobsHaveShims
<1>3. job'[k] = job[k] \/ shim'[k] = "up"
  BY JobsMove DEF Ended
<1>4. CASE UNCHANGED shim
  BY <1>2, <1>3, <1>4
<1>5. CASE SpawnViaShim
  BY <1>0, <1>2, <1>3, <1>5 DEF SpawnViaShim, LaunchTypes
<1>6. CASE PowerLoss
  BY <1>6 DEF PowerLoss
<1>7. ASSUME NEW i \in Launches, WriteResult(i)
      PROVE  shim'[k] = "up"
  BY <1>0, <1>2, <1>3, <1>7 DEF WriteResult, LaunchTypes, Ended
<1>8. QED  BY <1>1, <1>4, <1>5, <1>6, <1>7, ShimsMove

(* The pass leaves no current result behind unless the store failed it.    *)
LEMMA ResultsAreKeptStep ==
    ASSUME Inv, [Next]_vars
    PROVE  ResultsAreKept'
<1> SUFFICES ASSUME GraceFits, place' \in {"spool", "unlink", "reap"}, errors' = 0,
                    step' = "running", ReapableAtStart',
                    NEW a \in Attempts \ pass', file'[a] # 0
             PROVE  ~Current(file[a])'
  BY DEF ResultsAreKept
<1>0. /\ SpoolTypes /\ LaunchTypes /\ errors \in Nat /\ FilesAreResults /\ PassHasFiles /\ BootsAgree
      /\ Launches = 1..MaxLaunches /\ MaxLaunches \in Nat
  BY SpoolAssumption DEF Inv, Types, BootTypes, Launches
<1>1. CASE List
  BY <1>1 DEF List, spoolVars
<1>2. CASE SpoolPassFails
  BY <1>0, <1>2 DEF SpoolPassFails
<1>3. CASE StartSession \/ SweepProcesses
  BY <1>3 DEF StartSession, SweepProcesses, AfterSweep
<1>4. CASE place \notin {"spool", "unlink", "reap"} /\ ~List /\ ~StartSession /\ ~SweepProcesses
  BY <1>4 DEF Next, Daemon, Startup, Shims, RequestCancel, Stop, Crash, PowerLoss, Exit, Down,
     LeaseElapses, ClaimRuns, Loop, SpawnViaShim, RecordAttemptProcess, CancelStep, ReadResult,
     RecordStepOutcome, RemoveResult, GiveUp, DrainRun, ReapExpiredRuns, PeriodicSweep,
     ConsumeSpoolResult, RemoveCommitted, SpoolPassEnds, SpoolPassFails, StartupReap,
     ReconcileRunStates, StartJob, JobEnds, ShimKills, WriteResult, ShimDies, vars, daemonVars
<1>5. CASE place \in {"spool", "unlink", "reap"} /\ ~SpoolPassFails
  <2>1. /\ UNCHANGED <<made, attempt, epoch, run, errors, changed>> /\ step = "running" /\ ReapableAtStart
    <3>1. UNCHANGED <<made, changed>>
      BY <1>5, LaunchesGrow, BootsMove DEF SpawnViaShim, Serving, StartSession
    <3>2. /\ UNCHANGED <<attempt, epoch, run, errors>> /\ (lease' = lease \/ lease' # "dead")
          /\ UNCHANGED step \/ \E b \in Attempts : ConsumeSpoolResult(b) /\ step' # step
      BY <1>5 DEF Next, Daemon, Startup, Shims, RequestCancel, Stop, Crash, PowerLoss, Exit, Down,
         LeaseElapses, ClaimRuns, Loop, SpawnViaShim, RecordAttemptProcess, CancelStep, ReadResult,
         RecordStepOutcome, RemoveResult, GiveUp, DrainRun, ReapExpiredRuns, PeriodicSweep, StartSession,
         SweepProcesses, List, ConsumeSpoolResult, RemoveCommitted, SpoolPassEnds, StartupReap,
         ReconcileRunStates, StartJob, JobEnds, ShimKills, WriteResult, ShimDies, vars, rowVars, Serving
    <3>a. ASSUME NEW b \in Attempts, ConsumeSpoolResult(b), step' # step
          PROVE  FALSE
      <4>1. step' = Settled(Said(file[b])) /\ b \in pass
        BY <3>a DEF ConsumeSpoolResult, Archive
      <4>2. file[b] \in Launches /\ job[file[b]] \in Ended
        BY <1>0, <4>1 DEF SpoolTypes, PassHasFiles, FilesAreResults
      <4>3. Settled(Said(file[b])) \in {"pending"} \cup Terminal
        BY <4>2, VerdictTypes DEF Inv
      <4>4. QED  BY <4>1, <4>3 DEF Terminal
    <3>3. QED  BY <3>1, <3>2, <3>a DEF ReapableAtStart
  <2>2. NoShim
    BY <1>0, <1>5, <2>1 DEF Inv, BootsAgree, ShimsArePlaced, ReapableAtStart
  <2>3. \A b \in Attempts \ pass : file[b] # 0 => ~Current(file[b])
    BY <1>5, <2>1 DEF Inv, ResultsAreKept
  <2>4. file'[a] = file[a]
    <3>1. ~\E i \in Launches : WriteResult(i)
      BY <2>2 DEF NoShim, WriteResult
    <3>2. QED  BY <1>0, <3>1, FilesMove DEF SpoolTypes
  <2>5. ~Current(file[a])
    <3>1. CASE a \notin pass
      BY <2>3, <2>4, <3>1
    <3>2. CASE a \in pass
      <4>1. file[a] \in Launches /\ file[a] <= launched
        BY <1>0, <2>4 DEF SpoolTypes, FilesAreResults
      <4>2. CASE RemoveCommitted
        BY <1>0, <2>4, <3>2, <4>2 DEF RemoveCommitted, Remove, SpoolTypes
      <4>3. CASE ConsumeSpoolResult(a)
        <5>1. pass # pass'
          BY <3>2
        <5>2. HeldByAnother(a) \/ file' = [file EXCEPT ![a] = 0] \/ ~TokenMatches(a)
          BY <4>3, <5>1 DEF ConsumeSpoolResult, Archive, Remove
        <5>3. LeaseVoid(a) \/ lease = "dead"
          BY <1>0, <1>5, <2>1, <4>1 DEF BootsAgree, ReapableAtStart, LeaseVoid, LaunchTypes, BootTypes
        <5>4. ~HeldByAnother(a)
          BY <2>1, <5>3 DEF HeldByAnother, ReapableAtStart
        <5>5. file' = [file EXCEPT ![a] = 0] => file'[a] = 0
          BY <1>0 DEF SpoolTypes
        <5>6. QED  BY <2>4, <5>2, <5>4, <5>5 DEF TokenMatches, Current
      <4>4. QED
        BY <1>5, <3>2, <4>2, <4>3 DEF Next, Daemon, Startup, Shims, RequestCancel, Stop, Crash, PowerLoss,
           Exit, Down, LeaseElapses, ClaimRuns, Loop, SpawnViaShim, RecordAttemptProcess, CancelStep,
           ReadResult, RecordStepOutcome, RemoveResult, GiveUp, DrainRun, ReapExpiredRuns, PeriodicSweep,
           StartSession, SweepProcesses, List, ConsumeSpoolResult, Archive, SpoolPassEnds, StartupReap,
           ReconcileRunStates, StartJob, JobEnds, ShimKills, WriteResult, ShimDies, vars, daemonVars, Serving
    <3>3. QED  BY <3>1, <3>2
  <2>6. QED  BY <2>1, <2>4, <2>5 DEF Current
<1>6. QED  BY <1>1, <1>2, <1>3, <1>4, <1>5

-----------------------------------------------------------------------------
(* The invariant, and what follows from it.                                *)

(* A state directory nothing was launched from.                             *)
LEMMA InitInv ==
    Init => Inv
<1> SUFFICES ASSUME Init
             PROVE  Inv
  OBVIOUS
<1>0. \A a \in Attempts : file[a] = 0
  BY DEF Init
<1>n. \A i \in Launches : shim[i] = "none" /\ job[i] = "none" /\ i > launched /\ ~(i <= launched)
  BY DEF Init, Launches
<1>1. RowTypes /\ DaemonTypes /\ BootTypes
  BY SpoolAssumption DEF Init, RowTypes, DaemonTypes, BootTypes
<1>2. LaunchTypes
  <2>1. [attempt |-> 0, token |-> 0, boot |-> 0] \in [attempt : 0..Budget, token : Nat, boot : Nat]
    BY SpoolAssumption
  <2>2. QED  BY <2>1, SpoolAssumption DEF Init, LaunchTypes
<1>3. SpoolTypes
  <2>1. 0 \in 0..MaxLaunches
    BY SpoolAssumption
  <2>2. QED  BY <2>1 DEF Init, SpoolTypes
<1>4. DriveHolds /\ StepAttempt /\ MineIsLaunched /\ HeardRan /\ SucceededRan
  BY SpoolAssumption DEF Init, DriveHolds, StepAttempt, MineIsLaunched, HeardRan, SucceededRan
<1>5. LaunchesAreReal /\ FilesAreResults /\ PassHasFiles /\ JobsHaveShims
  BY <1>0, <1>n DEF Init, LaunchesAreReal, FilesAreResults, PassHasFiles, JobsHaveShims
<1>6. BootsAgree /\ ShimsArePlaced
  BY <1>n DEF Init, BootsAgree, ShimsArePlaced, NoShim
<1>7. ResultsAreKept
  BY <1>0 DEF ResultsAreKept
<1>8. QED  BY <1>1, <1>2, <1>3, <1>4, <1>5, <1>6, <1>7 DEF Inv, Types

(* In every reachable state the step's rows, its launches, its files and   *)
(* the daemon's place in its start-up agree with each other.               *)
THEOREM SpoolInvariant ==
    Spec => []Inv
<1>1. Inv /\ [Next]_vars => Inv'
  BY TypesStep, DriveHoldsStep, StepAttemptStep, LaunchesAreRealStep, MineIsLaunchedStep,
     FilesAreResultsStep, HeardRanStep, SucceededRanStep, PassHasFilesStep, BootsAgreeStep,
     ShimsArePlacedStep, JobsHaveShimsStep, ResultsAreKeptStep DEF Inv
<1>2. QED  BY InitInv, <1>1, PTL DEF Spec

(* Every row, process and file stays in its domain, and a file stands      *)
(* under the attempt number its launch was made for (spool.go).            *)
THEOREM SpoolTypesHold ==
    Spec => []TypeOK
<1>1. Inv => TypeOK
  BY DEF Inv, Types, RowTypes, LaunchTypes, SpoolTypes, DaemonTypes, FilesAreResults, TypeOK
<1>2. QED  BY <1>1, SpoolInvariant, PTL

(* G3: a step that counts as succeeded had a job that ran to success,      *)
(* whether the drive heard it, start-up took it from a file, or an old     *)
(* file was read under a reused attempt number.                            *)
THEOREM SuccessIsReal ==
    Spec => []SucceededRan
<1>1. Inv => SucceededRan
  BY DEF Inv
<1>2. QED  BY <1>1, SpoolInvariant, PTL

(* A verdict that start-up takes from a file is that of a launch made for  *)
(* this attempt under this token (CommitSpooledOutcome).                   *)
THEOREM SpooledVerdictsAreOwn ==
    Spec => SpooledVerdictIsItsOwn
<1>1. ASSUME Inv, [Next]_vars
      PROVE  place = "spool" /\ step' # step =>
                \E i \in Launches : Current(i) /\ job[i] \in Ended /\ step' = Settled(Said(i))
  <2> SUFFICES ASSUME place = "spool", step' # step
               PROVE  \E i \in Launches : Current(i) /\ job[i] \in Ended /\ step' = Settled(Said(i))
    OBVIOUS
  <2>1. PICK a \in Attempts : ConsumeSpoolResult(a)
    BY <1>1 DEF Next, Daemon, Startup, Shims, RequestCancel, Stop, Crash, PowerLoss,
       Exit, Down, LeaseElapses, ClaimRuns, Loop, SpawnViaShim, RecordAttemptProcess, CancelStep,
       ReadResult, RecordStepOutcome, RemoveResult, GiveUp, DrainRun, ReapExpiredRuns, PeriodicSweep,
       StartSession, SweepProcesses, List, RemoveCommitted, SpoolPassEnds, SpoolPassFails, StartupReap,
       ReconcileRunStates, StartJob, JobEnds, ShimKills, WriteResult, ShimDies, vars, rowVars, Serving
  <2>2. a \in pass /\ TokenMatches(a) /\ IsRunning(a) /\ step' = Settled(Said(file[a]))
    BY <2>1 DEF ConsumeSpoolResult, Archive
  <2>3. /\ file[a] \in Launches /\ job[file[a]] \in Ended /\ made[file[a]].attempt = a
    BY <1>1, <2>2, SpoolAssumption DEF Inv, Types, SpoolTypes, PassHasFiles, FilesAreResults, Launches
  <2>4. Current(file[a])
    BY <2>2, <2>3 DEF TokenMatches, IsRunning, Current
  <2>5. QED  BY <2>2, <2>3, <2>4
<1>2. QED  BY <1>1, SpoolInvariant, PTL DEF Spec, SpooledVerdictIsItsOwn

(* G6: while the kill grace fits into what a crash leaves of a lease, and  *)
(* no shim is lost, at most one job of the step runs.                      *)
THEOREM JobsRunOneAtATime ==
    ASSUME GraceFits
    PROVE  Spec => []OneJobAtATime
<1>1. ASSUME Inv, faults = 0
      PROVE  Cardinality({i \in Launches : job[i] = "up"}) <= 1
  <2> DEFINE J == {i \in Launches : job[i] = "up"}
  <2>1. \A i, j \in J : i = j
    BY <1>1 DEF Inv, JobsHaveShims, ShimsArePlaced
  <2>2. CASE J = {}
    BY <2>2, FS_EmptySet
  <2>3. CASE J # {}
    <3>1. PICK i \in J : J = {i}
      BY <2>1, <2>3
    <3>2. Cardinality({i}) = 1
      BY FS_Singleton
    <3>3. QED  BY <3>1, <3>2
  <2>4. QED  BY <2>2, <2>3
<1>2. Inv => OneJobAtATime
  BY <1>1 DEF OneJobAtATime
<1>3. QED  BY <1>2, SpoolInvariant, PTL

(* W8: while the kill grace fits the lease, start-up hands no run back     *)
(* over a result of its running attempt that is on disk, unless the store  *)
(* failed the spool pass (OnStartup's order: spool, then reap).            *)
THEOREM KnownResultsAreKept ==
    ASSUME GraceFits
    PROVE  Spec => StartupKeepsKnownResults
<1>1. ASSUME Inv, [Next]_vars
      PROVE  place = "reap" /\ step = "running" /\ epoch' > epoch /\ errors = 0 =>
                \A a \in Attempts : file[a] # 0 => ~Current(file[a])
  <2> SUFFICES ASSUME place = "reap", step = "running", epoch' > epoch, errors = 0,
                      NEW a \in Attempts, file[a] # 0
               PROVE  ~Current(file[a])
    OBVIOUS
  <2>1. epoch' # epoch
    BY <1>1 DEF Inv, Types, RowTypes
  <2>2. StartupReap
    BY <1>1, <2>1 DEF Next, Daemon, Startup, Shims, RequestCancel, Stop, Crash, PowerLoss,
       Exit, Down, LeaseElapses, ClaimRuns, Loop, SpawnViaShim, RecordAttemptProcess, CancelStep,
       ReadResult, RecordStepOutcome, RemoveResult, GiveUp, DrainRun, ReapExpiredRuns, PeriodicSweep,
       StartSession, SweepProcesses, List, ConsumeSpoolResult, RemoveCommitted, SpoolPassEnds,
       SpoolPassFails, ReconcileRunStates, StartJob, JobEnds, ShimKills, WriteResult, ShimDies,
       vars, rowVars, Serving
  <2>3. ReapableAtStart
    BY <2>1, <2>2 DEF StartupReap, rowVars
  <2>4. pass = {}
    BY <1>1 DEF Inv, PassHasFiles
  <2>5. QED  BY <1>1, <2>3, <2>4 DEF Inv, ResultsAreKept
<1>2. QED  BY <1>1, SpoolInvariant, PTL DEF Spec, StartupKeepsKnownResults

=============================================================================
