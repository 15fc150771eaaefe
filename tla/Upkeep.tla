------------------------------- MODULE Upkeep -------------------------------
(***************************************************************************)
(* The nightly maintenance of one state directory: retention in batches,   *)
(* table by table, whole log shards, a verified backup with rotation, and  *)
(* the stamp that says the night was worked; the operator's `prune`; the   *)
(* disk guard, which removes log shards under pressure; and the daemon's   *)
(* own work going on between two batches.                                  *)
(*                                                                         *)
(* Time is the day; the nightly slot is the first moment of a day.  At     *)
(* most one row is born on a day, and the day is its identity.             *)
(***************************************************************************)
EXTENDS Integers, Sequences, FiniteSets, FiniteSetsExt

CONSTANTS
    MaxDay,         \* bound: days
    MaxFaults,      \* bound: crashes, failed store calls and removals, bad copies
    RunsDays, RunsKeepMin, TicksSkippedDays, TicksDays, TicksKeepMin,
    SessionsDays, SessionsKeepMin, RunKeysDays, LogShardDays,
    KeepMinShards,  \* shards the disk guard never takes
    BackupRetain

ASSUME BoundsAssumption == MaxDay \in Nat \ {0} /\ MaxFaults \in Nat
ASSUME PolicyAssumption ==
    /\ {RunsDays, TicksSkippedDays, TicksDays, SessionsDays, RunKeysDays, LogShardDays} \subseteq Nat
    /\ {RunsKeepMin, TicksKeepMin, SessionsKeepMin, KeepMinShards, BackupRetain} \subseteq Nat \ {0}

Days == 1..MaxDay

VARIABLES
    day,
    rows,       \* by day of birth: table, whether the row is closed, the age the rule reads, cited
    seen,       \* the run_keys row of the one trigger: the day it was first seen, 0 for none
    fired,      \* days on which that trigger made a run (observation only)
    shards,     \* date directories under the log root, whole unless excused
    path,       \* runs whose step's log_path names a file in the shard of their birth
    excused,    \* runs whose log_path the code cannot keep honest (observation only)
    dir,        \* backup generations on disk, oldest first: was each verified?
    recorded,   \* meta names a verified backup
    last,       \* gc_last_cycle_at, 0 for none
    cyc,        \* where the pass is
    who,        \* "daemon" for a nightly cycle, "cli" for prune
    base,       \* the instant pruneDatabase read once
    doomed,     \* by remover: the shard it removed and has not cleared the paths of, 0 for none
    faults

rowVars    == <<rows, seen, fired>>
logVars    == <<shards, path, excused, doomed>>
backupVars == <<dir, recorded>>
passVars   == <<cyc, who, base, last>>
vars       == <<day, rowVars, logVars, backupVars, passVars, faults>>

NoRow   == [t |-> "none", closed |-> FALSE, age |-> 0, cited |-> FALSE]
Born(t) == {d \in Days : rows[d].t = t}
Removers == {"janitor", "guard"}

(* A row may be born today: none was, and no pass deletes today's.         *)
Free == rows[day] = NoRow

(* prune takes the state lock, so the daemon is down while it works.       *)
DaemonUp == cyc = "idle" \/ who = "daemon"

TypeOK ==
    /\ day \in Days /\ last \in 0..MaxDay /\ base \in 0..MaxDay
    /\ rows \in [Days -> [t : {"none", "runs", "skips", "ticks", "sessions"},
                          closed : BOOLEAN, age : 0..MaxDay, cited : BOOLEAN]]
    /\ seen \in 0..MaxDay /\ fired \subseteq Days
    /\ {shards, path, excused} \subseteq SUBSET Days /\ doomed \in [Removers -> 0..MaxDay]
    /\ dir \in Seq(BOOLEAN) /\ recorded \in BOOLEAN
    /\ cyc \in {"idle", "runs", "skips", "ticks", "sessions", "keys", "shards",
                "copy", "verify", "record", "rotate", "stamp"}
    /\ who \in {"daemon", "cli"} /\ faults \in 0..MaxFaults

Init ==
    /\ day = 1 /\ last = 0 /\ base = 0
    /\ rows = [d \in Days |-> NoRow] /\ seen = 0 /\ fired = {}
    /\ shards = {} /\ path = {} /\ excused = {} /\ doomed = [x \in Removers |-> 0]
    /\ dir = <<>> /\ recorded = FALSE
    /\ cyc = "idle" /\ who = "daemon" /\ faults = 0

-----------------------------------------------------------------------------
(* The daemon's own work                                                   *)

NextDay ==
    /\ day < MaxDay /\ day' = day + 1
    /\ UNCHANGED <<rowVars, logVars, backupVars, passVars, faults>>

Bear(t, closed) ==
    rows' = [rows EXCEPT ![day] = [t |-> t, closed |-> closed, age |-> day, cited |-> FALSE]]

(* A run starts and opens its log file in today's shard.                   *)
StartRun ==
    /\ DaemonUp /\ Free
    /\ Bear("runs", FALSE) /\ shards' = shards \cup {day}
    /\ UNCHANGED <<day, seen, fired, path, excused, doomed, backupVars, passVars, faults>>

(* The trigger is offered again: its key makes a run only while no row     *)
(* remembers it.                                                           *)
FireKey ==
    /\ DaemonUp /\ Free /\ seen = 0
    /\ Bear("runs", FALSE) /\ shards' = shards \cup {day}
    /\ seen' = day /\ fired' = fired \cup {day}
    /\ UNCHANGED <<day, path, excused, doomed, backupVars, passVars, faults>>

(* The outcome commits: finished_at, and the log_path of the step.         *)
FinishRun(d) ==
    /\ DaemonUp /\ rows[d].t = "runs" /\ ~rows[d].closed
    /\ rows' = [rows EXCEPT ![d].closed = TRUE, ![d].age = day]
    /\ path' = path \cup {d}
    /\ UNCHANGED <<day, seen, fired, shards, excused, doomed, backupVars, passVars, faults>>

Evaluate(t) ==
    /\ DaemonUp /\ Free
    /\ Bear(t, TRUE)
    /\ UNCHANGED <<day, seen, fired, logVars, backupVars, passVars, faults>>

(* An identical skip folds into the source's newest tick and moves its     *)
(* last_started_at.                                                        *)
CoalesceSkip(d) ==
    /\ DaemonUp /\ rows[d].t = "skips" /\ \A x \in Born("ticks") \cup Born("skips") : x <= d
    /\ rows[d].age < day /\ rows' = [rows EXCEPT ![d].age = day]
    /\ UNCHANGED <<day, seen, fired, logVars, backupVars, passVars, faults>>

(* StartSession closes what was open; an outage row may cite it.           *)
StartSession ==
    /\ DaemonUp /\ Free
    /\ \E outage \in BOOLEAN :
          rows' = [d \in Days |->
                     IF d = day
                     THEN [t |-> "sessions", closed |-> FALSE, age |-> day, cited |-> FALSE]
                     ELSE IF d \in Born("sessions") /\ ~rows[d].closed
                     THEN [rows[d] EXCEPT !.closed = TRUE, !.cited = outage]
                     ELSE rows[d]]
    /\ UNCHANGED <<day, seen, fired, logVars, backupVars, passVars, faults>>

-----------------------------------------------------------------------------
(* Retention                                                               *)

(* The newest n of the rows ds, by the age the rule orders on.             *)
Newer(a, d, b, e) == a > b \/ (a = b /\ d > e)
Newest(ds, n) ==
    {d \in ds : Cardinality({x \in ds : Newer(rows[x].age, x, rows[d].age, d)}) < n}

Old(ds, days) == {d \in ds : rows[d].age < base - days}

Closed(t) == {d \in Born(t) : rows[d].closed}

PruneRunsBatch == Old(Closed("runs"), RunsDays) \ Newest(Closed("runs"), RunsKeepMin)

PruneSkippedTicksBatch == Old(Born("skips"), TicksSkippedDays)

(* A real tick's started_at is its birth; the newest ticks of the source   *)
(* count skips as well, by started_at.                                     *)
PruneTicksBatch ==
    {d \in Old(Born("ticks"), TicksDays) :
        Cardinality({x \in Born("ticks") \cup Born("skips") : x > d}) >= TicksKeepMin}

PruneSessionsBatch ==
    {d \in Old(Closed("sessions"), SessionsDays) : ~rows[d].cited}
        \ Newest(Born("sessions"), SessionsKeepMin)

Batch == CASE cyc = "runs"     -> PruneRunsBatch
           [] cyc = "skips"    -> PruneSkippedTicksBatch
           [] cyc = "ticks"    -> PruneTicksBatch
           [] cyc = "sessions" -> PruneSessionsBatch
           [] OTHER            -> {}

Following == [runs |-> "skips", skips |-> "ticks", ticks |-> "sessions", sessions |-> "keys"]

(* Mutant: a night is owed a full day after the last one.                  *)
DueElapsed == last < day - 1

(* janitorLoop: a slot newer than the recorded cycle is owed.              *)
Due == last < day

Begin(by) == cyc = "idle" /\ cyc' = "runs" /\ who' = by /\ base' = day
             /\ UNCHANGED <<day, last, rowVars, logVars, backupVars, faults>>

Cycle == Due /\ Begin("daemon")

(* The operator's prune holds the state lock, so no daemon is up.          *)
Prune == Begin("cli")

(* drain: one row a transaction, oldest first, until a batch is empty;     *)
(* other writers get the lock in between.                                  *)
Drain ==
    /\ cyc \in DOMAIN Following
    /\ \/ /\ Batch = {} /\ cyc' = Following[cyc] /\ UNCHANGED rowVars
       \/ /\ Batch # {} /\ UNCHANGED <<cyc, seen, fired>>
          /\ LET d == CHOOSE x \in Batch :
                          \A y \in Batch \ {x} : Newer(rows[y].age, y, rows[x].age, x)
             IN  rows' = [rows EXCEPT ![d] = NoRow]
    /\ path' = path \ {d \in Days : rows'[d] = NoRow}
    /\ UNCHANGED <<day, who, base, last, shards, excused, doomed, backupVars, faults>>

(* Mutant: the keys age out with the runs they made.                       *)
PruneKeysWithRuns == seen # 0 /\ seen < base - RunsDays

(* The cutoff of the dedup keys, the last table.                           *)
PruneRunKeysBatch == seen # 0 /\ seen < base - RunKeysDays

DrainKeys ==
    /\ cyc = "keys" /\ cyc' = "shards"
    /\ seen' = IF PruneRunKeysBatch THEN 0 ELSE seen
    /\ UNCHANGED <<day, rows, fired, who, base, last, logVars, backupVars, faults>>

(* Mutant: the directory goes and the database is not told.                *)
RemoveUncleared(by, s) ==
    /\ shards' = shards \ {s}
    /\ excused' = excused \cup {d \in Born("runs") : d = s /\ ~rows[d].closed}
    /\ UNCHANGED <<path, doomed>>

(* os.RemoveAll on one shard.  A step still writing there will name it     *)
(* later.                                                                  *)
RemoveShard(by, s) ==
    /\ shards' = shards \ {s} /\ doomed' = [doomed EXCEPT ![by] = s]
    /\ excused' = excused \cup {d \in Born("runs") : d = s /\ ~rows[d].closed}
    /\ UNCHANGED path

(* os.RemoveAll fails half-way: the directory is still there, some of its  *)
(* files may be gone, and no path is cleared.                              *)
RemovalFails(s) ==
    /\ faults < MaxFaults /\ faults' = faults + 1
    /\ excused' = excused \cup {s} /\ UNCHANGED <<shards, path, doomed>>

(* MarkLogShardPruned, or its failure, which nothing retries.              *)
ClearPaths(by) ==
    /\ doomed[by] # 0 /\ doomed' = [doomed EXCEPT ![by] = 0]
    /\ \/ path' = path \ {doomed[by]} /\ UNCHANGED <<excused, faults>>
       \/ /\ faults < MaxFaults /\ faults' = faults + 1
          /\ excused' = excused \cup {doomed[by]} /\ UNCHANGED path
    /\ UNCHANGED <<day, shards, rowVars, backupVars, passVars>>

(* A shard is dated at its midnight and the pass runs at a later hour.     *)
StaleLogShards == {s \in shards : s <= base - LogShardDays}

(* After the shards: the nightly cycle vacuums and backs up, prune stamps. *)
AfterRetention == IF who = "daemon" THEN "copy" ELSE "stamp"

(* Stale shards go oldest first; the first that fails ends the shards, and *)
(* is no error of the pass.                                                *)
PruneLogShards ==
    /\ cyc = "shards" /\ doomed["janitor"] = 0
    /\ \/ StaleLogShards = {} /\ cyc' = AfterRetention /\ UNCHANGED <<logVars, faults>>
       \/ /\ StaleLogShards # {} /\ RemoveShard("janitor", Min(StaleLogShards))
          /\ UNCHANGED <<cyc, faults>>
       \/ /\ StaleLogShards # {} /\ RemovalFails(Min(StaleLogShards))
          /\ cyc' = AfterRetention
    /\ UNCHANGED <<day, who, base, last, rowVars, backupVars>>

(* The disk guard, oldest shard first, never one of the newest; it passes  *)
(* over an older one it could not remove.                                  *)
PruneOldestShards ==
    /\ DaemonUp /\ doomed["guard"] = 0
    /\ \E s \in shards :
          /\ Cardinality({x \in shards : x > s}) >= KeepMinShards
          /\ \A x \in shards : x < s => x \in excused
          /\ \/ RemoveShard("guard", s) /\ UNCHANGED faults
             \/ RemovalFails(s)
    /\ UNCHANGED <<day, rowVars, backupVars, passVars>>

(* The pass is over; who and base mean nothing between two passes.         *)
Idle == cyc' = "idle" /\ who' = "daemon" /\ base' = 0

(* A batch fails: the rest of retention is skipped.  The cycle goes on to  *)
(* the backup; prune reports the error and stamps nothing.                 *)
RetentionFails ==
    /\ cyc \in {"runs", "skips", "ticks", "sessions", "keys"}
    /\ faults < MaxFaults /\ faults' = faults + 1
    /\ IF who = "daemon" THEN cyc' = "copy" /\ UNCHANGED <<who, base>> ELSE Idle
    /\ UNCHANGED <<day, last, rowVars, logVars, backupVars>>

-----------------------------------------------------------------------------
(* Backup                                                                  *)

VacuumInto ==
    /\ cyc = "copy" /\ cyc' = "verify"
    /\ dir' = Append(dir, FALSE)
    /\ UNCHANGED <<day, recorded, who, base, last, rowVars, logVars, faults>>

(* A copy that fails its check is removed and the night recorded as failed.*)
VerifyCopy ==
    /\ cyc = "verify"
    /\ \/ /\ cyc' = "record" /\ UNCHANGED faults
          /\ dir' = [dir EXCEPT ![Len(dir)] = TRUE]
       \/ /\ faults < MaxFaults /\ faults' = faults + 1 /\ cyc' = "stamp"
          /\ dir' = SubSeq(dir, 1, Len(dir) - 1)
    /\ UNCHANGED <<day, recorded, who, base, last, rowVars, logVars>>

(* RecordBackup; a failure is only noted, and rotation goes ahead.         *)
RecordBackup ==
    /\ cyc = "record" /\ cyc' = "rotate"
    /\ \/ recorded' = TRUE /\ UNCHANGED faults
       \/ faults < MaxFaults /\ faults' = faults + 1 /\ UNCHANGED recorded
    /\ UNCHANGED <<day, dir, who, base, last, rowVars, logVars>>

(* Mutant: one generation too few is kept.                                 *)
RotateOneMore ==
    /\ cyc = "rotate" /\ cyc' = "stamp"
    /\ dir' = SubSeq(dir, Max({1, Len(dir) - BackupRetain + 2}), Len(dir))
    /\ UNCHANGED <<day, recorded, who, base, last, rowVars, logVars, faults>>

(* The newest BackupRetain files stay, whatever they are.                  *)
RotateGenerations ==
    /\ cyc = "rotate" /\ cyc' = "stamp"
    /\ dir' = SubSeq(dir, Max({1, Len(dir) - BackupRetain + 1}), Len(dir))
    /\ UNCHANGED <<day, recorded, who, base, last, rowVars, logVars, faults>>

(* The checkpoint, and recordGCCycle, whose own failure is only logged.    *)
RecordGCCycle ==
    /\ cyc = "stamp" /\ Idle
    /\ \/ last' = day /\ UNCHANGED faults
       \/ faults < MaxFaults /\ faults' = faults + 1 /\ UNCHANGED last
    /\ UNCHANGED <<day, rowVars, logVars, backupVars>>

(* The process dies between two steps: a shard keeps its paths, a copy     *)
(* stays on disk unverified, and the night is owed again.                  *)
Crash ==
    /\ cyc # "idle" \/ \E by \in Removers : doomed[by] # 0
    /\ faults < MaxFaults /\ faults' = faults + 1
    /\ Idle /\ doomed' = [by \in Removers |-> 0]
    /\ excused' = excused \cup ({doomed[by] : by \in Removers} \ {0})
    /\ UNCHANGED <<day, last, rowVars, shards, path, backupVars>>

-----------------------------------------------------------------------------
PassStep == Drain \/ DrainKeys \/ PruneLogShards \/ VacuumInto \/ VerifyCopy
            \/ RecordBackup \/ RotateGenerations \/ RecordGCCycle

Next ==
    \/ NextDay \/ StartRun \/ FireKey \/ StartSession
    \/ \E d \in Days : FinishRun(d) \/ CoalesceSkip(d)
    \/ \E t \in {"skips", "ticks"} : Evaluate(t)
    \/ Cycle \/ Prune \/ PassStep \/ (\E by \in Removers : ClearPaths(by))
    \/ PruneOldestShards \/ RetentionFails \/ Crash

Spec == Init /\ [][Next]_vars

(* The maintenance loop is scheduled and time passes.                      *)
FairSpec ==
    /\ Spec /\ WF_vars(NextDay) /\ WF_vars(Cycle) /\ WF_vars(PassStep)
    /\ \A by \in Removers : WF_vars(ClearPaths(by))

-----------------------------------------------------------------------------
(* A dedup key protects its trigger for the whole horizon: two runs of one *)
(* key are more than RunKeysDays apart, whatever the pass overlaps.        *)
NeverTwiceWithinHorizon ==
    \A a \in fired, b \in fired : a < b => b - a > RunKeysDays

(* A step's log_path names a file that exists, whichever of janitor and    *)
(* guard removed the shard and wherever the step's own commit fell between *)
(* the removal and the clearing.  Three cases are out of the code's reach: *)
(* a step still running when its shard went, a clearing that was lost, and *)
(* a removal that failed half-way.                                         *)
LogPathNamesAFile ==
    \A d \in path : d \in shards \/ (\E by \in Removers : doomed[by] = d) \/ d \in excused

(* Once a backup was verified, a verified one stays on disk through bad    *)
(* copies, failed records and crashes.                                     *)
VerifiedBackupStays ==
    recorded => \E i \in DOMAIN dir : dir[i]

(* Every night but those the days ran past is worked in the end.           *)
LastNightIsWorked == <>[](last = MaxDay)
=============================================================================
