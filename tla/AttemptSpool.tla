---------------------------- MODULE AttemptSpool ----------------------------
(***************************************************************************)
(* The processes and files behind one step: the daemon that drives it, the *)
(* shim each launch puts between the daemon and the job (runner/shim.go),  *)
(* the result file the shim leaves in the spool (spool/), and what a       *)
(* restarted daemon makes of what it finds (reconcile/).                   *)
(*                                                                         *)
(* The state lock admits one daemon at a time.  It may be killed anywhere; *)
(* its shims outlive it, see their watchdog pipe close and kill their job. *)
(* A power cut takes every process and leaves the files.  The step's rows  *)
(* move as in RunLifecycle, reduced to a run of a single step.             *)
(*                                                                         *)
(* A launch is a number: the shim, its job and the file it may write.      *)
(* Result files are named by the attempt alone, and DrainRun gives attempt *)
(* numbers back, so two launches may write under one name.                 *)
(***************************************************************************)
EXTENDS Integers, FiniteSets

CONSTANTS
    Budget,       \* max_attempts of the step
    MaxLaunches,  \* bound: launches
    MaxToken,     \* bound: the fencing token a claim may start from
    MaxBoots,     \* bound: machine restarts
    GraceFits,    \* is the kill grace shorter than what a crash leaves of a lease?
    MaxFaults,    \* bound: shims that end without a result
    MaxErrors     \* bound: verdicts the store would not take

ASSUME SpoolAssumption ==
    /\ Budget \in Nat \ {0} /\ MaxLaunches \in Nat \ {0}
    /\ MaxToken \in Nat /\ MaxBoots \in Nat
    /\ MaxFaults \in Nat /\ MaxErrors \in Nat
    /\ GraceFits \in BOOLEAN

Attempts == 1..Budget
Launches == 1..MaxLaunches

Ended    == {"succeeded", "failed", "signalled"}
Terminal == {"succeeded", "failed", "cancelled"}

VARIABLES
    \* the rows: run, step, attempt, fencing token, lease, recorded process
    \* baseline (a launch, 0 for none), cancellation request
    run, step, attempt, epoch, lease, base, asked,
    \* the launches: how many, what each was made for, its shim, its job
    launched, made, shim, job,
    \* the spool directory: the launch whose result stands under an attempt's
    \* name (0 for none), cancel marks, and which results name a cancellation
    file, mark, stamped,
    \* the daemon: its place in the start-up sequence, files left to look at,
    \* the drive's place, its token and launch, whether it told the shim to
    \* stop, the result it heard; whether a stop has ended its context
    place, pass, drive, token, mine, told, heard, stopping,
    \* the machine: boot id, the one on file, whether this start saw a change
    boot, bootOnFile, changed,
    \* how much of the bounds is spent
    faults, errors

rowVars    == <<run, step, attempt, epoch, lease, base, asked>>
launchVars == <<launched, made, shim, job>>
spoolVars  == <<file, mark, stamped>>
spawnVars  == <<mine, told, heard>>
driveVars  == <<drive, token, spawnVars, stopping>>
daemonVars == <<place, pass, driveVars>>
bootVars   == <<boot, bootOnFile, changed>>
vars == <<rowVars, launchVars, spoolVars, daemonVars, bootVars, faults, errors>>

-----------------------------------------------------------------------------
Holds   == run = "running" /\ epoch = token
Serving == place = "serve"

(* The write end of launch i's watchdog pipe is held only by the call of   *)
(* SpawnViaShim that waits for it.                                         *)
WatchdogOpen(i) == drive = "wait" /\ mine = i

(* StepVerdict over what the result file of launch i says.                 *)
Said(i) ==
    IF job[i] # "signalled" THEN job[i]
    ELSE IF stamped[i] THEN "cancelled" ELSE "failed"

(* What applyStepOutcomeTx leaves on the step row.                         *)
Settled(o) == IF o = "failed" /\ attempt < Budget THEN "pending" ELSE o

(* What killing a group that is no more recycled than the record says does.*)
VerifiedGroupKill(i) == IF job[i] = "up" THEN [job EXCEPT ![i] = "signalled"] ELSE job

(* The cancel mark stands beside the result it is meant for.               *)
MarkCancel(a)      == mark' = [mark EXCEPT ![a] = TRUE]
ClearCancelMark(a) == mark' = [mark EXCEPT ![a] = FALSE]
CancelMarked(a)    == mark[a]

(* A result file goes with the mark beside it.                             *)
Remove(a) == file' = [file EXCEPT ![a] = 0] /\ ClearCancelMark(a)

(* Two launches belong together when attempt and token both agree.         *)
Current(i) == made[i].attempt = attempt /\ made[i].token = epoch

Init ==
    /\ run = "queued" /\ step = "pending" /\ attempt = 0 /\ epoch = 0
    /\ lease = "none" /\ base = 0 /\ asked = FALSE
    /\ launched = 0
    /\ made = [i \in Launches |-> [attempt |-> 0, token |-> 0, boot |-> 0]]
    /\ shim = [i \in Launches |-> "none"]
    /\ job = [i \in Launches |-> "none"]
    /\ file = [a \in Attempts |-> 0]
    /\ mark = [a \in Attempts |-> FALSE]
    /\ stamped = [i \in Launches |-> FALSE]
    /\ place = "serve" /\ pass = {}
    /\ drive = "idle" /\ token = 0 /\ mine = 0 /\ told = FALSE /\ stopping = FALSE
    /\ heard = [from |-> 0, verdict |-> "none"]
    /\ boot = 0 /\ bootOnFile = 0 /\ changed = FALSE
    /\ faults = 0 /\ errors = 0

-----------------------------------------------------------------------------
(* The drive, as far as it touches processes and files.                    *)

RequestCancel ==
    /\ ~asked
    /\ asked' = TRUE
    /\ UNCHANGED <<run, step, attempt, epoch, lease, base, launchVars, spoolVars,
                   daemonVars, bootVars, faults, errors>>

(* A claim, or the end of a run that was cancelled while it waited.        *)
ClaimRuns ==
    /\ Serving /\ drive = "idle" /\ ~stopping
    /\ run = "queued" /\ epoch <= MaxToken
    /\ IF asked
       THEN /\ run' = "done"
            /\ step' = "cancelled"
            /\ UNCHANGED <<epoch, lease, token, drive>>
       ELSE /\ run' = "running"
            /\ epoch' = epoch + 1
            /\ lease' = "live"
            /\ token' = epoch + 1
            /\ drive' = "top"
            /\ UNCHANGED step
    /\ UNCHANGED <<attempt, base, asked, launchVars, spoolVars, place, pass, spawnVars,
                   stopping, bootVars, faults, errors>>

(* The drive's loop, for one step: observe a cancellation, finish the run, *)
(* or start the next attempt.                                              *)
Close(final) ==
    /\ run' = "done"
    /\ step' = final
    /\ lease' = "none"
    /\ drive' = "idle"
    /\ UNCHANGED attempt
Loop ==
    /\ Serving /\ drive = "top" /\ ~stopping /\ Holds
    /\ \/ asked /\ Close(IF step = "pending" THEN "cancelled" ELSE step)
       \/ ~asked /\ step \in Terminal /\ Close(step)
       \/ /\ ~asked /\ step = "pending"
          /\ step' = "running"
          /\ attempt' = attempt + 1
          /\ drive' = "spawn"
          /\ UNCHANGED <<run, lease>>
    /\ UNCHANGED <<epoch, base, asked, launchVars, spoolVars, place, pass, token,
                   spawnVars, stopping, bootVars, faults, errors>>

(* SpawnViaShim up to the shim's start, or a start that was refused.       *)
(* Nothing looks for a file that already stands under the attempt's name.  *)
SpawnViaShim ==
    /\ Serving /\ drive = "spawn"
    /\ launched < MaxLaunches
    /\ LET i == launched + 1 IN
        /\ launched' = i
        /\ made' = [made EXCEPT ![i] = [attempt |-> attempt, token |-> token, boot |-> boot]]
        /\ mine' = i
        /\ \/ /\ shim' = [shim EXCEPT ![i] = "up"]
              /\ drive' = "wait"
              /\ UNCHANGED <<job, heard>>
           \/ /\ job' = [job EXCEPT ![i] = "failed"]
              /\ heard' = [from |-> i, verdict |-> "failed"]
              /\ drive' = "record"
              /\ UNCHANGED shim
    /\ UNCHANGED <<rowVars, told, spoolVars, place, pass, token, stopping, bootVars, faults,
                   errors>>

(* RecordAttemptProcess: the baseline pipe's one line reaches the row.     *)
RecordAttemptProcess ==
    /\ Serving /\ drive = "wait" /\ Holds
    /\ job[mine] = "up"
    /\ base # mine
    /\ base' = mine
    /\ UNCHANGED <<run, step, attempt, epoch, lease, asked, launchVars, spoolVars,
                   daemonVars, bootVars, faults, errors>>

(* cmd.Cancel: the step's context is dead, whatever ended it.  The mark is *)
(* written, then the shim is signalled.                                    *)
CancelStep ==
    /\ Serving /\ drive = "wait" /\ ~told
    /\ asked \/ stopping
    /\ MarkCancel(attempt)
    /\ told' = TRUE
    /\ UNCHANGED <<rowVars, launchVars, file, stamped, place, pass, drive, token, mine, heard,
                   stopping, bootVars, faults, errors>>

(* SpawnViaShim after the shim's exit: the mark is cleared and the file    *)
(* under the attempt's name is the verdict, whoever wrote it.  Without a   *)
(* file the job is killed if its process is known, and classify reads the  *)
(* shim's own end: a signal, or the exit code it passes on.  The mutant    *)
(* overlooks the signal.                                                   *)
NoFileVerdictsKind(i) == IF job[i] = "failed" THEN {"failed"} ELSE {"succeeded"}
NoFileVerdicts(i) ==
    IF shim[i] = "exited" THEN {IF job[i] = "succeeded" THEN "succeeded" ELSE "failed"}
    ELSE IF told THEN {"cancelled"}
    ELSE {"failed"} \cup (IF asked \/ stopping THEN {"cancelled"} ELSE {})
ReadResult ==
    /\ Serving /\ drive = "wait" /\ shim[mine] \in {"exited", "killed"}
    /\ ClearCancelMark(attempt)
    /\ LET i == file[attempt] IN
        IF i # 0
        THEN /\ heard' = [from |-> i, verdict |-> Said(i)]
             /\ UNCHANGED job
        ELSE /\ \E o \in NoFileVerdicts(mine) : heard' = [from |-> mine, verdict |-> o]
             /\ job' = IF base = mine THEN VerifiedGroupKill(mine) ELSE job
    /\ drive' = "record"
    /\ UNCHANGED <<rowVars, launched, made, shim, told, file, stamped, place, pass, token,
                   mine, stopping, bootVars, faults, errors>>

(* runStep's locals go with it.                                            *)
Returned == mine' = 0 /\ told' = FALSE /\ heard' = [from |-> 0, verdict |-> "none"]

(* RecordStepOutcome; the file goes only after the commit.                 *)
RecordStepOutcome ==
    /\ Serving /\ drive = "record" /\ ~stopping
    /\ Holds /\ step = "running"
    /\ step' = Settled(heard.verdict)
    /\ drive' = "unlink"
    /\ Returned
    /\ UNCHANGED <<run, attempt, epoch, lease, base, asked, launchVars, spoolVars, place,
                   pass, token, stopping, bootVars, faults, errors>>

RemoveResult ==
    /\ Serving /\ drive = "unlink"
    /\ Remove(attempt)
    /\ drive' = "top"
    /\ UNCHANGED <<rowVars, launchVars, stamped, place, pass, token, spawnVars, stopping,
                   bootVars, faults, errors>>

(* ExecuteRun gives up without a verdict: the daemon is stopping, or the   *)
(* log, the step's output or the store refused.                            *)
GiveUp ==
    /\ Serving /\ drive \in {"top", "spawn", "record"}
    /\ \/ stopping /\ UNCHANGED errors
       \/ ~stopping /\ errors < MaxErrors /\ errors' = errors + 1
    /\ drive' = "owed"
    /\ Returned
    /\ UNCHANGED <<rowVars, launchVars, spoolVars, place, pass, token, stopping, bootVars,
                   faults>>

(* DrainRun: the attempt number goes back with the step.  Another holder's *)
(* run it leaves alone; here the keeper's renewals rule that out.          *)
DrainRun ==
    /\ Serving /\ drive = "owed" /\ Holds
    /\ run' = "queued"
    /\ epoch' = epoch + 1
    /\ lease' = "none"
    /\ step' = IF step = "running" THEN "pending" ELSE step
    /\ attempt' = IF step = "running" THEN attempt - 1 ELSE attempt
    /\ drive' = "idle"
    /\ UNCHANGED <<base, asked, launchVars, spoolVars, place, pass, token, spawnVars,
                   stopping, bootVars, faults, errors>>

-----------------------------------------------------------------------------
(* The shim and its job.                                                   *)

StartJob(i) ==
    /\ shim[i] = "up" /\ job[i] = "none"
    /\ \E j \in {"up", "failed"} : job' = [job EXCEPT ![i] = j]
    /\ UNCHANGED <<rowVars, launched, made, shim, spoolVars, daemonVars, bootVars,
                   faults, errors>>

(* By itself, or by the step's own time limit.                             *)
JobEnds(i) ==
    /\ job[i] = "up"
    /\ \E o \in {"succeeded", "failed"} : job' = [job EXCEPT ![i] = o]
    /\ UNCHANGED <<rowVars, launched, made, shim, spoolVars, daemonVars, bootVars,
                   faults, errors>>

(* The wait loop's two orders to kill: the pipe's end, a forwarded signal. *)
SignalForwarded == told
ShimKills(i) ==
    /\ shim[i] = "up" /\ job[i] = "up"
    /\ SignalForwarded \/ ~WatchdogOpen(i)
    /\ job' = VerifiedGroupKill(i)
    /\ UNCHANGED <<rowVars, launched, made, shim, spoolVars, daemonVars, bootVars,
                   faults, errors>>

(* The end of ShimMain: read the mark, write the result durably, exit.     *)
WriteResult(i) ==
    /\ shim[i] = "up" /\ job[i] \in Ended
    /\ file' = [file EXCEPT ![made[i].attempt] = i]
    /\ stamped' = [stamped EXCEPT ![i] = job[i] = "signalled" /\ CancelMarked(made[i].attempt)]
    /\ shim' = [shim EXCEPT ![i] = "exited"]
    /\ UNCHANGED <<rowVars, launched, made, job, mark, daemonVars, bootVars, faults,
                   errors>>

(* The shim ends without a result: killed, or its write failed.            *)
ShimDies(i) ==
    /\ shim[i] = "up"
    /\ faults < MaxFaults
    /\ faults' = faults + 1
    /\ \/ shim' = [shim EXCEPT ![i] = "killed"]
       \/ job[i] \in Ended /\ shim' = [shim EXCEPT ![i] = "exited"]
    /\ UNCHANGED <<rowVars, launched, made, job, spoolVars, daemonVars, bootVars, errors>>

-----------------------------------------------------------------------------
(* The daemon's life.                                                      *)

Down ==
    /\ place' = "down"
    /\ pass' = {}
    /\ drive' = "idle" /\ token' = 0 /\ stopping' = FALSE
    /\ Returned

Stop ==
    /\ Serving /\ ~stopping
    /\ stopping' = TRUE
    /\ UNCHANGED <<rowVars, launchVars, spoolVars, place, pass, drive, token, spawnVars,
                   bootVars, faults, errors>>

(* A clean exit waits for the drive; a kill does not.                      *)
Exit ==
    /\ Serving /\ stopping /\ drive = "idle"
    /\ Down
    /\ UNCHANGED <<rowVars, launchVars, spoolVars, bootVars, faults, errors>>

Crash ==
    /\ place # "down"
    /\ Down
    /\ UNCHANGED <<rowVars, launchVars, spoolVars, bootVars, faults, errors>>

(* Results were fsynced and stay; marks were not and may go.               *)
PowerLoss ==
    /\ boot < MaxBoots
    /\ boot' = boot + 1
    /\ Down
    /\ shim' = [i \in Launches |-> IF shim[i] = "up" THEN "killed" ELSE shim[i]]
    /\ job' = [i \in Launches |-> IF job[i] = "up" THEN "signalled" ELSE job[i]]
    /\ \E left \in SUBSET Attempts :
            mark' = [a \in Attempts |-> mark[a] /\ a \in left]
    /\ UNCHANGED <<rowVars, launched, made, file, stamped, bootOnFile, changed, faults,
                   errors>>

(* The keeper renews while a drive lives, so a crash leaves forty of the   *)
(* sixty seconds; by default the shims are done after ten.  The skew of    *)
(* ten more that makes a lease dead outlasts the start-up sequence.        *)
LeaseElapses ==
    /\ drive = "idle"
    /\ \/ /\ lease = "live" /\ lease' = "lapsed"
          /\ GraceFits => \A i \in Launches : shim[i] # "up"
       \/ lease = "lapsed" /\ lease' = "dead" /\ place \in {"down", "serve"}
    /\ UNCHANGED <<run, step, attempt, epoch, base, asked, launchVars, spoolVars, daemonVars,
                   bootVars, faults, errors>>

-----------------------------------------------------------------------------
(* OnStartup: session, sweep, spool, reap, converge, serve.                *)

StartSession ==
    /\ place = "down"
    /\ place' = "sweep"
    /\ changed' = (bootOnFile # boot)
    /\ bootOnFile' = boot
    /\ UNCHANGED <<rowVars, launchVars, spoolVars, pass, driveVars, boot, faults, errors>>

(* Ownership.Classify: only the process on the step's row is known, and it *)
(* is left alone for as long as its run and its step say running.          *)
KnownAttempts  == {base} \ {0}
ActiveAttempts == IF run = "running" /\ step = "running" THEN KnownAttempts ELSE {}
Orphans == {i \in KnownAttempts \ ActiveAttempts : job[i] = "up"}
Swept == [i \in Launches |-> IF i \in Orphans THEN "signalled" ELSE job[i]]

(* Where the sweep leads, finished or not; the mutant hands runs back next.*)
AfterSweepReap == "reap"
AfterSweep     == "list"
SweepProcesses ==
    /\ place = "sweep"
    /\ \/ ~changed /\ job' = Swept
       \/ UNCHANGED job
    /\ place' = AfterSweep
    /\ UNCHANGED <<rowVars, launched, made, shim, spoolVars, pass, driveVars, bootVars,
                   faults, errors>>

List ==
    /\ place = "list"
    /\ place' = "spool"
    /\ pass' = {a \in Attempts : file[a] # 0}
    /\ UNCHANGED <<rowVars, launchVars, spoolVars, driveVars, bootVars, faults, errors>>

(* CommitSpooledOutcome's admission of the file under a: the token, a void *)
(* or expired lease, and a step still running that attempt.  The mutant    *)
(* takes the attempt's number for its identity.                            *)
TokenUnread(a)   == TRUE
TokenMatches(a)  == made[file[a]].token = epoch
LeaseVoid(a)     == made[file[a]].boot # bootOnFile
HeldByAnother(a) == ~LeaseVoid(a) /\ (run # "running" \/ lease = "live")
IsRunning(a)     == run = "running" /\ step = "running" /\ attempt = a

Archive(a) ==
    /\ Remove(a)
    /\ pass' = pass \ {a}
    /\ UNCHANGED <<step, place>>
ConsumeSpoolResult(a) ==
    /\ place = "spool" /\ a \in pass /\ \A b \in pass : a <= b
    /\ \/ /\ TokenMatches(a) /\ ~HeldByAnother(a) /\ IsRunning(a)
          /\ step' = Settled(Said(file[a]))
          /\ place' = "unlink"
          /\ UNCHANGED <<file, mark, pass>>
       \/ /\ TokenMatches(a) /\ HeldByAnother(a)
          /\ pass' = pass \ {a}
          /\ UNCHANGED <<step, place, file, mark>>
       \/ ~TokenMatches(a) /\ Archive(a)
       \/ TokenMatches(a) /\ ~HeldByAnother(a) /\ ~IsRunning(a) /\ Archive(a)
    /\ UNCHANGED <<run, attempt, epoch, lease, base, asked, launchVars, stamped, driveVars,
                   bootVars, faults, errors>>

(* spool.Remove after the commit; a crash in between leaves the file.      *)
RemoveCommitted ==
    /\ place = "unlink"
    /\ Remove(attempt)
    /\ pass' = pass \ {attempt}
    /\ place' = "spool"
    /\ UNCHANGED <<rowVars, launchVars, stamped, driveVars, bootVars, faults, errors>>

SpoolPassEnds ==
    /\ place = "spool" /\ pass = {}
    /\ place' = "reap"
    /\ UNCHANGED <<rowVars, launchVars, spoolVars, pass, driveVars, bootVars, faults, errors>>

(* An error ends the pass, and the start-up goes on.                       *)
SpoolPassFails ==
    /\ place \in {"spool", "unlink"}
    /\ errors < MaxErrors
    /\ errors' = errors + 1
    /\ pass' = {}
    /\ place' = "reap"
    /\ UNCHANGED <<rowVars, launchVars, spoolVars, driveVars, bootVars, faults>>

(* reapOneTx for a run of one step: the running attempt is lost.           *)
Reaped ==
    LET after == IF asked /\ step \in {"pending", "running"} THEN "cancelled"
                 ELSE IF step = "running" THEN Settled("failed") ELSE step IN
    /\ step' = after
    /\ run' = IF after \in Terminal THEN "done" ELSE "queued"
    /\ epoch' = epoch + 1
    /\ lease' = "none"
    /\ UNCHANGED <<attempt, base, asked>>

(* The start-up reap takes every run after a changed boot, otherwise the   *)
(* dead leases; the mutant is told on every start that the boot changed.   *)
BootSweepAlways == run = "running"
ReapableAtStart == run = "running" /\ (changed \/ lease = "dead")
StartupReap ==
    /\ place = "reap"
    /\ place' = "converge"
    /\ IF ReapableAtStart THEN Reaped ELSE UNCHANGED rowVars
    /\ UNCHANGED <<launchVars, spoolVars, pass, driveVars, bootVars, faults, errors>>

Converged == run # "done" /\ lease # "live" /\ step \in Terminal
ReconcileRunStates ==
    /\ place \in {"converge", "serve"}
    /\ place' = "serve"
    /\ IF Converged
       THEN run' = "done" /\ lease' = "none"
       ELSE UNCHANGED <<run, lease>>
    /\ UNCHANGED <<step, attempt, epoch, base, asked, launchVars, spoolVars, pass, driveVars,
                   bootVars, faults, errors>>

(* The loops that serve: the reaper, and Periodic's sweep.  Periodic is    *)
(* given no spool directory, so it looks at no file.                       *)
ReapExpiredRuns ==
    /\ Serving /\ run = "running" /\ lease = "dead"
    /\ Reaped
    /\ UNCHANGED <<launchVars, spoolVars, daemonVars, bootVars, faults, errors>>

PeriodicSweep ==
    /\ Serving /\ Orphans # {}
    /\ job' = Swept
    /\ UNCHANGED <<rowVars, launched, made, shim, spoolVars, daemonVars, bootVars,
                   faults, errors>>

-----------------------------------------------------------------------------
Daemon ==
    \/ ClaimRuns \/ Loop \/ SpawnViaShim \/ RecordAttemptProcess \/ CancelStep \/ ReadResult
    \/ RecordStepOutcome \/ RemoveResult \/ GiveUp \/ DrainRun \/ Exit
    \/ ReapExpiredRuns \/ PeriodicSweep

Startup ==
    \/ StartSession \/ SweepProcesses \/ List
    \/ \E a \in Attempts : ConsumeSpoolResult(a)
    \/ RemoveCommitted \/ SpoolPassEnds \/ SpoolPassFails \/ StartupReap \/ ReconcileRunStates

Shims ==
    \E i \in Launches :
        \/ StartJob(i) \/ JobEnds(i) \/ ShimKills(i) \/ WriteResult(i) \/ ShimDies(i)

Next ==
    \/ RequestCancel \/ Stop \/ Crash \/ PowerLoss \/ LeaseElapses
    \/ Daemon \/ Startup \/ Shims

Spec == Init /\ [][Next]_vars

-----------------------------------------------------------------------------
(* Properties.                                                             *)

(* Every row, process and file stays in its domain; in particular a file   *)
(* stands under the attempt number its launch was made for.                *)
TypeOK ==
    /\ run \in {"queued", "running", "done"}
    /\ step \in {"pending", "running"} \cup Terminal
    /\ attempt \in 0..Budget /\ epoch \in Nat
    /\ lease \in {"none", "live", "lapsed", "dead"}
    /\ base \in 0..MaxLaunches /\ launched \in 0..MaxLaunches
    /\ shim \in [Launches -> {"none", "up", "exited", "killed"}]
    /\ job \in [Launches -> {"none", "up"} \cup Ended]
    /\ \A a \in Attempts : file[a] # 0 => made[file[a]].attempt = a
    /\ drive \in {"idle", "top", "spawn", "wait", "record", "unlink", "owed"}
    /\ place \in {"down", "sweep", "list", "spool", "unlink", "reap", "converge", "serve"}
    /\ pass \subseteq Attempts

(* G6: as long as no shim is lost, at most one job of the step runs,       *)
(* through kills of the daemon, restarts and hand-backs: the lease outlasts*)
(* the shim that is ending the old one.                                    *)
OneJobAtATime ==
    faults = 0 => Cardinality({i \in Launches : job[i] = "up"}) <= 1

(* A verdict that start-up takes from a file was written by a launch made  *)
(* for this very attempt under this very token, and says what its job did. *)
SpooledVerdictIsItsOwn ==
    [][place = "spool" /\ step' # step =>
            \E i \in Launches : Current(i) /\ job[i] \in Ended /\ step' = Settled(Said(i))]_vars

(* W8: the start-up sequence never hands a run back over a result of its   *)
(* running attempt that is on disk, unless the store failed the spool pass.*)
StartupKeepsKnownResults ==
    [][place = "reap" /\ step = "running" /\ epoch' > epoch /\ errors = 0 =>
            \A a \in Attempts : file[a] # 0 => ~Current(file[a])]_vars

(* G3: a step that counts as succeeded had a job that ran to success,      *)
(* whichever path its verdict took.                                        *)
SucceededRan == step = "succeeded" => \E i \in Launches : job[i] = "succeeded"

=============================================================================
