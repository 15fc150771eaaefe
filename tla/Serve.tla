------------------------------- MODULE Serve --------------------------------
(***************************************************************************)
(* The life of the daemon: start, service, stop and death of one `paceq    *)
(* serve` process after another on one state directory, and the operator's *)
(* `runs retry`, which writes through the daemon's socket or around it.    *)
(*                                                                         *)
(* A start takes the state lock, migrates, passes the health gate, opens a *)
(* session row and reconciles.  Service is a group of loops and a pool of  *)
(* executors, each driving one run and one process group.  A stop closes   *)
(* the intake, takes a census of the pool, ends the executors, looks at    *)
(* the process table for what they left, and only then closes the session  *)
(* as clean.  The inside of a run is RunLifecycle's and of an attempt      *)
(* AttemptSpool's; here a run is queued, held or done.                     *)
(***************************************************************************)
EXTENDS Integers, Sequences, FiniteSets

CONSTANTS
    Runs,           \* runs queued from the beginning
    Target,         \* the run the operator retries once it is done
    Workers,        \* slots of the executor pool
    Migrations,     \* versions this build knows
    MaxStarts       \* bound: sessions; the last daemon is neither stopped nor killed,
                    \*   and no sweep of its reaper fails

ASSUME BoundsAssumption ==
    Workers \in Nat \ {0} /\ Migrations \in Nat /\ MaxStarts \in Nat \ {0}
ASSUME InputAssumption == Target \in Runs

(* The goroutines of the group that matter here.  Scheduler, sensor,       *)
(* notifier, disk guard, heartbeat and the lease renewals live and fail    *)
(* like the dispatcher, and maintenance like the reaper.                   *)
Loops == {"dispatcher", "reaper"}

VARIABLES
    phase,      \* where Serve is
    lock,       \* the flock: "free", "serve" or "cli"
    schema,     \* highest migration in the ledger
    migrator,   \* the migration lock's row: "free", "mine", or of a process gone:
                \*   "dead" or, by its pid, seemingly "alive"
    sessions,   \* how each daemon_sessions row ended, in order
    cancelled,  \* the group's context has ended
    loops,      \* loops that have not returned
    body,       \* the reaper's leadership: "none", "up" or "dead"
    role,       \* the reaper's lease row: the session that holds it (0: no row) and whether it lives
    hand,       \* runs the dispatcher read as claimable and has not handed over
    exec,       \* the pool's book: where each run's executor is
    told,       \* execCtx has ended
    row,        \* each run's row: "queued", "held" or "done"
    lease,      \* its run lease lives
    started,    \* the session whose process the running step names (0: none)
    procs,      \* live process groups: run, and the session that started it
    owed,       \* the drain's census
    late,       \* runs handed over after the census, with the session (observation only)
    survived,   \* what reapRunGroups could not end
    sock,       \* the socket file exists
    cmd,        \* the operator's command
    applied     \* whether its transaction ever committed

daemonVars == <<phase, lock, schema, migrator, sessions, sock>>
groupVars  == <<cancelled, loops, body, role>>
poolVars   == <<hand, exec, told>>
runVars    == <<row, lease, started, procs>>
stopVars   == <<owed, late, survived>>
cmdVars    == <<cmd, applied>>
vars       == <<daemonVars, groupVars, poolVars, runVars, stopVars, cmdVars>>

Me       == Len(sessions)
Final    == Me >= MaxStarts
Book     == {r \in Runs : exec[r] # "idle"}
StoreOpen == phase \in {"serving", "intake", "census", "draining", "closing", "quiet"}
Stopping == phase \in {"intake", "census", "draining", "closing", "quiet", "exiting"}
Own(r)   == <<r, Me>>   \* the process group this daemon starts for r

(* Ownership.Classify: a process of ours that no running step names.       *)
Orphans  == {p \in procs : started[p[1]] # p[2]}

TypeOK ==
    /\ phase \in {"down", "opening", "session", "serving", "intake", "census",
                  "draining", "closing", "quiet", "exiting"}
    /\ lock \in {"free", "serve", "cli"}
    /\ schema \in 0..Migrations /\ migrator \in {"free", "mine", "dead", "alive"}
    /\ sessions \in Seq({"open", "clean", "crash"}) /\ Me <= MaxStarts
    /\ cancelled \in BOOLEAN /\ told \in BOOLEAN /\ sock \in BOOLEAN
    /\ loops \subseteq Loops
    /\ body \in {"none", "up", "dead"}
    /\ role \in [holder : 0..MaxStarts, live : BOOLEAN]
    /\ hand \subseteq Runs /\ owed \subseteq Runs
    /\ exec \in [Runs -> {"idle", "fresh", "claimed", "running", "ending"}]
    /\ Cardinality(Book) <= Workers
    /\ row \in [Runs -> {"queued", "held", "done"}]
    /\ lease \in [Runs -> BOOLEAN]
    /\ started \in [Runs -> 0..MaxStarts]
    /\ procs \subseteq Runs \X (1..MaxStarts)
    /\ {late, survived} \subseteq SUBSET (Runs \X (1..MaxStarts))
    /\ cmd \in {"idle", "posting", "applied", "asking", "trying", "direct", "ok", "refused", "busy"}
    /\ applied \in BOOLEAN

Init ==
    /\ phase = "down" /\ lock = "free" /\ schema = 0 /\ migrator = "free" /\ sessions = <<>> /\ sock = FALSE
    /\ cancelled = FALSE /\ loops = {} /\ body = "none" /\ role = [holder |-> 0, live |-> FALSE]
    /\ hand = {} /\ exec = [r \in Runs |-> "idle"] /\ told = FALSE
    /\ row = [r \in Runs |-> "queued"] /\ lease = [r \in Runs |-> FALSE]
    /\ started = [r \in Runs |-> 0] /\ procs = {}
    /\ owed = {} /\ late = {} /\ survived = {}
    /\ cmd = "idle" /\ applied = FALSE

-----------------------------------------------------------------------------
(* Start                                                                   *)

(* The process is gone, and with it everything kept in memory.  Process    *)
(* groups, rows, the role row and the socket file stay.  A migration lock  *)
(* left behind with nothing pending is never asked for again.              *)
ProcessGone ==
    /\ phase' = "down"
    /\ migrator' \in IF schema = Migrations THEN {"free"}
                     ELSE IF migrator = "mine" THEN {"dead", "alive"} ELSE {migrator}
    /\ hand' = {} /\ exec' = [r \in Runs |-> "idle"] /\ told' = FALSE
    /\ cancelled' = FALSE /\ loops' = {} /\ body' = "none"
    /\ owed' = {} /\ survived' = {}

(* OpenState: the flock before the database.                               *)
OpenState ==
    /\ phase = "down" /\ lock = "free"
    /\ phase' = "opening" /\ lock' = "serve"
    /\ UNCHANGED <<schema, migrator, sessions, sock, groupVars, poolVars, runVars, stopVars, cmdVars>>

(* migrateFS takes the migrator lock only when something is pending.       *)
Pending == schema < Migrations

(* A row whose boot id or pid is gone is taken over at once; a recycled    *)
(* pid keeps it until it expires.                                          *)
HolderAlive == migrator = "alive"

LockMigrations ==
    /\ phase = "opening" /\ Pending /\ migrator # "mine"
    /\ ~HolderAlive
    /\ migrator' = "mine"
    /\ UNCHANGED <<phase, lock, schema, sessions, sock, groupVars, poolVars, runVars, stopVars, cmdVars>>

MigratorLockExpires ==
    /\ HolderAlive
    /\ migrator' = "dead"
    /\ UNCHANGED <<phase, lock, schema, sessions, sock, groupVars, poolVars, runVars, stopVars, cmdVars>>

(* One pending migration, with its ledger row, in one transaction.         *)
ApplyOne ==
    /\ phase = "opening" /\ Pending /\ migrator = "mine"
    /\ schema' = schema + 1
    /\ UNCHANGED <<phase, lock, migrator, sessions, sock, groupVars, poolVars, runVars, stopVars, cmdVars>>

(* The deferred release.  Its error is ignored, and does not matter here.  *)
UnlockMigrations ==
    /\ phase = "opening" /\ ~Pending /\ migrator = "mine"
    /\ migrator' = "free"
    /\ UNCHANGED <<phase, lock, schema, sessions, sock, groupVars, poolVars, runVars, stopVars, cmdVars>>

(* Nothing is pending and the health gate passed: rows still open are      *)
(* closed as crashed and this process's row is written.                    *)
StartSession ==
    /\ phase = "opening" /\ ~Pending /\ migrator # "mine"
    /\ phase' = "session"
    /\ sessions' = Append([k \in 1..Me |-> IF sessions[k] = "open" THEN "crash" ELSE sessions[k]],
                          "open")
    /\ UNCHANGED <<lock, schema, migrator, sock, groupVars, poolVars, runVars, stopVars, cmdVars>>

(* ReapExpiredRuns on the rows of rs.                                      *)
Requeued(rs) == row' = [r \in Runs |-> IF r \in rs THEN "queued" ELSE row[r]]
                /\ started' = [r \in Runs |-> IF r \in rs THEN 0 ELSE started[r]]

Expired == {r \in Runs : row[r] = "held" /\ ~lease[r]}

(* OnStartup, then the loops and the API: the process sweep comes first,   *)
(* while a crashed run's row still names its process, then the reap.       *)
Reconcile ==
    /\ phase = "session"
    /\ \E gone \in SUBSET Orphans : procs' = procs \ gone
    /\ Requeued(Expired)
    /\ phase' = "serving" /\ loops' = Loops /\ sock' = TRUE
    /\ UNCHANGED <<lock, schema, migrator, sessions, cancelled, body, role, lease, poolVars, stopVars, cmdVars>>

(* A start that fails closes the store and leaves its session row open;    *)
(* the process may also be killed, in service and during a stop.           *)
Die ==
    /\ phase # "down" /\ ~Final
    /\ ProcessGone /\ lock' = IF lock = "serve" THEN "free" ELSE lock
    /\ UNCHANGED <<schema, sessions, sock, role, runVars, late, cmdVars>>

(* The second signal: SIGKILL to every registered group, and out.  The     *)
(* registered group is the shim's; the command's own group may outlive it. *)
HardStop ==
    /\ Stopping /\ ProcessGone /\ lock' = IF lock = "serve" THEN "free" ELSE lock
    /\ \E gone \in SUBSET {p \in procs : p[2] = Me} : procs' = procs \ gone
    /\ UNCHANGED <<schema, sessions, sock, role, row, lease, started, late, cmdVars>>

-----------------------------------------------------------------------------
(* The loops                                                               *)

(* The dispatcher's queue read fails: goLoop cancels the group.  The       *)
(* reaper's RunAsLeader never returns an error of its own.                 *)
LoopFails ==
    /\ "dispatcher" \in loops /\ hand = {} /\ ~cancelled /\ ~Final
    /\ loops' = loops \ {"dispatcher"} /\ cancelled' = TRUE
    /\ UNCHANGED <<body, role, daemonVars, poolVars, runVars, stopVars, cmdVars>>

(* Every loop runs under the group's context, whatever context launch was  *)
(* given, so the renewals and the reaper end with the intake.              *)
LoopReturns ==
    /\ "dispatcher" \in loops /\ hand = {} /\ cancelled
    /\ loops' = loops \ {"dispatcher"}
    /\ UNCHANGED <<cancelled, body, role, daemonVars, poolVars, runVars, stopVars, cmdVars>>

(* RunAsLeader on a dead context: the body ends and the row is deleted;    *)
(* the delete may fail, and then the row waits for its ttl.                *)
LeaderReturns ==
    /\ "reaper" \in loops /\ cancelled
    /\ loops' = loops \ {"reaper"} /\ body' = "none"
    /\ \/ role.holder = Me /\ StoreOpen /\ role' = [holder |-> 0, live |-> FALSE]
       \/ UNCHANGED role
    /\ UNCHANGED <<cancelled, daemonVars, poolVars, runVars, stopVars, cmdVars>>

(* Mutant: an expired row is never taken over.                             *)
AcquireFree ==
    /\ "reaper" \in loops /\ body = "none" /\ StoreOpen
    /\ role.holder \in {0, Me}
    /\ role' = [holder |-> Me, live |-> TRUE] /\ body' = "up"
    /\ UNCHANGED <<cancelled, loops, daemonVars, poolVars, runVars, stopVars, cmdVars>>

(* AcquireOrRenew: no row, an expired row, or our own.                     *)
Acquire ==
    /\ "reaper" \in loops /\ body = "none" /\ StoreOpen
    /\ role.holder \in {0, Me} \/ ~role.live
    /\ role' = [holder |-> Me, live |-> TRUE] /\ body' = "up"
    /\ UNCHANGED <<cancelled, loops, daemonVars, poolVars, runVars, stopVars, cmdVars>>

(* The body's error is logged and the leader keeps renewing: nothing       *)
(* starts the body again.                                                  *)
BodyFails ==
    /\ body = "up" /\ ~Final
    /\ body' = "dead"
    /\ UNCHANGED <<cancelled, loops, role, daemonVars, poolVars, runVars, stopVars, cmdVars>>

(* The ttl passes on a role row nobody renews.                             *)
RoleExpires ==
    /\ role.live /\ ~(role.holder = Me /\ "reaper" \in loops)
    /\ role' = [role EXCEPT !.live = FALSE]
    /\ UNCHANGED <<cancelled, loops, body, daemonVars, poolVars, runVars, stopVars, cmdVars>>

(* reaperLoop: the expired-lease sweep, and the periodic process sweep.    *)
(* Both run under the body's context, which ends with the group's.         *)
Reap ==
    /\ body = "up" /\ ~cancelled /\ Expired # {}
    /\ Requeued(Expired)
    /\ UNCHANGED <<lease, procs, daemonVars, groupVars, poolVars, stopVars, cmdVars>>

SweepProcesses ==
    /\ body = "up" /\ ~cancelled /\ Orphans # {}
    /\ \E gone \in SUBSET Orphans : gone # {} /\ procs' = procs \ gone
    /\ UNCHANGED <<row, lease, started, daemonVars, groupVars, poolVars, stopVars, cmdVars>>

(* The ttl passes on a run lease the renewals do not keep: a daemon stalled *)
(* for longer than its leases is RunLifecycle's subject.                   *)
LeaseExpires(r) ==
    /\ lease[r] /\ ~(exec[r] \in {"claimed", "running", "ending"} /\ ~cancelled)
    /\ lease' = [lease EXCEPT ![r] = FALSE]
    /\ UNCHANGED <<row, started, procs, daemonVars, groupVars, poolVars, stopVars, cmdVars>>

(* ClaimableRunIDs.                                                        *)
ReadQueue ==
    /\ "dispatcher" \in loops /\ ~cancelled /\ hand = {}
    /\ {r \in Runs : row[r] = "queued"} \ Book # {}
    /\ hand' = {r \in Runs : row[r] = "queued"}
    /\ UNCHANGED <<exec, told, daemonVars, groupVars, runVars, stopVars, cmdVars>>

(* submit: a run already driven is answered, a full pool ends the pass.    *)
(* Nothing on this path reads a context.                                   *)
Submit(r) ==
    /\ r \in hand
    /\ \/ /\ r \in Book /\ hand' = hand \ {r} /\ UNCHANGED <<exec, late>>
       \/ /\ r \notin Book /\ Cardinality(Book) >= Workers /\ hand' = {} /\ UNCHANGED <<exec, late>>
       \/ /\ r \notin Book /\ Cardinality(Book) < Workers
          /\ hand' = hand \ {r} /\ exec' = [exec EXCEPT ![r] = "fresh"]
          /\ late' = IF phase = "census" THEN late \cup {Own(r)} ELSE late
    /\ UNCHANGED <<told, owed, survived, daemonVars, groupVars, runVars, cmdVars>>

-----------------------------------------------------------------------------
(* The executors                                                           *)

(* The claim, under execCtx: it lands on a queued row, or nothing was ever *)
(* ours and nothing is owed.                                               *)
Claim(r) ==
    /\ exec[r] = "fresh"
    /\ \/ /\ ~told /\ StoreOpen /\ row[r] = "queued"
          /\ row' = [row EXCEPT ![r] = "held"] /\ lease' = [lease EXCEPT ![r] = TRUE]
          /\ exec' = [exec EXCEPT ![r] = "claimed"]
       \/ /\ told \/ ~StoreOpen \/ row[r] # "queued"
          /\ exec' = [exec EXCEPT ![r] = "idle"] /\ UNCHANGED <<row, lease>>
    /\ UNCHANGED <<started, procs, hand, told, daemonVars, groupVars, stopVars, cmdVars>>

(* The step start commits, then the process is forked, which a dead        *)
(* context forbids.                                                        *)
Spawn(r) ==
    /\ exec[r] = "claimed" /\ ~told
    /\ exec' = [exec EXCEPT ![r] = "running"]
    /\ started' = [started EXCEPT ![r] = Me] /\ procs' = procs \cup {Own(r)}
    /\ UNCHANGED <<row, lease, hand, told, daemonVars, groupVars, stopVars, cmdVars>>

(* The process exits and the verdicts commit.                              *)
Finish(r) ==
    /\ exec[r] = "running" /\ ~told
    /\ exec' = [exec EXCEPT ![r] = "idle"]
    /\ row' = [row EXCEPT ![r] = "done"] /\ lease' = [lease EXCEPT ![r] = FALSE]
    /\ started' = [started EXCEPT ![r] = 0] /\ procs' = procs \ {Own(r)}
    /\ UNCHANGED <<hand, told, daemonVars, groupVars, stopVars, cmdVars>>

(* A dead context: the runner signals the group it knows and returns       *)
(* without a verdict; the command's own group may live on.                 *)
CutShort(r) ==
    /\ exec[r] \in {"claimed", "running"} /\ told
    /\ exec' = [exec EXCEPT ![r] = "ending"]
    /\ procs' \in {procs, procs \ {Own(r)}}
    /\ UNCHANGED <<row, lease, started, hand, told, daemonVars, groupVars, stopVars, cmdVars>>

(* handBackWhenOwed: the row goes back to the queue; three failed tries    *)
(* leave it held.                                                          *)
HandBack(r) ==
    /\ exec[r] = "ending"
    /\ exec' = [exec EXCEPT ![r] = "idle"]
    /\ \/ /\ StoreOpen
          /\ row' = [row EXCEPT ![r] = "queued"] /\ lease' = [lease EXCEPT ![r] = FALSE]
          /\ started' = [started EXCEPT ![r] = 0]
       \/ UNCHANGED <<row, lease, started>>
    /\ UNCHANGED <<procs, hand, told, daemonVars, groupVars, stopVars, cmdVars>>

-----------------------------------------------------------------------------
(* Stop                                                                    *)

(* The select: the caller's context ends, and the group's with it; or a    *)
(* loop has failed, once all loops have returned.                          *)
BeginStop ==
    /\ phase = "serving" /\ (~Final \/ loops = {})
    /\ phase' = "intake" /\ cancelled' = TRUE
    /\ UNCHANGED <<lock, schema, migrator, sessions, sock, loops, body, role, poolVars, runVars, stopVars, cmdVars>>

(* Phase one ends with the dispatcher's acknowledgement or with its        *)
(* budget; then the census.                                                *)
TakeCensus ==
    /\ phase = "intake"
    /\ phase' = "census" /\ owed' = Book
    /\ UNCHANGED <<lock, schema, migrator, sessions, sock, late, survived, groupVars, poolVars, runVars, cmdVars>>

StopExec ==
    /\ phase = "census"
    /\ phase' = "draining" /\ told' = TRUE
    /\ UNCHANGED <<lock, schema, migrator, sessions, sock, hand, exec, groupVars, runVars, stopVars, cmdVars>>

(* Mutant: the runs looked for are those still in the book (#232).         *)
ReapBookGroups ==
    /\ phase = "draining"
    /\ phase' = "closing"
    /\ LET live == {p \in procs : p[1] \in Book}
       IN  \E left \in SUBSET live : survived' = left /\ procs' = procs \ (live \ left)
    /\ UNCHANGED <<lock, schema, migrator, sessions, sock, owed, late, row, lease, started, groupVars, poolVars, cmdVars>>

(* The pool is empty or the drain timeout has passed.  reapRunGroups then  *)
(* signals and kills what still carries a run of the census, and reports   *)
(* what even that did not end.                                             *)
ReapRunGroups ==
    /\ phase = "draining"
    /\ phase' = "closing"
    /\ LET live == {p \in procs : p[1] \in owed}
       IN  \E left \in SUBSET live : survived' = left /\ procs' = procs \ (live \ left)
    /\ UNCHANGED <<lock, schema, migrator, sessions, sock, owed, late, row, lease, started, groupVars, poolVars, cmdVars>>

(* The loops returned or missed their deadline; the API goes.              *)
StopApi ==
    /\ phase = "closing"
    /\ phase' = "quiet" /\ sock' = FALSE
    /\ UNCHANGED <<lock, schema, migrator, sessions, groupVars, poolVars, runVars, stopVars, cmdVars>>

(* StopSession, unless something survived, or the write failed; then the   *)
(* checkpoint and the store, whose lock goes last.                         *)
CloseStore ==
    /\ phase = "quiet"
    /\ phase' = "exiting" /\ lock' = "free"
    /\ \/ survived = {} /\ sessions' = [sessions EXCEPT ![Me] = "clean"]
       \/ UNCHANGED sessions
    /\ UNCHANGED <<schema, migrator, sock, groupVars, poolVars, runVars, stopVars, cmdVars>>

(* <-loopsDone has no bound of its own.                                    *)
Return ==
    /\ phase = "exiting" /\ loops = {}
    /\ ProcessGone
    /\ UNCHANGED <<lock, schema, sessions, sock, role, runVars, late, cmdVars>>

-----------------------------------------------------------------------------
(* The operator's retry                                                    *)

(* ReopenTerminalRunByOperator: a finished run goes back to the queue.     *)
Reopen(then) ==
    /\ row[Target] = "done"
    /\ row' = [row EXCEPT ![Target] = "queued"] /\ applied' = TRUE /\ cmd' = then

CallRetry ==
    /\ cmd = "idle" /\ row[Target] = "done"
    /\ cmd' = IF sock THEN "posting" ELSE "asking"
    /\ UNCHANGED <<applied, daemonVars, groupVars, poolVars, runVars, stopVars>>

(* handleRetryRun commits, or answers with a refusal.                      *)
HandleRetry ==
    /\ cmd = "posting" /\ sock /\ StoreOpen
    /\ \/ Reopen("applied")
       \/ row[Target] # "done" /\ cmd' = "refused" /\ UNCHANGED <<row, applied>>
    /\ UNCHANGED <<lease, started, procs, daemonVars, groupVars, poolVars, stopVars>>

Answer ==
    /\ cmd = "applied" /\ phase # "down"
    /\ cmd' = "ok"
    /\ UNCHANGED <<applied, daemonVars, groupVars, poolVars, runVars, stopVars>>

(* A refused dial, a timeout or a connection that broke, before or after   *)
(* the commit, reads as an outage.                                         *)
AnswerLost ==
    /\ cmd \in {"posting", "applied"}
    /\ cmd' = "asking"
    /\ UNCHANGED <<applied, daemonVars, groupVars, poolVars, runVars, stopVars>>

(* An open session row whose process lives.                                *)
DaemonSession == Me > 0 /\ sessions[Me] = "open" /\ phase \notin {"down", "opening"}

(* daemonHoldsState: a live daemon refuses the direct write.               *)
AskForDaemon ==
    /\ cmd = "asking"
    /\ cmd' = IF DaemonSession THEN "refused" ELSE "trying"
    /\ UNCHANGED <<applied, daemonVars, groupVars, poolVars, runVars, stopVars>>

(* OpenState by the command itself.                                        *)
OpenDirect ==
    /\ cmd = "trying"
    /\ IF lock = "free" THEN cmd' = "direct" /\ lock' = "cli" ELSE cmd' = "busy" /\ UNCHANGED lock
    /\ UNCHANGED <<applied, phase, schema, migrator, sessions, sock, groupVars, poolVars, runVars, stopVars>>

WriteDirect ==
    /\ cmd = "direct" /\ lock' = "free"
    /\ \/ Reopen("ok")
       \/ row[Target] # "done" /\ cmd' = "refused" /\ UNCHANGED <<row, applied>>
    /\ UNCHANGED <<lease, started, procs, phase, schema, migrator, sessions, sock, groupVars, poolVars, stopVars>>

-----------------------------------------------------------------------------
Startup  == OpenState \/ LockMigrations \/ ApplyOne \/ UnlockMigrations \/ StartSession \/ Reconcile
LoopStep == \/ LoopReturns \/ LeaderReturns \/ Acquire \/ Reap \/ ReadQueue \/ \E r \in Runs : Submit(r)
ExecStep(r) == Claim(r) \/ Spawn(r) \/ Finish(r) \/ CutShort(r) \/ HandBack(r)
StopStep == \/ BeginStop \/ TakeCensus \/ StopExec \/ ReapRunGroups
            \/ StopApi \/ CloseStore \/ Return
Expiry   == RoleExpires \/ MigratorLockExpires \/ \E r \in Runs : LeaseExpires(r)
Command  == CallRetry \/ HandleRetry \/ Answer \/ AnswerLost \/ AskForDaemon \/ OpenDirect

Next ==
    \/ Startup \/ Die \/ HardStop
    \/ LoopStep \/ LoopFails
    \/ BodyFails \/ SweepProcesses \/ Expiry
    \/ \E r \in Runs : ExecStep(r)
    \/ StopStep \/ Command \/ WriteDirect

Spec == Init /\ [][Next]_vars

(* The supervisor restarts the daemon and a start does not fail for ever;  *)
(* loops and the stop sequence are scheduled; a ttl passes; a command that *)
(* holds the lock finishes.  Executors are trusted to make progress in     *)
(* service only, so no stop rests on one.                                  *)
Fairness ==
    /\ WF_vars(OpenState) /\ SF_vars(LockMigrations) /\ SF_vars(ApplyOne) /\ SF_vars(UnlockMigrations) /\ SF_vars(StartSession) /\ WF_vars(Reconcile)
    /\ WF_vars(Stopping /\ StopStep) /\ WF_vars(loops = {} /\ BeginStop) /\ WF_vars(WriteDirect) /\ WF_vars(RoleExpires) /\ WF_vars(MigratorLockExpires)
    /\ WF_vars(LoopReturns) /\ WF_vars(LeaderReturns) /\ WF_vars(Acquire) /\ WF_vars(Reap) /\ WF_vars(ReadQueue)
    /\ WF_vars(\E r \in Runs : Submit(r))
    /\ \A r \in Runs : WF_vars(LeaseExpires(r)) /\ WF_vars(~Stopping /\ ExecStep(r))

FairSpec == Spec /\ Fairness

-----------------------------------------------------------------------------
(* A session closed as clean left no process running: the census is taken  *)
(* before the executors are told, so a run that leaves the book while its  *)
(* group lives is still looked for.  The promise does not cover a run the  *)
(* dispatcher hands over between the census and the cancel, after it has   *)
(* missed the intake's budget.                                             *)
CleanMeansQuiet ==
    \A p \in procs : sessions[p[2]] = "clean" => p \in late

(* Every run ends, the reopened one too, across loop failures, stops,      *)
(* crashes in any phase and handbacks that failed: the reaper of a later   *)
(* daemon takes over the role lease and requeues what a dead one held.     *)
EveryRunEnds == <>[](\A r \in Runs : row[r] = "done")
=============================================================================
