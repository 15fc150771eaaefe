------------------------------- MODULE Repair -------------------------------
(***************************************************************************)
(* fsck and its repairs, beside the run lifecycle they repair.             *)
(*                                                                         *)
(* A daemon serves, stops or dies; while the state is not being served,    *)
(* rows may be damaged behind the machines' backs (the injections of       *)
(* store/inject.go are the catalogue of that damage) and an operator may   *)
(* run `paceq fsck --repair`.  Both the daemon and the repair hold the     *)
(* exclusive state lock, so they never overlap.  The repair is a sweep     *)
(* that decides which repairs to run, and then one transaction per repair; *)
(* it may die between any two of them.                                     *)
(*                                                                         *)
(* The run is the one of RunLifecycle; I3, I6 and I9 (dedup identities,    *)
(* tick slots, the step graph) are about rows that module does not have,   *)
(* so a critical break is one flag nothing but damage writes.              *)
(***************************************************************************)
EXTENDS RunLifecycle

CONSTANTS
    Scopes,     \* the --only lists an operator may type; {} is every check
    MaxDamage   \* bound: rows damaged by hand

(* The checks with a repair, in the order FsckRepair runs them.            *)
Repairs == <<"I1", "I2", "I14", "reason">>
Checks  == {"I1", "I2", "I5", "I8", "I10", "I14", "reason", "critical"}

ASSUME DamageAssumption == MaxDamage \in Nat
ASSUME ScopesAssumption == Scopes \subseteq SUBSET Checks

VARIABLES
    lock,       \* who holds the state lock: "free", "serve" or "fsck"
    critical,   \* an I3, I6 or I9 break stands
    legacy,     \* terminal steps whose reason code is unusable
    stray,      \* steps a repair left running: no result file carries their token
    scope,      \* the --only list of the repair at work; {} is all of them
    queue,      \* the repairs its sweep found and it has not run yet
    swept,      \* the repair is past its sweep
    damages     \* how much of the MaxDamage bound is spent

repairVars == <<lock, critical, legacy, stray, scope, queue, swept, damages>>
allVars    == <<vars, repairVars>>

-----------------------------------------------------------------------------
(* The sweep.                                                              *)

OrphanedRunning == state = "running" /\ (owner = NoOne \/ lease \in {"none", "dead"})
StrandedSteps   == {s \in Steps : state \in TerminalRun /\ step[s] \in {"pending", "running"}}
OffBudget       == {s \in Steps : attempt[s] < 0 \/ attempt[s] > maxAttempts[s]
                        \/ (step[s] \in {"running", "succeeded", "failed"} /\ attempt[s] < 1)}
StartedEarly    == {s \in RunningSteps : \E u \in Needs[s] : step[u] # "succeeded"}
RunStateAgrees  ==
    LET want == RunAggregate(step, IsRunLevelFailure(code)) IN
    want = state \/ (want = "running" /\ state = "queued")
UnexplainedHold == state = "queued" /\ ~due /\ defer = "none"
UnexplainedRun  == state \in TerminalRun /\ code = "none"

Fsck == {c \in Checks :
    \/ c = "I1" /\ OrphanedRunning
    \/ c = "I2" /\ StrandedSteps # {}
    \/ c = "I5" /\ OffBudget # {}
    \/ c = "I8" /\ StartedEarly # {}
    \/ c = "I10" /\ ~RunStateAgrees
    \/ c = "I14" /\ UnexplainedHold
    \/ c = "reason" /\ (UnexplainedRun \/ legacy # {})
    \/ c = "critical" /\ critical}

InScope(c) == scope = {} \/ c \in scope

-----------------------------------------------------------------------------
(* The daemon.                                                             *)

(* The lifecycle runs only under the lock; a cancel request and the clock  *)
(* need no daemon.  A step that leaves its state takes its reason along,   *)
(* and an attempt of an earlier token has no result to commit.             *)
Lifecycle ==
    /\ \/ lock = "serve" /\ Next
       \/ Time \/ RequestCancel
    /\ \A e \in Executors, o \in Outcomes : cur[e] \in stray => ~CommitSpooledOutcome(e, o)
    /\ legacy' = {s \in legacy : step'[s] = step[s]}
    /\ stray' = {s \in stray : step'[s] = step[s]}
    /\ UNCHANGED <<lock, critical, scope, queue, swept, damages>>

(* The gate at startup: a critical finding refuses the start, any other    *)
(* finding is logged and served.  The mutant refuses on every finding.     *)
GateWantsClean == Fsck = {}
GateOpen       == ~critical

Serve ==
    /\ lock = "free"
    /\ GateOpen
    /\ lock' = "serve"
    /\ UNCHANGED <<vars, critical, legacy, stray, scope, queue, swept, damages>>

(* The kernel drops the lock with the process.                             *)
ServeEnds ==
    /\ lock = "serve" /\ NobodyAlive
    /\ lock' = "free"
    /\ UNCHANGED <<vars, critical, legacy, stray, scope, queue, swept, damages>>

-----------------------------------------------------------------------------
(* Damage.                                                                 *)

Spend == lock = "free" /\ damages < MaxDamage /\ damages' = damages + 1

PlantStepPending(s) ==
    /\ Spend
    /\ state = "succeeded" /\ step[s] = "succeeded"
    /\ step' = [step EXCEPT ![s] = "pending"]
    /\ legacy' = legacy \ {s}
    /\ UNCHANGED <<runVars, attempt, maxAttempts, gate, driveVars, interrupts,
                   lock, critical, stray, scope, queue, swept>>

(* Every succeeded step of the run, whatever the name says.                *)
PlantFirstSucceededStepFailed ==
    /\ Spend
    /\ state = "succeeded" /\ AnyIs(step, "succeeded")
    /\ step' = [s \in Steps |-> IF step[s] = "succeeded" THEN "failed" ELSE step[s]]
    /\ UNCHANGED <<runVars, attempt, maxAttempts, gate, driveVars, interrupts,
                   lock, critical, legacy, stray, scope,
                   queue, swept>>

PlantUnexplainedDeferral ==
    /\ Spend
    /\ state = "queued"
    /\ due' = FALSE /\ defer' = "none"
    /\ UNCHANGED <<state, owner, epoch, lease, cancel, crashes, code, stepVars, driveVars,
                   interrupts, lock, critical, legacy, stray, scope,
                   queue, swept>>

PlantUnexplainedTerminalRun ==
    /\ Spend
    /\ state \in TerminalRun
    /\ code' = "none"
    /\ UNCHANGED <<state, owner, epoch, lease, due, cancel, crashes, defer, stepVars,
                   driveVars, interrupts, lock, critical, legacy, stray, scope,
                   queue, swept>>

(* A terminal step of a release that had no reason codes.                  *)
LegacyStep(s) ==
    /\ Spend
    /\ step[s] \in TerminalStep /\ s \notin legacy
    /\ legacy' = legacy \cup {s}
    /\ UNCHANGED <<vars, lock, critical, stray, scope, queue, swept>>

(* InjectDuplicateRunKey, InjectDependencyCycle, a second tick in a slot.  *)
PlantCritical ==
    /\ Spend
    /\ critical' = TRUE
    /\ UNCHANGED <<vars, lock, legacy, stray, scope, queue, swept>>

Damage ==
    \/ \E s \in Steps : PlantStepPending(s) \/ LegacyStep(s)
    \/ PlantFirstSucceededStepFailed \/ PlantUnexplainedDeferral
    \/ PlantUnexplainedTerminalRun \/ PlantCritical

-----------------------------------------------------------------------------
(* The repair.                                                             *)

(* OpenState: the lock first, then the --only list as the operator typed   *)
(* it.                                                                     *)
FsckOpens ==
    /\ lock = "free"
    /\ lock' = "fsck"
    /\ swept' = FALSE
    /\ scope' \in Scopes
    /\ UNCHANGED <<vars, critical, legacy, stray, queue, damages>>

(* The sweep, the scope and then the refusal, in that order: a critical    *)
(* finding outside the scope asks for no --confirm.                        *)
Sweep(confirm) ==
    /\ lock = "fsck" /\ ~swept
    /\ "critical" \in Fsck /\ InScope("critical") => confirm
    /\ swept' = TRUE
    /\ queue' = {c \in Fsck : InScope(c) /\ \E i \in DOMAIN Repairs : Repairs[i] = c}
    /\ UNCHANGED <<vars, lock, critical, legacy, stray, scope, damages>>

(* The refusal, an error in any repair, a kill, or the end of the work.    *)
FsckEnds ==
    /\ lock = "fsck"
    /\ lock' = "free"
    /\ scope' = {} /\ queue' = {} /\ swept' = FALSE
    /\ UNCHANGED <<vars, critical, legacy, stray, damages>>

(* The next repair in FsckRepair's order.                                  *)
Turn(c) ==
    /\ lock = "fsck" /\ c \in queue
    /\ \E i \in DOMAIN Repairs :
          Repairs[i] = c /\ \A j \in 1..(i - 1) : Repairs[j] \notin queue
    /\ queue' = queue \ {c}
    /\ UNCHANGED <<lock, critical, scope, swept, damages>>

(* repairOrphanedRunning: the runs row alone goes back, as the reaper's    *)
(* requeue would write it.  A spent crash budget is left to the reaper.    *)
(* The mutant holds the run back and does not say why.                     *)
HoldSaysNothing == "none"
HoldReason      == "after_crash"
RepairOrphanedRunning ==
    /\ Turn("I1")
    /\ IF OrphanedRunning /\ crashes + 1 <= MaxCrashCount
       THEN /\ state' = "queued"
            /\ owner' = NoOne
            /\ lease' = "none"
            /\ epoch' = epoch + 1
            /\ crashes' = crashes + 1
            /\ defer' = HoldReason
            /\ due' = FALSE
            /\ stray' = RunningSteps
            /\ UNCHANGED <<cancel, code>>
       ELSE UNCHANGED <<runVars, stray>>
    /\ UNCHANGED <<stepVars, driveVars, interrupts, legacy>>

(* repairCancelRunningStepTx and repairSkipPendingStepTx: no edge leads    *)
(* from pending to cancelled.                                              *)
ClosedStep(s) == IF step[s] = "running" THEN "cancelled" ELSE "skipped"

(* repairStrandedSteps; the run stays as it is.                            *)
RepairStrandedSteps ==
    /\ Turn("I2")
    /\ step' = [s \in Steps |-> IF s \in StrandedSteps THEN ClosedStep(s) ELSE step[s]]
    /\ UNCHANGED <<runVars, attempt, maxAttempts, gate, driveVars, interrupts, legacy, stray>>

(* repairUnexplainedDeferral: the hold stays and says "unspecified".       *)
RepairUnexplainedDeferral ==
    /\ Turn("I14")
    /\ defer' = IF UnexplainedHold THEN "unspecified" ELSE defer
    /\ UNCHANGED <<state, owner, epoch, lease, due, cancel, crashes, code,
                   stepVars, driveVars, interrupts, legacy, stray>>

(* repairLegacyReasons: terminal runs and terminal steps in one            *)
(* transaction.                                                            *)
StampedSteps   == {}
RepairLegacyReasons ==
    /\ Turn("reason")
    /\ code' = IF UnexplainedRun THEN "RUN_LEGACY_UNSPECIFIED" ELSE code
    /\ legacy' = StampedSteps
    /\ UNCHANGED <<state, owner, epoch, lease, due, cancel, crashes, defer,
                   stepVars, driveVars, interrupts, stray>>

Repair ==
    \/ \E confirm \in BOOLEAN : Sweep(confirm)
    \/ RepairOrphanedRunning \/ RepairStrandedSteps
    \/ RepairUnexplainedDeferral \/ RepairLegacyReasons

-----------------------------------------------------------------------------
RepairInit ==
    /\ Init
    /\ lock = "free" /\ critical = FALSE /\ legacy = {} /\ stray = {}
    /\ scope = {} /\ queue = {} /\ swept = FALSE /\ damages = 0

RepairNext ==
    \/ Lifecycle \/ Serve \/ ServeEnds
    \/ Damage \/ FsckOpens \/ Repair \/ FsckEnds

RepairSpec == RepairInit /\ [][RepairNext]_allVars

(* What a daemon's loops and the clock keep doing: the pool drives every   *)
(* run it took (a step's process ends, by itself or at its ceiling), the   *)
(* keeper renews, the dispatcher claims and sweeps, the reaper reaps, and  *)
(* deadlines pass.  An operator starts the daemon again and ends a repair  *)
(* that was begun.  Crashes, stops and reopens owe nothing.                *)
Served(A) == lock = "serve" /\ A /\ Lifecycle
RepairFairness ==
    /\ \A e \in Executors :
          SF_allVars(Served(Drive(e))) /\ SF_allVars(Served(RenewRunLeases(e)))
    /\ SF_allVars(Served(\E e \in Executors : ClaimRun(e)))
    /\ SF_allVars(Served(CloseCancelledQueued))
    /\ SF_allVars(Served(Reap))
    /\ WF_allVars(Lifecycle /\ LeaseElapses) /\ WF_allVars(Lifecycle /\ BackoffElapses)
    /\ \A s \in Steps : WF_allVars(Lifecycle /\ RetryGateOpens(s))
    /\ SF_allVars(Serve) /\ WF_allVars(FsckEnds)

FairRepairSpec == RepairSpec /\ RepairFairness

-----------------------------------------------------------------------------
(* Properties.                                                             *)

(* No repair, whole or cut short, trades one finding for another: what a   *)
(* sweep reports after any of its transactions it reported before.         *)
RepairAddsNoFinding ==
    [][Repair => Fsck' \subseteq Fsck]_allVars

(* G5 over a state that was damaged, repaired in part and served again: a  *)
(* run still makes its way to a terminal state, unless a critical finding  *)
(* keeps the daemon from starting.                                         *)
RepairedRunEnds == state \notin TerminalRun ~> (state \in TerminalRun \/ critical)

=============================================================================
