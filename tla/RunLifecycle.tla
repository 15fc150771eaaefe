---------------------------- MODULE RunLifecycle ----------------------------
(***************************************************************************)
(* One run of paceq from its first claim to its verdict: the runs row, its *)
(* steps rows, and everybody who writes them.                              *)
(*                                                                         *)
(* Every store method is one BEGIN IMMEDIATE transaction (store/tx.go), so *)
(* every write below is one atomic action. What is not atomic is the       *)
(* executor: ExecuteRun (engine/execute.go) reads, decides and writes in   *)
(* separate transactions, and a reaper, an operator, a reconciler or a     *)
(* second executor may commit between any two of them. The fencing token   *)
(* (lease_epoch) is all that keeps a late writer out.                      *)
(*                                                                         *)
(* Time is kept by its consequences.  lease_expires_at is a phase: "live", *)
(* "lapsed" (the deadline has passed) and "dead" (it has passed by more    *)
(* than the clock-skew allowance).  available_at is the Boolean due, and   *)
(* next_attempt_at is a gate: "null", "future" or "due".                   *)
(*                                                                         *)
(* An executor is a name that may own a lease ("serve:<pid>"); it drives   *)
(* the run at most once at a time (executorPool.driving) and may crash and *)
(* come back under the same name.                                          *)
(***************************************************************************)
EXTENDS Integers, FiniteSets

CONSTANTS
    NSteps,         \* steps of the frozen spec, numbered in spec order (steps.idx)
    Needs,          \* Needs[s]: the upstreams of s (step_deps)
    Budget,         \* Budget[s]: max_attempts at materialisation
    Executors,      \* owner names
    NoOne,          \* lease_owner IS NULL
    MaxCrashCount,  \* the poison line
    MaxInterrupts,  \* bound: clean stops, operator reopens and manual recoveries
    StoreFails      \* whether all three tries of a hand-back may fail

Steps == 1..NSteps

ASSUME StepsAssumption == NSteps \in Nat \ {0}
ASSUME NeedsAssumption ==
    /\ Needs \in [Steps -> SUBSET Steps]
    /\ \A s \in Steps : s \notin Needs[s]
ASSUME BudgetAssumption == Budget \in [Steps -> Nat \ {0}]
ASSUME OwnerAssumption == NoOne \notin Executors
ASSUME BoundAssumption ==
    MaxCrashCount \in Nat /\ MaxInterrupts \in Nat /\ StoreFails \in BOOLEAN

RunStates      == {"queued", "running", "succeeded", "failed", "cancelled"}
TerminalRun    == {"succeeded", "failed", "cancelled"}
StepStates     == {"pending", "running", "succeeded", "failed", "skipped", "cancelled"}
TerminalStep   == {"succeeded", "failed", "skipped", "cancelled"}
LeasePhases    == {"none", "live", "lapsed", "dead"}
Gates          == {"null", "future", "due"}
DeferReasons   == {"none", "after_crash", "after_shutdown"}

(* The reason codes a run row may carry; run-level failures outrank steps. *)
RunCodes == {"none", "RUN_REOPENED_OPERATOR", "RUN_SUCCEEDED", "RUN_FAILED_STEP",
             "RUN_CANCELLED_MANUAL", "RUN_TIMED_OUT", "RUN_POISONED"}
IsRunLevelFailure(code) == code = "RUN_POISONED"

(* Where a drive is inside ExecuteRun; "out" is back in the executor pool. *)
Places == {"idle", "top", "pick", "sleep", "start", "exec", "record",
           "list", "skip", "reason", "finish", "observe", "out"}
Outcomes == {"none", "succeeded", "failed", "cancelled", "run_deadline"}

VARIABLES
    \* the runs row
    state, owner, epoch, lease, due, cancel, crashes, defer, code,
    \* the steps rows
    step, attempt, maxAttempts, gate,
    \* the drives: place, token, the lease keeper's entry, its lost signal,
    \* the step in hand, whether its process was killed with the context, its
    \* outcome, the pending list and the verdict read
    pc, tok, held, lost, cur, killed, out, todo, why,
    \* how much of the MaxInterrupts bound is spent
    interrupts

runVars   == <<state, owner, epoch, lease, due, cancel, crashes, defer, code>>
stepVars  == <<step, attempt, maxAttempts, gate>>
driveVars == <<pc, tok, held, lost, cur, killed, out, todo, why>>
vars      == <<runVars, stepVars, driveVars, interrupts>>

-----------------------------------------------------------------------------
(* The pure parts: the two folds of the model package and the closures.    *)

AllTerminal(st) == \A s \in Steps : st[s] \in TerminalStep
AnyIs(st, x)    == \E s \in Steps : st[s] = x

RunAggregate(st, runLevel) ==
    IF runLevel                    THEN "failed"
    ELSE IF ~AllTerminal(st)       THEN "running"
    ELSE IF AnyIs(st, "failed")    THEN "failed"
    ELSE IF AnyIs(st, "cancelled") THEN "cancelled"
    ELSE "succeeded"

TerminalVerdict(st, runLevel) ==
    IF runLevel \/ AnyIs(st, "failed") THEN "failed"
    ELSE IF AnyIs(st, "cancelled")     THEN "cancelled"
    ELSE "succeeded"

VerdictCode(verdict) ==
    IF verdict = "failed"         THEN "RUN_FAILED_STEP"
    ELSE IF verdict = "cancelled" THEN "RUN_CANCELLED_MANUAL"
    ELSE "RUN_SUCCEEDED"

(* The transitive dependants of s: the least set closed under step_deps.   *)
ClosedBelow(s, D) ==
    \A t \in Steps : (s \in Needs[t] \/ D \cap Needs[t] # {}) => t \in D
Below(s) == {t \in Steps : \A D \in SUBSET Steps : ClosedBelow(s, D) => t \in D}

(* applyStepOutcomeTx on every step of L at once, L being steps whose      *)
(* attempt failed.  Those in F have no attempt left: they end failed and   *)
(* their pending dependants end skipped in the same transaction.           *)
AfterFailures(st, L, F) ==
    [s \in Steps |->
        IF s \in F THEN "failed"
        ELSE IF s \in L THEN "pending"
        ELSE IF st[s] = "pending" /\ \E f \in F : s \in Below(f) THEN "skipped"
        ELSE st[s]]
GatesAfter(L, F, next) ==
    [s \in Steps |-> IF s \in F THEN "null" ELSE IF s \in L THEN next ELSE gate[s]]

(* closeOutCancelledStepsTx: every open step ends cancelled.               *)
CloseOut(st) ==
    [s \in Steps |-> IF st[s] \in {"pending", "running"} THEN "cancelled" ELSE st[s]]

RunningSteps == {s \in Steps : step[s] = "running"}
PendingSteps == {s \in Steps : step[s] = "pending"}

(* The budget test of applyStepOutcomeTx; the mutant is off by one.        *)
SpentOneLate(s) == attempt[s] > maxAttempts[s]
Spent(s)        == attempt[s] >= maxAttempts[s]
Exhausted       == {s \in RunningSteps : Spent(s)}

(* nextRunnableStepSQL; the mutant waits only for its upstreams to end.    *)
RunnableOnceEnded ==
    {s \in PendingSteps :
        gate[s] # "future" /\ \A u \in Needs[s] : step[u] \in TerminalStep}
Runnable ==
    {s \in PendingSteps :
        gate[s] # "future" /\ \A u \in Needs[s] : step[u] = "succeeded"}

(* nextRetryWaitSQL.                                                       *)
Parked      == {s \in PendingSteps : gate[s] # "null"}

(* leaseHeldBy: owner and epoch are the whole fence; the deadline is not a *)
(* term.                                                                   *)
Holds(e) == state = "running" /\ owner = e /\ tok[e] = epoch

LeaseExpired == lease \in {"lapsed", "dead"}
Driving(e)   == pc[e] \notin {"idle", "out"}

(* A process that drives the run or still keeps its lease; a machine       *)
(* restart leaves none.                                                    *)
Alive(e)    == pc[e] # "idle" \/ held[e]
NobodyAlive == \A e \in Executors : ~Alive(e)

(* What every terminal UPDATE of the runs row does to the lease columns.   *)
Close(verdict, reason) ==
    /\ state' = verdict
    /\ code' = reason
    /\ owner' = NoOne
    /\ lease' = "none"

-----------------------------------------------------------------------------
Init ==
    /\ state = "queued" /\ owner = NoOne /\ epoch = 0 /\ lease = "none"
    /\ due = TRUE /\ cancel = FALSE /\ crashes = 0 /\ defer = "none" /\ code = "none"
    /\ step = [s \in Steps |-> "pending"]
    /\ attempt = [s \in Steps |-> 0]
    /\ maxAttempts = Budget
    /\ gate = [s \in Steps |-> "null"]
    /\ pc = [e \in Executors |-> "idle"]
    /\ tok = [e \in Executors |-> 0]
    /\ held = [e \in Executors |-> FALSE]
    /\ lost = [e \in Executors |-> FALSE]
    /\ cur = [e \in Executors |-> 1]
    /\ killed = [e \in Executors |-> FALSE]
    /\ out = [e \in Executors |-> "none"]
    /\ todo = [e \in Executors |-> {}]
    /\ why = [e \in Executors |-> "none"]
    /\ interrupts = 0

-----------------------------------------------------------------------------
(* Requests, time and faults.                                              *)

(* COALESCE keeps the first request; nothing checks the state.             *)
RequestCancel ==
    /\ cancel' = TRUE
    /\ UNCHANGED <<state, owner, epoch, lease, due, crashes, defer, code,
                   stepVars, driveVars, interrupts>>

LeaseElapses ==
    /\ lease \in {"live", "lapsed"}
    /\ lease' = IF lease = "live" THEN "lapsed" ELSE "dead"
    /\ UNCHANGED <<state, owner, epoch, due, cancel, crashes, defer, code,
                   stepVars, driveVars, interrupts>>

BackoffElapses ==
    /\ ~due
    /\ due' = TRUE
    /\ UNCHANGED <<state, owner, epoch, lease, cancel, crashes, defer, code,
                   stepVars, driveVars, interrupts>>

RetryGateOpens(s) ==
    /\ gate[s] = "future"
    /\ gate' = [gate EXCEPT ![s] = "due"]
    /\ UNCHANGED <<runVars, step, attempt, maxAttempts, driveVars, interrupts>>

(* SIGKILL or power loss: the rows stay, everything in memory is gone.     *)
Crash(e) ==
    /\ Alive(e)
    /\ pc' = [pc EXCEPT ![e] = "idle"]
    /\ held' = [held EXCEPT ![e] = FALSE]
    /\ lost' = [lost EXCEPT ![e] = FALSE]
    /\ todo' = [todo EXCEPT ![e] = {}]
    /\ why' = [why EXCEPT ![e] = "none"]
    /\ UNCHANGED <<runVars, stepVars, tok, cur, killed, out, interrupts>>

(* ExecuteRun returns without a verdict: its context was cancelled by a    *)
(* clean stop, or a store call or the log sink failed under it.  A process *)
(* in flight is killed with its context, which the launcher marks as a     *)
(* cancellation whatever ended the context; nothing is recorded.           *)
StopDriving(e) ==
    /\ Driving(e)
    /\ interrupts < MaxInterrupts
    /\ interrupts' = interrupts + 1
    /\ pc' = [pc EXCEPT ![e] = "out"]
    /\ killed' = [killed EXCEPT ![e] = (pc[e] = "exec")]
    /\ UNCHANGED <<runVars, stepVars, tok, held, lost, cur, out, todo, why>>

-----------------------------------------------------------------------------
(* The claim.                                                              *)

(* closeCancelledQueuedTx, the first half of every claim transaction.      *)
CloseCancelledQueued ==
    /\ state = "queued" /\ cancel
    /\ step' = CloseOut(step)
    /\ LET verdict == TerminalVerdict(CloseOut(step), FALSE) IN
        /\ state' = verdict
        /\ code' = VerdictCode(verdict)
    /\ defer' = "none"
    /\ UNCHANGED <<owner, epoch, lease, due, cancel, crashes,
                   attempt, maxAttempts, gate, driveVars, interrupts>>

(* The token a claim takes.                                                *)
ClaimedToken      == epoch + 1

(* ClaimRuns for this run, then hold(): the token comes back with the row. *)
ClaimRun(e) ==
    /\ pc[e] = "idle"
    /\ state = "queued" /\ due /\ ~cancel
    /\ state' = "running"
    /\ owner' = e
    /\ epoch' = ClaimedToken
    /\ lease' = "live"
    /\ defer' = "none"
    /\ code' = "none"
    /\ pc' = [pc EXCEPT ![e] = "top"]
    /\ tok' = [tok EXCEPT ![e] = ClaimedToken]
    /\ held' = [held EXCEPT ![e] = TRUE]
    /\ lost' = [lost EXCEPT ![e] = FALSE]
    /\ cur' = [cur EXCEPT ![e] = 1]
    /\ killed' = [killed EXCEPT ![e] = FALSE]
    /\ out' = [out EXCEPT ![e] = "none"]
    /\ UNCHANGED <<due, cancel, crashes, stepVars, todo, why, interrupts>>

-----------------------------------------------------------------------------
(* The lease keeper.                                                       *)

(* RenewRunLeases keys on the owner name alone; renewOnce then compares    *)
(* the token that came back with the one it holds.                         *)
RenewRunLeases(e) ==
    /\ held[e]
    /\ lease' = IF state = "running" /\ owner = e THEN "live" ELSE lease
    /\ held' = [held EXCEPT ![e] = Holds(e)]
    /\ lost' = [lost EXCEPT ![e] = @ \/ ~Holds(e)]
    /\ UNCHANGED <<state, owner, epoch, due, cancel, crashes, defer, code,
                   stepVars, pc, tok, cur, killed, out, todo, why, interrupts>>

-----------------------------------------------------------------------------
(* ExecuteRun's loop.                                                      *)

Go(e, place) == pc' = [pc EXCEPT ![e] = place]

(* The top of the loop: the lost signal first, then the cancel poll.  The  *)
(* mutant leaves cancellation to the watcher of a running step.            *)
CheckLostOnly(e) ==
    /\ pc[e] = "top"
    /\ Go(e, IF lost[e] THEN "out" ELSE "pick")
    /\ UNCHANGED <<runVars, stepVars, tok, held, lost, cur, killed, out, todo, why, interrupts>>
CheckSignals(e) ==
    /\ pc[e] = "top"
    /\ Go(e, IF lost[e] THEN "out" ELSE IF cancel THEN "observe" ELSE "pick")
    /\ UNCHANGED <<runVars, stepVars, tok, held, lost, cur, killed, out, todo, why, interrupts>>

(* NextRunnableStep: the lowest index; with none, NextRetryWait decides    *)
(* between a sleep and the end of the loop.                                *)
PickStep(e) ==
    /\ pc[e] = "pick"
    /\ \/ \E s \in Runnable :
            /\ \A t \in Runnable : s <= t
            /\ cur' = [cur EXCEPT ![e] = s]
            /\ Go(e, "start")
       \/ /\ Runnable = {}
          /\ Go(e, IF Parked # {} THEN "sleep" ELSE "list")
          /\ UNCHANGED cur
    /\ UNCHANGED <<runVars, stepVars, tok, held, lost, killed, out, todo, why, interrupts>>

Wake(e) ==
    /\ pc[e] = "sleep"
    /\ Go(e, IF lost[e] THEN "out" ELSE "top")
    /\ UNCHANGED <<runVars, stepVars, tok, held, lost, cur, killed, out, todo, why, interrupts>>

(* StartStep, and the spawn that follows its commit.  The upstreams are    *)
(* not read again.                                                         *)
StartStep(e) ==
    /\ pc[e] = "start"
    /\ IF Holds(e) /\ step[cur[e]] = "pending"
       THEN /\ step' = [step EXCEPT ![cur[e]] = "running"]
            /\ attempt' = [attempt EXCEPT ![cur[e]] = @ + 1]
            /\ out' = [out EXCEPT ![e] = "none"]
            /\ Go(e, "exec")
       ELSE /\ Go(e, "out")
            /\ UNCHANGED <<step, attempt, out>>
    /\ UNCHANGED <<runVars, maxAttempts, gate, tok, held, lost, cur, killed, todo, why,
                   interrupts>>

(* The process ended, and how: by itself, killed because the watcher saw   *)
(* a cancellation, or killed by the run's own deadline.                    *)
ProcessEnds(e) ==
    /\ pc[e] = "exec"
    /\ \E o \in {"succeeded", "failed", "run_deadline"} \cup (IF cancel THEN {"cancelled"} ELSE {}) :
            out' = [out EXCEPT ![e] = o]
    /\ Go(e, "record")
    /\ UNCHANGED <<runVars, stepVars, tok, held, lost, cur, killed, todo, why, interrupts>>

(* The watcher saw the lease lost: the group is killed, the result binned. *)
Abandon(e) ==
    /\ pc[e] = "exec" /\ lost[e]
    /\ Go(e, "out")
    /\ killed' = [killed EXCEPT ![e] = TRUE]
    /\ UNCHANGED <<runVars, stepVars, tok, held, lost, cur, out, todo, why, interrupts>>

(* applyStepOutcomeTx for one running step s; noFurther is the caller's    *)
(* veto on another attempt, next the gate a retry is parked behind.        *)
ApplyOutcome(s, o, noFurther, next) ==
    /\ step[s] = "running"
    /\ IF o \in {"succeeded", "cancelled"}
       THEN /\ step' = [step EXCEPT ![s] = o]
            /\ gate' = [gate EXCEPT ![s] = "null"]
       ELSE LET F == IF noFurther \/ Spent(s) THEN {s} ELSE {} IN
            /\ step' = AfterFailures(step, {s}, F)
            /\ gate' = GatesAfter({s}, F, next)
    /\ UNCHANGED <<attempt, maxAttempts>>

(* NoFurtherAttempt: no retry fits inside a run budget that is spent; the  *)
(* mutant leaves the decision to the step's own budget.                    *)
NeverVetoes(o)  == FALSE
VetoesRetry(o)  == o = "run_deadline"

(* RecordStepOutcome by the holder; the result file goes with the commit.  *)
(* A spent run budget ends the loop, and its mark stays for finishReason.  *)
RecordStepOutcome(e) ==
    /\ pc[e] = "record"
    /\ IF Holds(e) /\ step[cur[e]] = "running"
       THEN /\ ApplyOutcome(cur[e], out[e], VetoesRetry(out[e]), "future")
            /\ IF out[e] = "run_deadline"
               THEN Go(e, "list") /\ UNCHANGED out
               ELSE Go(e, "top") /\ out' = [out EXCEPT ![e] = "none"]
       ELSE /\ Go(e, "out")
            /\ UNCHANGED <<stepVars, out>>
    /\ UNCHANGED <<runVars, tok, held, lost, cur, killed, todo, why, interrupts>>

(* PendingSteps, the read.                                                 *)
StepsToSkip   == PendingSteps

(* skipPending reads the pending steps once ...                            *)
ListPending(e) ==
    /\ pc[e] = "list"
    /\ todo' = [todo EXCEPT ![e] = StepsToSkip]
    /\ Go(e, "skip")
    /\ UNCHANGED <<runVars, stepVars, tok, held, lost, cur, killed, out, why, interrupts>>

(* ... and then skips them one transaction each, in index order.           *)
SkipPending(e) ==
    /\ pc[e] = "skip"
    /\ \/ \E s \in todo[e] :
            /\ \A t \in todo[e] : s <= t
            /\ IF Holds(e) /\ step[s] = "pending"
               THEN /\ step' = [step EXCEPT ![s] = "skipped"]
                    /\ gate' = [gate EXCEPT ![s] = "null"]
                    /\ todo' = [todo EXCEPT ![e] = @ \ {s}]
                    /\ UNCHANGED pc
               ELSE /\ Go(e, "out")
                    /\ UNCHANGED <<step, gate, todo>>
       \/ /\ todo[e] = {}
          /\ Go(e, "reason")
          /\ UNCHANGED <<step, gate, todo>>
    /\ UNCHANGED <<runVars, attempt, maxAttempts, tok, held, lost, cur, killed, out, why,
                   interrupts>>

(* finishReason names the ending from a read of its own.                   *)
FinishReason(e) ==
    /\ pc[e] = "reason"
    /\ why' = [why EXCEPT ![e] =
                 IF out[e] = "run_deadline" THEN "RUN_TIMED_OUT"
                 ELSE VerdictCode(TerminalVerdict(step, FALSE))]
    /\ Go(e, "finish")
    /\ UNCHANGED <<runVars, stepVars, tok, held, lost, cur, killed, out, todo, interrupts>>

(* FinishRun: the state comes from the steps as they are now, the reason   *)
(* from what finishReason read.  A refusal leaves the run to the handback. *)
FinishRun(e) ==
    /\ pc[e] = "finish"
    /\ IF Holds(e) /\ AllTerminal(step)
       THEN Close(TerminalVerdict(step, IsRunLevelFailure(why[e])), why[e])
       ELSE UNCHANGED <<state, code, owner, lease>>
    /\ Go(e, "out")
    /\ UNCHANGED <<epoch, due, cancel, crashes, defer, stepVars,
                   tok, held, lost, cur, killed, out, todo, why, interrupts>>

(* ObserveRunCancel: close the open steps, then read the verdict off them. *)
ObserveRunCancel(e) ==
    /\ pc[e] = "observe"
    /\ IF Holds(e) /\ cancel
       THEN LET verdict == TerminalVerdict(CloseOut(step), FALSE) IN
            /\ step' = CloseOut(step)
            /\ Close(verdict, VerdictCode(verdict))
       ELSE UNCHANGED <<step, state, code, owner, lease>>
    /\ Go(e, "out")
    /\ UNCHANGED <<epoch, due, cancel, crashes, defer, attempt, maxAttempts, gate,
                   tok, held, lost, cur, killed, out, todo, why, interrupts>>

(* The attempt the stop cut short is given back.                           *)
Restored ==
    [s \in Steps |-> IF step[s] = "running" THEN attempt[s] - 1 ELSE attempt[s]]

(* The steps a drain hands back.                                           *)
HandedBack ==
    [s \in Steps |-> IF step[s] = "running" THEN "pending" ELSE step[s]]

(* DrainRun, whole: the running steps and then the run go back.            *)
DrainRun(e) ==
    /\ step' = HandedBack
    /\ attempt' = Restored
    /\ gate' = [s \in Steps |-> IF step[s] = "running" THEN "due" ELSE gate[s]]
    /\ state' = "queued"
    /\ owner' = NoOne
    /\ lease' = "none"
    /\ epoch' = epoch + 1
    /\ due' = TRUE
    /\ defer' = "after_shutdown"

(* The drive leaves the pool's book, with its memory.                      *)
Leave(e) ==
    /\ Go(e, "idle")
    /\ todo' = [todo EXCEPT ![e] = {}]
    /\ why' = [why EXCEPT ![e] = "none"]
    /\ lost' = [lost EXCEPT ![e] = FALSE]
    /\ UNCHANGED <<cancel, crashes, code, maxAttempts>>

(* handBackWhenOwed: the pool asks the keeper for the token and DrainRun   *)
(* checks it against the row.  What the attempt left in the spool carries  *)
(* a token that has moved on either way, so it is forgotten here.          *)
HandBack(e) ==
    /\ pc[e] = "out"
    /\ \/ held[e] /\ Holds(e) /\ DrainRun(e)
       \/ ~(held[e] /\ Holds(e))
          /\ UNCHANGED <<step, attempt, gate, state, owner, lease, epoch, due, defer>>
    /\ held' = [held EXCEPT ![e] = FALSE]
    /\ Leave(e)
    /\ tok' = [tok EXCEPT ![e] = 0]
    /\ cur' = [cur EXCEPT ![e] = 1]
    /\ killed' = [killed EXCEPT ![e] = FALSE]
    /\ out' = [out EXCEPT ![e] = "none"]
    /\ UNCHANGED interrupts

(* All handBackAttempts fail: the goroutine leaves, the keeper's entry and *)
(* the claim stay.                                                         *)
HandBackFails(e) ==
    /\ StoreFails
    /\ pc[e] = "out" /\ held[e]
    /\ interrupts < MaxInterrupts
    /\ interrupts' = interrupts + 1
    /\ Leave(e)
    /\ UNCHANGED <<step, attempt, gate, state, owner, lease, epoch, due, defer, held,
                   tok, cur, killed, out>>

-----------------------------------------------------------------------------
(* The reaper: ReapExpiredRuns decides a dead lease's fate in one          *)
(* transaction.  Every arm raises the token and counts the crash.  The     *)
(* spent-attempt-budget arm is left out: every writer of a runs row sets   *)
(* attempt 0 and max_attempts 1, and nothing raises attempt.               *)

Reaped ==
    /\ epoch' = epoch + 1
    /\ crashes' = crashes + 1
    /\ UNCHANGED <<cancel, maxAttempts, attempt, driveVars, interrupts>>

(* A dead lease past the skew; the boot sweep takes every running run, but *)
(* only after a machine restart, which no executor survives.  The mutant's *)
(* boot sweep is run on every start.                                       *)
ReapableOnStart == state = "running"
Reapable ==
    /\ state = "running"
    /\ lease = "dead" \/ NobodyAlive

ReapToCancelled ==
    /\ Reapable /\ cancel
    /\ LET verdict == TerminalVerdict(CloseOut(step), FALSE) IN
        /\ step' = CloseOut(step)
        /\ Close(verdict, VerdictCode(verdict))
    /\ Reaped
    /\ UNCHANGED <<due, defer, gate>>

(* Steps already all terminal keep their conclusion; otherwise the running *)
(* ones are lost for good and what is left is skipped.                     *)
ReapToFailed ==
    /\ Reapable /\ ~cancel /\ crashes + 1 > MaxCrashCount
    /\ IF AllTerminal(step)
       THEN /\ LET verdict == TerminalVerdict(step, FALSE) IN
                    Close(verdict, VerdictCode(verdict))
            /\ UNCHANGED <<step, gate>>
       ELSE /\ LET lostSteps == AfterFailures(step, RunningSteps, RunningSteps) IN
                    step' = [s \in Steps |-> IF lostSteps[s] = "pending" THEN "skipped"
                                             ELSE lostSteps[s]]
            /\ gate' = GatesAfter(RunningSteps, RunningSteps, "due")
            /\ Close("failed", "RUN_POISONED")
    /\ Reaped
    /\ UNCHANGED <<due, defer>>

(* The attempts failRunningStepsTx closes.                                 *)
LostAttempts == RunningSteps

(* The lost attempts go back to pending or fail; if that ended the graph   *)
(* the run takes its verdict, otherwise it waits out the backoff.          *)
ReapToQueued ==
    /\ Reapable /\ ~cancel /\ crashes + 1 <= MaxCrashCount
    /\ LET after == AfterFailures(step, LostAttempts, Exhausted) IN
        /\ step' = after
        /\ gate' = GatesAfter(LostAttempts, Exhausted, "due")
        /\ IF AllTerminal(after)
           THEN /\ LET verdict == TerminalVerdict(after, FALSE) IN
                        Close(verdict, VerdictCode(verdict))
                /\ UNCHANGED <<due, defer>>
           ELSE /\ state' = "queued"
                /\ owner' = NoOne
                /\ lease' = "none"
                /\ due' = FALSE
                /\ defer' = "after_crash"
                /\ UNCHANGED code
    /\ Reaped

-----------------------------------------------------------------------------
(* Reconciliation and recovery.                                            *)

(* ReconcileRunStates: a run whose steps have all ended takes the state    *)
(* they add up to, unless a live lease still belongs to somebody.          *)
ReconcileRunStates ==
    /\ state \notin TerminalRun
    /\ lease # "live"
    /\ LET agg == RunAggregate(step, IsRunLevelFailure(code)) IN
        /\ agg # "running"
        /\ Close(agg, IF IsRunLevelFailure(code) THEN code ELSE VerdictCode(agg))
    /\ UNCHANGED <<epoch, due, cancel, crashes, defer, stepVars, driveVars, interrupts>>

(* What the shim of e's attempt may have left in the spool.                *)
SpooledOutcomes(e) ==
    CASE out[e] = "none"         -> {"succeeded", "failed"}
                                        \cup (IF killed[e] THEN {"cancelled"} ELSE {})
      [] out[e] = "run_deadline" -> {"failed"}
      [] OTHER                   -> {out[e]}

(* CommitSpooledOutcome: the result file of e's last attempt, admitted on  *)
(* the token it carries, a lease that is dead or void by a changed boot,   *)
(* and a step still running that attempt.  Its callers (OnStartup, Recover)*)
(* are fresh processes under the state lock, so e is gone; Periodic is     *)
(* given no spool directory.  The mutant trusts the token.                 *)
LeaseVoidAnyway == TRUE
LeaseVoid       == LeaseExpired \/ NobodyAlive
CommitSpooledOutcome(e, o) ==
    /\ ~Alive(e)
    /\ o \in SpooledOutcomes(e)
    /\ epoch = tok[e]
    /\ state = "running" /\ LeaseVoid
    /\ ApplyOutcome(cur[e], o, FALSE, "future")
    /\ UNCHANGED <<runVars, driveVars, interrupts>>

(* Engine.Recover, run by a fresh process that took the state lock, so no  *)
(* executor is alive: it closes each running step as lost ...              *)
RecoverStep(s) ==
    /\ NobodyAlive
    /\ state = "running" /\ LeaseExpired
    /\ ApplyOutcome(s, "failed", FALSE, "due")
    /\ UNCHANGED <<runVars, driveVars, interrupts>>

(* ... and then requeues the run through the lease_expired transition.     *)
RequeueCrashedRun ==
    /\ NobodyAlive
    /\ state = "running" /\ LeaseExpired
    /\ RunningSteps = {}
    /\ interrupts < MaxInterrupts
    /\ interrupts' = interrupts + 1
    /\ state' = "queued"
    /\ owner' = NoOne
    /\ lease' = "none"
    /\ epoch' = epoch + 1
    /\ crashes' = crashes + 1
    /\ due' = TRUE
    /\ defer' = "after_crash"
    /\ UNCHANGED <<cancel, code, stepVars, driveVars>>

(* ReopenTerminalRunByOperator, for the whole run or for one step and its  *)
(* dependants.  The attempt counter stays; the budget grows by one.        *)
ReopenedGate    == "null"
Reopen(targets) ==
    /\ state \in {"failed", "cancelled"}
    /\ targets # {}
    /\ interrupts < MaxInterrupts
    /\ interrupts' = interrupts + 1
    /\ state' = "queued"
    /\ epoch' = epoch + 1
    /\ owner' = NoOne
    /\ lease' = "none"
    /\ code' = "RUN_REOPENED_OPERATOR"
    /\ defer' = "none"
    /\ cancel' = FALSE
    /\ due' = TRUE
    /\ step' = [s \in Steps |-> IF s \in targets THEN "pending" ELSE step[s]]
    /\ maxAttempts' = [s \in Steps |->
                         IF s \in targets THEN maxAttempts[s] + 1 ELSE maxAttempts[s]]
    /\ gate' = [s \in Steps |-> IF s \in targets THEN ReopenedGate ELSE gate[s]]
    /\ UNCHANGED <<crashes, attempt, driveVars>>

Reopenable == {s \in Steps : step[s] \in {"failed", "skipped"}}
ReopenTerminalRunByOperator ==
    \/ Reopen(Reopenable)
    \/ \E s \in Steps : Reopen(Reopenable \cap ({s} \cup Below(s)))

-----------------------------------------------------------------------------
Drive(e) ==
    \/ CheckSignals(e) \/ PickStep(e) \/ Wake(e) \/ StartStep(e)
    \/ ProcessEnds(e) \/ Abandon(e) \/ RecordStepOutcome(e)
    \/ ListPending(e) \/ SkipPending(e) \/ FinishReason(e) \/ FinishRun(e)
    \/ ObserveRunCancel(e) \/ HandBack(e)

Reap == ReapToCancelled \/ ReapToFailed \/ ReapToQueued

Recover ==
    \/ ReconcileRunStates
    \/ \E e \in Executors, o \in Outcomes : CommitSpooledOutcome(e, o)
    \/ \E s \in Steps : RecoverStep(s)
    \/ RequeueCrashedRun

Time ==
    \/ LeaseElapses \/ BackoffElapses
    \/ \E s \in Steps : RetryGateOpens(s)

Next ==
    \/ RequestCancel
    \/ Time
    \/ CloseCancelledQueued
    \/ \E e \in Executors :
            \/ ClaimRun(e) \/ Drive(e) \/ RenewRunLeases(e)
            \/ Crash(e) \/ StopDriving(e) \/ HandBackFails(e)
    \/ Reap
    \/ Recover
    \/ ReopenTerminalRunByOperator

Spec == Init /\ [][Next]_vars

-----------------------------------------------------------------------------
(* Properties.                                                             *)

RunRowType ==
    /\ state \in RunStates
    /\ owner \in Executors \cup {NoOne}
    /\ epoch \in Nat /\ crashes \in Nat /\ interrupts \in Nat
    /\ lease \in LeasePhases
    /\ defer \in DeferReasons
    /\ code \in RunCodes
StepRowsType ==
    /\ step \in [Steps -> StepStates]
    /\ attempt \in [Steps -> Nat]
    /\ maxAttempts \in [Steps -> Nat]
    /\ gate \in [Steps -> Gates]
DrivesType ==
    /\ pc \in [Executors -> Places]
    /\ tok \in [Executors -> Nat]
    /\ cur \in [Executors -> Steps]
    /\ out \in [Executors -> Outcomes]
    /\ todo \in [Executors -> SUBSET Steps]
    /\ why \in [Executors -> RunCodes]
FlagsType ==
    /\ due \in BOOLEAN /\ cancel \in BOOLEAN
    /\ held \in [Executors -> BOOLEAN]
    /\ lost \in [Executors -> BOOLEAN]
    /\ killed \in [Executors -> BOOLEAN]

(* Every row and every drive stays in its domain; the columns an unsigned  *)
(* reader would misread (attempt, lease_epoch, crash_count) stay natural.  *)
TypeOK == RunRowType /\ StepRowsType /\ DrivesType /\ FlagsType

(* I2: a terminal run sits over no open step, and no step runs under a run *)
(* that is not running, whoever closed the run and in whatever order.      *)
TerminalRunClosed ==
    /\ state \in TerminalRun => AllTerminal(step)
    /\ RunningSteps # {} => state = "running"

(* I10: the state a run ended in is the one its steps add up to, and the   *)
(* reason beside it names that state.  RUN_TIMED_OUT is not a run-level    *)
(* failure: it has to leave a failed step behind.                          *)
VerdictMatchesSteps ==
    state \in TerminalRun =>
        /\ state = RunAggregate(step, IsRunLevelFailure(code))
        /\ code = VerdictCode(state) \/ (state = "failed" /\ code \in {"RUN_TIMED_OUT", "RUN_POISONED"})

(* I8: a step runs, or has run to success, only over upstreams that all    *)
(* succeeded, although StartStep reads no upstream: the choice was made in *)
(* an earlier read.                                                        *)
UpstreamSucceeded ==
    \A s \in Steps : step[s] \in {"running", "succeeded"} =>
        \A u \in Needs[s] : step[u] = "succeeded"

(* I5: no step ever starts past its budget, although StartStep does not    *)
(* read max_attempts, and every step that ran spent an attempt.            *)
AttemptBudget ==
    \A s \in Steps :
        /\ attempt[s] <= maxAttempts[s]
        /\ step[s] = "pending" => attempt[s] < maxAttempts[s]
        /\ step[s] \in {"running", "succeeded", "failed"} => attempt[s] > 0

(* The holder's step: while a run is running its row names an executor at  *)
(* the current token, and the only step running is the one that executor   *)
(* started.  A result is never written over somebody else's attempt.       *)
RunningStepIsTheHolders ==
    /\ state = "running" => \E e \in Executors : Holds(e)
    /\ \A e \in Executors, s \in RunningSteps :
            Holds(e) => s = cur[e] /\ pc[e] \in {"exec", "record", "out", "idle"}

(* A drive reads, decides and writes in transactions of its own; what the  *)
(* holder read in earlier ones still stands when it acts on it.  The step  *)
(* it is about to start has its upstreams, the pending list it skips is    *)
(* complete, FinishRun is not refused, a spent run budget has left a       *)
(* failed step, and the reason it carries names the verdict.               *)
WhatTheHolderReadStands ==
    \A e \in Executors :
        /\ pc[e] = "start" => \A u \in Needs[cur[e]] : step[u] = "succeeded"
        /\ pc[e] = "skip" /\ Holds(e) => PendingSteps \subseteq todo[e]
        /\ pc[e] \in {"reason", "finish"} /\ Holds(e) => AllTerminal(step)
        /\ pc[e] \in {"list", "skip", "reason"} /\ Holds(e) /\ out[e] = "run_deadline"
                => AnyIs(step, "failed")
        /\ pc[e] = "finish" /\ Holds(e)
                => \/ why[e] = VerdictCode(TerminalVerdict(step, FALSE))
                   \/ why[e] = "RUN_TIMED_OUT" /\ AnyIs(step, "failed")

(* The retry sleep ends in work: a step parked behind next_attempt_at has  *)
(* nothing else to wait for, so NextRetryWait never answers zero for a     *)
(* step NextRunnableStep will not name (the loop would spin on it).        *)
ParkedStepIsReady ==
    \A s \in Parked : \A u \in Needs[s] : step[u] = "succeeded"

(* Nothing but an operator's reopen takes a run out of a terminal state,   *)
(* and nothing at all takes it out of succeeded.                           *)
TerminalIsSticky ==
    [][(state \in TerminalRun /\ state' # state) =>
            state # "succeeded" /\ code' = "RUN_REOPENED_OPERATOR"]_vars

(* G7: while the lease is live its holder is the only writer of the steps  *)
(* and of the run's state: nobody else, recovery included, moves a row     *)
(* under it.  A machine restart is the one exception.                      *)
OnlyTheHolderWrites ==
    [][lease = "live" /\ ~NobodyAlive /\ (step' # step \/ state' # state) =>
            \E e \in Executors : Holds(e) /\ <<pc[e], todo[e]>>' # <<pc[e], todo[e]>>]_vars

(* I11: the token never falls, and the run never passes from one owner to  *)
(* another without it rising.                                              *)
EpochRisesWithTheOwner ==
    [][epoch' >= epoch /\ (owner' \in Executors /\ owner' # owner => epoch' > epoch)]_vars

=============================================================================
