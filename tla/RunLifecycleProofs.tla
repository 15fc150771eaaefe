------------------------- MODULE RunLifecycleProofs -------------------------
(* The safety properties of RunLifecycle, proved for every number of steps, *)
(* every dependency relation, every budget and every set of executors; with *)
(* them the two guarantees of MCRunGuarantees that need a history, and what *)
(* Repair promises of fsck over rows that were damaged.                     *)
EXTENDS MCRunGuarantees, Repair, FiniteSetTheorems, TLAPS

(* The row's lease columns and the tokens in the executors' hands agree:   *)
(* only a running run has an owner, the owner's token is the row's, and no *)
(* token is ahead of the row.                                              *)
OwnerFence ==
    /\ state = "running" => owner \in Executors /\ tok[owner] = epoch
    /\ state # "running" => owner = NoOne /\ lease = "none"
    /\ \A e \in Executors : tok[e] <= epoch

(* A live drive that still holds the run has its entry in the lease keeper.*)
KeeperEntry == \A e \in Executors : Holds(e) /\ pc[e] # "idle" => held[e]

(* The mark of a spent run budget is carried only from its record on, and  *)
(* a poisoned run is a terminal one.                                       *)
MarksAreFresh ==
    /\ \A e \in Executors :
            pc[e] \in {"top", "pick", "sleep", "start"} => out[e] # "run_deadline"
    /\ IsRunLevelFailure(code) => state \in TerminalRun

Inv ==
    /\ TypeOK
    /\ OwnerFence
    /\ KeeperEntry
    /\ MarksAreFresh
    /\ TerminalRunClosed
    /\ RunningStepIsTheHolders
    /\ UpstreamSucceeded
    /\ AttemptBudget
    /\ ParkedStepIsReady
    /\ WhatTheHolderReadStands
    /\ VerdictMatchesSteps

(* The actions of e that touch nothing but e's own drive.                  *)
Reads(e) ==
    \/ CheckSignals(e) \/ PickStep(e) \/ Wake(e) \/ ProcessEnds(e) \/ Abandon(e)
    \/ ListPending(e) \/ FinishReason(e) \/ StopDriving(e) \/ Crash(e) \/ HandBackFails(e)

(* The actions that write step rows.                                       *)
WritesSteps ==
    \/ CloseCancelledQueued
    \/ \E e \in Executors : \/ StartStep(e) \/ RecordStepOutcome(e) \/ SkipPending(e)
                            \/ ObserveRunCancel(e) \/ HandBack(e)
    \/ ReapToCancelled \/ ReapToFailed \/ ReapToQueued
    \/ \E e \in Executors, o \in Outcomes : CommitSpooledOutcome(e, o)
    \/ \E s \in Steps : RecoverStep(s)
    \/ \E targets \in SUBSET Reopenable : Reopen(targets)

(* What everybody but the executors does.                                  *)
Environment ==
    \/ UNCHANGED vars \/ RequestCancel \/ Time \/ CloseCancelledQueued \/ Reap \/ Recover
    \/ \E targets \in SUBSET Reopenable : Reopen(targets)

-----------------------------------------------------------------------------
(* What the operators return, and what the actions leave alone.            *)

(* Closing lost attempts leaves every step row in its domain.              *)
LEMMA AfterFailuresType ==
    ASSUME NEW st \in [Steps -> StepStates], NEW L, NEW F
    PROVE  AfterFailures(st, L, F) \in [Steps -> StepStates]
BY DEF AfterFailures, StepStates

(* So does closing the open steps as cancelled.                            *)
LEMMA CloseOutType ==
    ASSUME NEW st \in [Steps -> StepStates]
    PROVE  CloseOut(st) \in [Steps -> StepStates]
BY DEF CloseOut, StepStates

(* And so does applying one outcome (applyStepOutcomeTx).                  *)
LEMMA ApplyOutcomeType ==
    ASSUME StepRowsType, NEW s \in Steps, NEW o, NEW veto, NEW next \in Gates,
           ApplyOutcome(s, o, veto, next)
    PROVE  StepRowsType'
<1>1. CASE o \in {"succeeded", "cancelled"}
  BY <1>1 DEF ApplyOutcome, StepRowsType, StepStates, Gates
<1>2. CASE o \notin {"succeeded", "cancelled"}
  BY <1>2, AfterFailuresType DEF ApplyOutcome, StepRowsType, GatesAfter, Gates
<1>3. QED  BY <1>1, <1>2

(* A read of the drive writes neither the run row nor a step row.          *)
LEMMA ReadsFrame ==
    ASSUME NEW e \in Executors, Reads(e)
    PROVE  UNCHANGED <<state, owner, epoch, lease, due, cancel, crashes, defer, code,
                       step, attempt, maxAttempts, gate, tok>>
BY DEF Reads, CheckSignals, PickStep, Wake, ProcessEnds, Abandon, ListPending, FinishReason,
   StopDriving, Crash, HandBackFails, Leave, runVars, stepVars

(* Nobody but an executor changes what an executor remembers.              *)
LEMMA EnvironmentFrame ==
    ASSUME Environment
    PROVE  UNCHANGED <<pc, tok, held, lost, cur, killed, out, todo, why>>
BY DEF Environment, vars, RequestCancel, Time, LeaseElapses, BackoffElapses, RetryGateOpens,
   CloseCancelledQueued, Reap, ReapToCancelled, ReapToFailed, ReapToQueued, Reaped, Recover,
   ReconcileRunStates, CommitSpooledOutcome, RecoverStep, RequeueCrashedRun, Reopen, driveVars

(* Both forms of an operator's reopen take a set of failed or skipped steps. *)
LEMMA ReopenSplit ==
    ASSUME ReopenTerminalRunByOperator
    PROVE  \E targets \in SUBSET Reopenable : Reopen(targets)
BY DEF ReopenTerminalRunByOperator

(* Every step of the system is an executor's or the environment's.         *)
LEMMA NextSplit ==
    ASSUME [Next]_vars
    PROVE  \/ Environment
           \/ \E e \in Executors : \/ ClaimRun(e) \/ Drive(e) \/ RenewRunLeases(e)
                                   \/ Crash(e) \/ StopDriving(e) \/ HandBackFails(e)
BY ReopenSplit DEF Next, Environment

(* Next, regrouped: the case split of the proofs below.                    *)
LEMMA NextCases ==
    ASSUME [Next]_vars
    PROVE  \/ UNCHANGED vars
           \/ RequestCancel \/ LeaseElapses \/ BackoffElapses
           \/ \E s \in Steps : RetryGateOpens(s)
           \/ \E e \in Executors : \/ ClaimRun(e) \/ RenewRunLeases(e) \/ Reads(e)
                                   \/ FinishRun(e)
           \/ ReconcileRunStates \/ RequeueCrashedRun
           \/ WritesSteps
BY ReopenSplit DEF Next, Drive, Reap, Recover, Time, Reads, WritesSteps

(* A step row changes only in an action listed by WritesSteps.             *)
LEMMA NoStepWritten ==
    ASSUME [Next]_vars, ~WritesSteps
    PROVE  UNCHANGED <<step, attempt, maxAttempts>>
BY NextCases, ReadsFrame DEF vars, RequestCancel, LeaseElapses, BackoffElapses, RetryGateOpens,
   ClaimRun, RenewRunLeases, FinishRun, ReconcileRunStates, RequeueCrashedRun, stepVars

-----------------------------------------------------------------------------
(* Type correctness.  The one arithmetic step is DrainRun's restored       *)
(* attempt, which stays natural because a running step has spent one.      *)

(* The runs row stays in its domain under every action.                    *)
LEMMA RunRowTypeStep ==
    ASSUME RunRowType, DrivesType, [Next]_vars
    PROVE  RunRowType'
<1> USE DEF RunRowType, RunStates, LeasePhases, DeferReasons, RunCodes, runVars
<1>1. CASE UNCHANGED vars \/ RequestCancel \/ Time
  BY <1>1 DEF vars, RequestCancel, Time, LeaseElapses, BackoffElapses, RetryGateOpens
<1>2. CASE CloseCancelledQueued
  BY <1>2 DEF CloseCancelledQueued, TerminalVerdict, VerdictCode
<1>3. ASSUME NEW e \in Executors, ClaimRun(e)
      PROVE  RunRowType'
  BY <1>3 DEF ClaimRun, ClaimedToken
<1>4. ASSUME NEW e \in Executors, RenewRunLeases(e)
      PROVE  RunRowType'
  BY <1>4 DEF RenewRunLeases
<1>5. ASSUME NEW e \in Executors, Crash(e) \/ StopDriving(e) \/ HandBackFails(e)
      PROVE  RunRowType'
  BY <1>5 DEF Crash, StopDriving, HandBackFails, Leave
<1>6. ASSUME NEW e \in Executors,
             \/ CheckSignals(e) \/ PickStep(e) \/ Wake(e) \/ StartStep(e)
             \/ ProcessEnds(e) \/ Abandon(e) \/ RecordStepOutcome(e)
             \/ ListPending(e) \/ SkipPending(e) \/ FinishReason(e)
      PROVE  RunRowType'
  BY <1>6 DEF CheckSignals, PickStep, Wake, StartStep, ProcessEnds, Abandon, RecordStepOutcome,
     ListPending, SkipPending, FinishReason
<1>7. ASSUME NEW e \in Executors, FinishRun(e) \/ ObserveRunCancel(e)
      PROVE  RunRowType'
  BY <1>7 DEF FinishRun, ObserveRunCancel, Close, TerminalVerdict, VerdictCode, DrivesType
<1>8. ASSUME NEW e \in Executors, HandBack(e)
      PROVE  RunRowType'
  BY <1>8 DEF HandBack, DrainRun, Leave
<1>9. CASE ReapToCancelled
  BY <1>9 DEF ReapToCancelled, Reaped, Close, TerminalVerdict, VerdictCode
<1>10. CASE ReapToFailed
  BY <1>10 DEF ReapToFailed, Reaped, Close, TerminalVerdict, VerdictCode
<1>11. CASE ReapToQueued
  BY <1>11 DEF ReapToQueued, Reaped, Close, TerminalVerdict, VerdictCode
<1>12. CASE ReconcileRunStates
  BY <1>12 DEF ReconcileRunStates, Close, RunAggregate, VerdictCode
<1>13. CASE \/ \E e \in Executors, o \in Outcomes : CommitSpooledOutcome(e, o)
            \/ \E s \in Steps : RecoverStep(s)
  BY <1>13 DEF CommitSpooledOutcome, RecoverStep
<1>14. CASE RequeueCrashedRun
  BY <1>14 DEF RequeueCrashedRun
<1>15. ASSUME NEW targets, Reopen(targets)
       PROVE  RunRowType'
  BY <1>15 DEF Reopen
<1>16. QED
  BY <1>1, <1>2, <1>3, <1>4, <1>5, <1>6, <1>7, <1>8, <1>9, <1>10, <1>11, <1>12, <1>13, <1>14,
     <1>15 DEF Next, Drive, Reap, Recover, ReopenTerminalRunByOperator

(* The steps rows stay in their domain; DrainRun needs AttemptBudget.      *)
LEMMA StepRowsTypeStep ==
    ASSUME StepRowsType, DrivesType, AttemptBudget, [Next]_vars
    PROVE  StepRowsType'
<1> USE DEF StepRowsType, StepStates, Gates, stepVars
<1>1. CASE ~WritesSteps
  <2>1. gate' = gate \/ \E s \in Steps : RetryGateOpens(s)
    BY <1>1, NextCases, ReadsFrame DEF vars, RequestCancel, LeaseElapses, BackoffElapses,
       ClaimRun, RenewRunLeases, FinishRun, ReconcileRunStates, RequeueCrashedRun
  <2>2. gate' \in [Steps -> Gates]
    BY <2>1 DEF RetryGateOpens
  <2>3. QED  BY <1>1, <2>2, NoStepWritten
<1>2. CASE CloseCancelledQueued \/ ReapToCancelled
  BY <1>2, CloseOutType DEF CloseCancelledQueued, ReapToCancelled, Reaped
<1>3. ASSUME NEW e \in Executors, StartStep(e)
      PROVE  StepRowsType'
  BY <1>3 DEF StartStep, DrivesType
<1>4. ASSUME NEW e \in Executors, RecordStepOutcome(e)
      PROVE  StepRowsType'
  BY <1>4, ApplyOutcomeType DEF RecordStepOutcome, DrivesType
<1>5. ASSUME NEW e \in Executors, SkipPending(e)
      PROVE  StepRowsType'
  BY <1>5 DEF SkipPending, DrivesType
<1>6. ASSUME NEW e \in Executors, ObserveRunCancel(e)
      PROVE  StepRowsType'
  BY <1>6, CloseOutType DEF ObserveRunCancel
<1>7. ASSUME NEW e \in Executors, HandBack(e)
      PROVE  StepRowsType'
  <2>1. Restored \in [Steps -> Nat]
    BY DEF AttemptBudget, Restored
  <2>2. HandedBack \in [Steps -> StepStates]
    BY DEF HandedBack
  <2>3. QED  BY <1>7, <2>1, <2>2 DEF HandBack, DrainRun, Leave
<1>8. CASE ReapToFailed
  <2>1. AfterFailures(step, RunningSteps, RunningSteps) \in [Steps -> StepStates]
    BY AfterFailuresType
  <2>2. QED  BY <1>8, <2>1 DEF ReapToFailed, Reaped, GatesAfter
<1>9. CASE ReapToQueued
  <2>1. AfterFailures(step, LostAttempts, Exhausted) \in [Steps -> StepStates]
    BY AfterFailuresType
  <2>2. QED  BY <1>9, <2>1 DEF ReapToQueued, Reaped, GatesAfter
<1>10. ASSUME NEW e \in Executors, NEW o \in Outcomes, CommitSpooledOutcome(e, o)
       PROVE  StepRowsType'
  BY <1>10, ApplyOutcomeType DEF CommitSpooledOutcome, DrivesType
<1>11. ASSUME NEW s \in Steps, RecoverStep(s)
       PROVE  StepRowsType'
  BY <1>11, ApplyOutcomeType DEF RecoverStep
<1>12. ASSUME NEW targets, Reopen(targets)
       PROVE  StepRowsType'
  BY <1>12 DEF Reopen, ReopenedGate
<1>13. QED
  BY <1>1, <1>2, <1>3, <1>4, <1>5, <1>6, <1>7, <1>8, <1>9, <1>10, <1>11, <1>12 DEF WritesSteps

(* What the drives remember stays in its domain.                           *)
LEMMA DrivesTypeStep ==
    ASSUME RunRowType, DrivesType, [Next]_vars
    PROVE  DrivesType'
<1> USE DEF DrivesType, driveVars
<1>1. CASE UNCHANGED vars \/ RequestCancel \/ Time \/ CloseCancelledQueued \/ Reap \/ Recover
  BY <1>1 DEF vars, RequestCancel, Time, LeaseElapses, BackoffElapses, RetryGateOpens,
     CloseCancelledQueued, Reap, ReapToCancelled, ReapToFailed, ReapToQueued, Reaped, Recover,
     ReconcileRunStates, CommitSpooledOutcome, RecoverStep, RequeueCrashedRun
<1>2. ASSUME NEW targets, Reopen(targets)
      PROVE  DrivesType'
  BY <1>2 DEF Reopen
<1>3. ASSUME NEW e \in Executors, ClaimRun(e)
      PROVE  DrivesType'
  BY <1>3, StepsAssumption DEF ClaimRun, ClaimedToken, RunRowType, Places, Outcomes, Steps
<1>4. ASSUME NEW e \in Executors, RenewRunLeases(e)
      PROVE  DrivesType'
  BY <1>4 DEF RenewRunLeases
<1>5. ASSUME NEW e \in Executors, Crash(e) \/ StopDriving(e)
      PROVE  DrivesType'
  BY <1>5 DEF Crash, StopDriving, Places, RunCodes
<1>6. ASSUME NEW e \in Executors, HandBack(e) \/ HandBackFails(e)
      PROVE  DrivesType'
  BY <1>6, StepsAssumption DEF HandBack, HandBackFails, Leave, Go, Places, RunCodes, Outcomes,
     Steps
<1>7. ASSUME NEW e \in Executors, CheckSignals(e) \/ Wake(e) \/ PickStep(e)
      PROVE  DrivesType'
  BY <1>7 DEF CheckSignals, Wake, PickStep, Go, Places, Runnable, PendingSteps
<1>8. ASSUME NEW e \in Executors, StartStep(e) \/ ProcessEnds(e) \/ Abandon(e)
      PROVE  DrivesType'
  BY <1>8 DEF StartStep, ProcessEnds, Abandon, Go, Places, Outcomes
<1>9. ASSUME NEW e \in Executors, RecordStepOutcome(e)
      PROVE  DrivesType'
  BY <1>9 DEF RecordStepOutcome, Go, Places, Outcomes
<1>10. ASSUME NEW e \in Executors, ListPending(e) \/ SkipPending(e)
       PROVE  DrivesType'
  BY <1>10 DEF ListPending, SkipPending, StepsToSkip, PendingSteps, Go, Places
<1>11. ASSUME NEW e \in Executors, FinishReason(e)
       PROVE  DrivesType'
  BY <1>11 DEF FinishReason, TerminalVerdict, VerdictCode, Go, Places, RunCodes
<1>12. ASSUME NEW e \in Executors, FinishRun(e) \/ ObserveRunCancel(e)
       PROVE  DrivesType'
  BY <1>12 DEF FinishRun, ObserveRunCancel, Go, Places
<1>13. QED
  BY <1>1, <1>2, <1>3, <1>4, <1>5, <1>6, <1>7, <1>8, <1>9, <1>10, <1>11, <1>12
     DEF Next, Drive, ReopenTerminalRunByOperator

(* The Boolean columns and signals stay Boolean.                           *)
LEMMA FlagsTypeStep ==
    ASSUME FlagsType, [Next]_vars
    PROVE  FlagsType'
<1> USE DEF FlagsType, runVars, driveVars
<1>1. CASE UNCHANGED vars \/ RequestCancel \/ Time \/ CloseCancelledQueued \/ Recover
  BY <1>1 DEF vars, RequestCancel, Time, LeaseElapses, BackoffElapses, RetryGateOpens,
     CloseCancelledQueued, Recover, ReconcileRunStates, CommitSpooledOutcome, RecoverStep,
     RequeueCrashedRun
<1>2. CASE Reap
  BY <1>2 DEF Reap, ReapToCancelled, ReapToFailed, ReapToQueued, Reaped
<1>3. ASSUME NEW targets, Reopen(targets)
      PROVE  FlagsType'
  BY <1>3 DEF Reopen
<1>4. ASSUME NEW e \in Executors, ClaimRun(e)
      PROVE  FlagsType'
  BY <1>4 DEF ClaimRun
<1>5. ASSUME NEW e \in Executors, RenewRunLeases(e)
      PROVE  FlagsType'
  BY <1>5 DEF RenewRunLeases, Holds
<1>6. ASSUME NEW e \in Executors, Crash(e) \/ StopDriving(e) \/ HandBackFails(e)
      PROVE  FlagsType'
  BY <1>6 DEF Crash, StopDriving, HandBackFails, Leave
<1>7. ASSUME NEW e \in Executors, HandBack(e)
      PROVE  FlagsType'
  BY <1>7 DEF HandBack, DrainRun, Leave
<1>8. ASSUME NEW e \in Executors, ProcessEnds(e) \/ Abandon(e)
      PROVE  FlagsType'
  BY <1>8 DEF ProcessEnds, Abandon
<1>9. ASSUME NEW e \in Executors,
             \/ CheckSignals(e) \/ PickStep(e) \/ Wake(e) \/ StartStep(e) \/ RecordStepOutcome(e)
             \/ ListPending(e) \/ SkipPending(e) \/ FinishReason(e) \/ FinishRun(e)
             \/ ObserveRunCancel(e)
      PROVE  FlagsType'
  BY <1>9 DEF CheckSignals, PickStep, Wake, StartStep, RecordStepOutcome, ListPending,
     SkipPending, FinishReason, FinishRun, ObserveRunCancel
<1>10. QED
  BY <1>1, <1>2, <1>3, <1>4, <1>5, <1>6, <1>7, <1>8, <1>9
     DEF Next, Drive, ReopenTerminalRunByOperator

-----------------------------------------------------------------------------
(* The fence.                                                              *)

(* Nobody comes to hold a run except by claiming it.                       *)
LEMMA HoldsFrame ==
    ASSUME TypeOK, OwnerFence, [Next]_vars, NEW e \in Executors, Holds(e)'
    PROVE  Holds(e) \/ ClaimRun(e)
<1> USE DEF TypeOK, RunRowType, DrivesType, Holds, OwnerFence, runVars, driveVars
<1>1. CASE UNCHANGED vars \/ RequestCancel \/ Time \/ CloseCancelledQueued \/ Recover
  BY <1>1 DEF vars, RequestCancel, Time, LeaseElapses, BackoffElapses, RetryGateOpens,
     CloseCancelledQueued, TerminalVerdict, Recover, ReconcileRunStates, Close, RunAggregate,
     CommitSpooledOutcome, RecoverStep, RequeueCrashedRun
<1>2. CASE Reap
  BY <1>2 DEF Reap, ReapToCancelled, ReapToFailed, ReapToQueued, Close, TerminalVerdict
<1>3. ASSUME NEW targets, Reopen(targets)
      PROVE  Holds(e)
  BY <1>3 DEF Reopen
<1>4. ASSUME NEW f \in Executors, ClaimRun(f)
      PROVE  ClaimRun(e)
  BY <1>4, OwnerAssumption DEF ClaimRun
<1>5. ASSUME NEW f \in Executors, RenewRunLeases(f)
      PROVE  Holds(e)
  BY <1>5 DEF RenewRunLeases
<1>6. ASSUME NEW f \in Executors, Reads(f)
      PROVE  Holds(e)
  BY <1>6, ReadsFrame
<1>7. ASSUME NEW f \in Executors, HandBack(f)
      PROVE  Holds(e)
  BY <1>7 DEF HandBack, DrainRun
<1>8. ASSUME NEW f \in Executors, StartStep(f) \/ RecordStepOutcome(f) \/ SkipPending(f)
      PROVE  Holds(e)
  BY <1>8 DEF StartStep, RecordStepOutcome, SkipPending
<1>9. ASSUME NEW f \in Executors, FinishRun(f) \/ ObserveRunCancel(f)
      PROVE  Holds(e)
  BY <1>9 DEF FinishRun, ObserveRunCancel, Close, TerminalVerdict
<1>10. QED
  BY <1>1, <1>2, <1>3, <1>4, <1>5, <1>6, <1>7, <1>8, <1>9
     DEF Next, Drive, Reads, ReopenTerminalRunByOperator

(* Owner, token and row agree after every action (claimTx, reapOneTx, DrainRun). *)
LEMMA OwnerFenceStep ==
    ASSUME TypeOK, OwnerFence, KeeperEntry, [Next]_vars
    PROVE  OwnerFence'
<1> USE DEF TypeOK, RunRowType, DrivesType, OwnerFence, KeeperEntry, Holds, runVars, driveVars
<1>1. CASE UNCHANGED vars \/ RequestCancel \/ Time
  BY <1>1 DEF vars, RequestCancel, Time, LeaseElapses, BackoffElapses, RetryGateOpens
<1>2. CASE CloseCancelledQueued
  BY <1>2 DEF CloseCancelledQueued, TerminalVerdict
<1>3. CASE Recover
  <2>1. CASE ReconcileRunStates
    BY <2>1 DEF ReconcileRunStates, Close, RunAggregate
  <2>2. CASE RequeueCrashedRun
    BY <2>2 DEF RequeueCrashedRun
  <2>3. CASE \/ \E e \in Executors, o \in Outcomes : CommitSpooledOutcome(e, o)
             \/ \E s \in Steps : RecoverStep(s)
    BY <2>3 DEF CommitSpooledOutcome, RecoverStep
  <2> HIDE DEF OwnerFence
  <2>4. QED  BY <1>3, <2>1, <2>2, <2>3 DEF Recover
<1>4. CASE Reap
  BY <1>4 DEF Reap, ReapToCancelled, ReapToFailed, ReapToQueued, Reaped, Close, TerminalVerdict
<1>5. ASSUME NEW targets, Reopen(targets)
      PROVE  OwnerFence'
  BY <1>5 DEF Reopen
<1>6. ASSUME NEW f \in Executors, ClaimRun(f)
      PROVE  OwnerFence'
  BY <1>6 DEF ClaimRun, ClaimedToken
<1>7. ASSUME NEW f \in Executors, RenewRunLeases(f)
      PROVE  OwnerFence'
  BY <1>7 DEF RenewRunLeases
<1>8. ASSUME NEW f \in Executors, Reads(f)
      PROVE  OwnerFence'
  BY <1>8, ReadsFrame
<1>9. ASSUME NEW f \in Executors, HandBack(f)
      PROVE  OwnerFence'
  BY <1>9, OwnerAssumption DEF HandBack, DrainRun
<1>10. ASSUME NEW f \in Executors, StartStep(f) \/ RecordStepOutcome(f) \/ SkipPending(f)
      PROVE  OwnerFence'
  BY <1>10 DEF StartStep, RecordStepOutcome, SkipPending
<1>11. ASSUME NEW f \in Executors, FinishRun(f) \/ ObserveRunCancel(f)
      PROVE  OwnerFence'
  BY <1>11 DEF FinishRun, ObserveRunCancel, Close, TerminalVerdict
<1> HIDE DEF OwnerFence
<1>12. QED
  BY <1>1, <1>2, <1>3, <1>4, <1>5, <1>6, <1>7, <1>8, <1>9, <1>10, <1>11
     DEF Next, Drive, Reads, ReopenTerminalRunByOperator

(* A drive leaves its idle place only by a claim, and loses the keeper's   *)
(* entry only when it ends or no longer holds the run.                     *)
LEMMA KeeperEntryStep ==
    ASSUME TypeOK, OwnerFence, KeeperEntry, [Next]_vars
    PROVE  KeeperEntry'
<1> SUFFICES ASSUME NEW e \in Executors, Holds(e)', pc'[e] # "idle"
             PROVE  held'[e]
  BY DEF KeeperEntry
<1> USE DEF TypeOK, DrivesType, FlagsType, driveVars
<1>1. Holds(e) \/ ClaimRun(e)
  BY HoldsFrame DEF TypeOK
<1>2. CASE ClaimRun(e)
  BY <1>2 DEF ClaimRun
<1>3. CASE Holds(e) /\ ~ClaimRun(e)
  <2>1. ASSUME NEW f \in Executors, RenewRunLeases(f)
        PROVE  held'[e]
    <3>1. pc' = pc /\ held' = [held EXCEPT ![f] = Holds(f)]
      BY <2>1 DEF RenewRunLeases
    <3>2. held[e]
      BY <1>3, <3>1 DEF KeeperEntry
    <3>3. QED  BY <1>3, <3>1, <3>2
  <2>2. ASSUME NEW f \in Executors, Crash(f) \/ HandBack(f) \/ HandBackFails(f)
        PROVE  held'[e]
    BY <2>2, <1>3 DEF Crash, HandBack, HandBackFails, Leave, Go, KeeperEntry
  <2>3. ASSUME NEW f \in Executors, ClaimRun(f)
        PROVE  held'[e]
    BY <2>3, <1>3 DEF ClaimRun, KeeperEntry
  <2>4. ASSUME NEW f \in Executors,
             \/ CheckSignals(f) \/ PickStep(f) \/ Wake(f) \/ StartStep(f) \/ ProcessEnds(f)
             \/ Abandon(f) \/ RecordStepOutcome(f) \/ ListPending(f) \/ SkipPending(f)
             \/ FinishReason(f) \/ FinishRun(f) \/ ObserveRunCancel(f) \/ StopDriving(f)
        PROVE  held'[e]
    <3>1. held' = held
      BY <2>4 DEF CheckSignals, PickStep, Wake, StartStep, ProcessEnds, Abandon,
         RecordStepOutcome, ListPending, SkipPending, FinishReason, FinishRun, ObserveRunCancel,
         StopDriving
    <3>2. pc[f] # "idle"
      BY <2>4 DEF CheckSignals, PickStep, Wake, StartStep, ProcessEnds, Abandon,
         RecordStepOutcome, ListPending, SkipPending, FinishReason, FinishRun, ObserveRunCancel,
         StopDriving, Driving
    <3>3. pc'[e] = pc[e] \/ e = f
      <4>1. CASE PickStep(f)
        BY <4>1 DEF PickStep, Go
      <4>2. CASE RecordStepOutcome(f)
        BY <4>2 DEF RecordStepOutcome, Go
      <4>3. CASE SkipPending(f)
        BY <4>3 DEF SkipPending, Go
      <4>4. CASE StartStep(f)
        BY <4>4 DEF StartStep, Go
      <4>5. QED
        BY <2>4, <4>1, <4>2, <4>3, <4>4 DEF CheckSignals, Wake, ProcessEnds, Abandon,
           ListPending, FinishReason, FinishRun, ObserveRunCancel, StopDriving, Go
    <3>4. QED  BY <1>3, <3>1, <3>2, <3>3 DEF KeeperEntry
  <2>5. CASE Environment
    BY <1>3, <2>5, EnvironmentFrame DEF KeeperEntry
  <2>6. QED
    BY <1>3, <2>1, <2>2, <2>3, <2>4, <2>5, NextSplit DEF Drive
<1>4. QED  BY <1>1, <1>2, <1>3

-----------------------------------------------------------------------------
(* Marks.                                                                  *)

(* No action leaves the mark of a spent run budget on a fresh drive.       *)
LEMMA MarksStep ==
    ASSUME TypeOK, MarksAreFresh, WhatTheHolderReadStands, [Next]_vars
    PROVE  MarksAreFresh'
<1> USE DEF TypeOK, DrivesType, RunRowType, runVars, driveVars
<1>1. ASSUME NEW e \in Executors, pc'[e] \in {"top", "pick", "sleep", "start"}
      PROVE  out'[e] # "run_deadline"
  <2>1. ASSUME NEW f \in Executors, ClaimRun(f) \/ RenewRunLeases(f) \/ Crash(f) \/ StopDriving(f)
        PROVE  out'[e] # "run_deadline"
    BY <1>1, <2>1 DEF ClaimRun, RenewRunLeases, Crash, StopDriving, MarksAreFresh
  <2>2. ASSUME NEW f \in Executors, HandBack(f) \/ HandBackFails(f)
        PROVE  out'[e] # "run_deadline"
    BY <1>1, <2>2 DEF HandBack, HandBackFails, Leave, Go, MarksAreFresh
  <2>3. ASSUME NEW f \in Executors,
             \/ CheckSignals(f) \/ PickStep(f) \/ Wake(f) \/ StartStep(f) \/ ProcessEnds(f)
             \/ Abandon(f) \/ ListPending(f) \/ SkipPending(f)
             \/ FinishReason(f) \/ FinishRun(f) \/ ObserveRunCancel(f)
        PROVE  out'[e] # "run_deadline"
    BY <1>1, <2>3 DEF CheckSignals, PickStep, Wake, StartStep, ProcessEnds, Abandon,
       ListPending, SkipPending, FinishReason, FinishRun, ObserveRunCancel, Go, MarksAreFresh
  <2>4. ASSUME NEW f \in Executors, RecordStepOutcome(f)
        PROVE  out'[e] # "run_deadline"
    BY <1>1, <2>4 DEF RecordStepOutcome, Go, MarksAreFresh
  <2>5. CASE Environment
    BY <1>1, <2>5, EnvironmentFrame DEF MarksAreFresh
  <2>6. QED
    BY <2>1, <2>2, <2>3, <2>4, <2>5, NextSplit DEF Drive
<1>2. IsRunLevelFailure(code') => state' \in TerminalRun
  <2> USE DEF IsRunLevelFailure, TerminalRun, MarksAreFresh
  <2>1. CASE UNCHANGED <<state, code>>
    BY <2>1
  <2>2. CASE CloseCancelledQueued \/ ReconcileRunStates
    BY <2>2 DEF CloseCancelledQueued, ReconcileRunStates, Close, TerminalVerdict, VerdictCode,
       RunAggregate
  <2>3. CASE Reap
    BY <2>3 DEF Reap, ReapToCancelled, ReapToFailed, ReapToQueued, Reapable, Close,
       TerminalVerdict, VerdictCode
  <2>4. ASSUME NEW f \in Executors, FinishRun(f) \/ ObserveRunCancel(f)
        PROVE  IsRunLevelFailure(code') => state' \in TerminalRun
    BY <2>4 DEF FinishRun, ObserveRunCancel, Close, TerminalVerdict
  <2>5. ASSUME NEW f \in Executors, ClaimRun(f)
        PROVE  IsRunLevelFailure(code') => state' \in TerminalRun
    BY <2>5 DEF ClaimRun
  <2>6. ASSUME NEW f \in Executors, HandBack(f)
        PROVE  IsRunLevelFailure(code') => state' \in TerminalRun
    BY <2>6 DEF HandBack, DrainRun, Leave, Holds
  <2>7. ASSUME NEW targets, Reopen(targets)
        PROVE  IsRunLevelFailure(code') => state' \in TerminalRun
    BY <2>7 DEF Reopen
  <2>8. CASE RequeueCrashedRun
    BY <2>8 DEF RequeueCrashedRun
  <2>9. CASE \/ UNCHANGED vars \/ RequestCancel \/ Time
             \/ \E f \in Executors : \/ RenewRunLeases(f) \/ Reads(f) \/ StartStep(f)
                                     \/ RecordStepOutcome(f) \/ SkipPending(f)
             \/ \E f \in Executors, o \in Outcomes : CommitSpooledOutcome(f, o)
             \/ \E s \in Steps : RecoverStep(s)
    BY <2>1, <2>9, ReadsFrame DEF vars, RequestCancel, Time, LeaseElapses, BackoffElapses,
       RetryGateOpens, RenewRunLeases, StartStep, RecordStepOutcome, SkipPending,
       CommitSpooledOutcome, RecoverStep
  <2>10. QED
    BY <2>2, <2>3, <2>4, <2>5, <2>6, <2>7, <2>8, <2>9, NextCases DEF WritesSteps, Time, Reap
<1>3. QED  BY <1>1, <1>2 DEF MarksAreFresh

-----------------------------------------------------------------------------
(* The step rows.                                                          *)

(* What one applied outcome may do to a step row and to its gate.          *)
LEMMA ApplyOutcomeEffect ==
    ASSUME StepRowsType, NEW s \in Steps, NEW o \in Outcomes, NEW veto, NEW next \in {"future", "due"},
           ApplyOutcome(s, o, veto, next)
    PROVE  /\ step[s] = "running"
           /\ step'[s] \in {"pending", "succeeded", "cancelled", "failed"}
           /\ step'[s] = "pending" => ~Spent(s)
           /\ \A t \in Steps \ {s} : /\ gate'[t] = gate[t]
                                     /\ \/ step'[t] = step[t]
                                        \/ step[t] = "pending" /\ step'[t] = "skipped"
           /\ UNCHANGED <<attempt, maxAttempts>>
<1>1. CASE o \in {"succeeded", "cancelled"}
  BY <1>1 DEF ApplyOutcome, StepRowsType
<1>2. CASE o \notin {"succeeded", "cancelled"}
  BY <1>2 DEF ApplyOutcome, StepRowsType, AfterFailures, GatesAfter
<1>3. QED  BY <1>1, <1>2

(* What may happen to one step in one transaction.                         *)
StepMove(s) ==
    /\ step[s] = "succeeded" => step'[s] = "succeeded"
    /\ step'[s] = "succeeded" => step[s] \in {"running", "succeeded"}
    /\ step'[s] = "running" =>
            \/ step[s] = "running"
            \/ \E e \in Executors : pc[e] = "start" /\ cur[e] = s /\ StartStep(e) /\ Holds(e)
    /\ step'[s] = "pending" /\ gate'[s] # "null" =>
            \/ step[s] = "pending" /\ gate[s] # "null"
            \/ step[s] = "running"
    /\ step[s] \in TerminalStep => step'[s] = step[s] \/ state' = "queued"

(* Every step row moves along StepMove, whoever writes it (step_fsm.go).   *)
LEMMA StepMoves ==
    ASSUME TypeOK, [Next]_vars, NEW s \in Steps
    PROVE  StepMove(s)
<1> USE DEF TypeOK, StepRowsType, StepStates, TerminalStep, Gates, StepMove, stepVars
<1>1. CASE ~WritesSteps
  <2>1. gate' = gate \/ \E t \in Steps : RetryGateOpens(t)
    BY <1>1, NextCases, ReadsFrame DEF vars, RequestCancel, LeaseElapses, BackoffElapses,
       ClaimRun, RenewRunLeases, FinishRun, ReconcileRunStates, RequeueCrashedRun
  <2>2. gate'[s] = gate[s] \/ gate[s] = "future"
    BY <2>1 DEF RetryGateOpens
  <2>3. QED  BY <1>1, <2>2, NoStepWritten
<1>2. CASE CloseCancelledQueued \/ ReapToCancelled
  BY <1>2 DEF CloseCancelledQueued, ReapToCancelled, Reaped, CloseOut
<1>3. ASSUME NEW e \in Executors, StartStep(e)
      PROVE  StepMove(s)
  BY <1>3 DEF StartStep, DrivesType
<1>4. ASSUME NEW e \in Executors, RecordStepOutcome(e)
      PROVE  StepMove(s)
  BY <1>4, ApplyOutcomeEffect DEF RecordStepOutcome, DrivesType
<1>5. ASSUME NEW e \in Executors, SkipPending(e)
      PROVE  StepMove(s)
  BY <1>5 DEF SkipPending, DrivesType
<1>6. ASSUME NEW e \in Executors, ObserveRunCancel(e)
      PROVE  StepMove(s)
  BY <1>6 DEF ObserveRunCancel, CloseOut
<1>7. ASSUME NEW e \in Executors, HandBack(e)
      PROVE  StepMove(s)
  BY <1>7 DEF HandBack, DrainRun, Leave, HandedBack
<1>8. CASE ReapToFailed
  BY <1>8 DEF ReapToFailed, Reaped, AfterFailures, GatesAfter, RunningSteps
<1>9. CASE ReapToQueued
  BY <1>9 DEF ReapToQueued, Reaped, AfterFailures, GatesAfter, LostAttempts, Exhausted, RunningSteps
<1>10. ASSUME NEW e \in Executors, NEW o \in Outcomes, CommitSpooledOutcome(e, o)
       PROVE  StepMove(s)
  BY <1>10, ApplyOutcomeEffect DEF CommitSpooledOutcome, DrivesType
<1>11. ASSUME NEW t \in Steps, RecoverStep(t)
       PROVE  StepMove(s)
  BY <1>11, ApplyOutcomeEffect DEF RecoverStep, Outcomes
<1>12. ASSUME NEW targets \in SUBSET Reopenable, Reopen(targets)
       PROVE  StepMove(s)
  BY <1>12 DEF Reopen, ReopenedGate, Reopenable
<1>13. QED
  BY <1>1, <1>2, <1>3, <1>4, <1>5, <1>6, <1>7, <1>8, <1>9, <1>10, <1>11, <1>12 DEF WritesSteps

(* I8 is kept by every action.                                             *)
LEMMA UpstreamStep ==
    ASSUME TypeOK, UpstreamSucceeded, WhatTheHolderReadStands, [Next]_vars
    PROVE  UpstreamSucceeded'
<1> SUFFICES ASSUME NEW s \in Steps, step'[s] \in {"running", "succeeded"},
                    NEW u \in Needs[s]
             PROVE  step'[u] = "succeeded"
  BY DEF UpstreamSucceeded
<1>1. u \in Steps
  BY NeedsAssumption
<1>2. step[u] = "succeeded"
  <2>1. CASE step[s] \in {"running", "succeeded"}
    BY <2>1 DEF UpstreamSucceeded
  <2>2. CASE \E e \in Executors : pc[e] = "start" /\ cur[e] = s
    BY <2>2 DEF WhatTheHolderReadStands
  <2>3. QED  BY <2>1, <2>2, StepMoves DEF StepMove
<1>3. QED  BY <1>1, <1>2, StepMoves DEF StepMove

(* A parked retry keeps its upstreams under every action.                  *)
LEMMA ParkedStep ==
    ASSUME TypeOK, UpstreamSucceeded, ParkedStepIsReady, [Next]_vars
    PROVE  ParkedStepIsReady'
<1> SUFFICES ASSUME NEW s \in Steps, step'[s] = "pending", gate'[s] # "null",
                    NEW u \in Needs[s]
             PROVE  step'[u] = "succeeded"
  BY DEF ParkedStepIsReady, Parked, PendingSteps
<1>1. u \in Steps
  BY NeedsAssumption
<1>2. step[u] = "succeeded"
  BY StepMoves DEF StepMove, UpstreamSucceeded, ParkedStepIsReady, Parked, PendingSteps
<1>3. QED  BY <1>1, <1>2, StepMoves DEF StepMove

(* I5 is kept by every action, DrainRun and the reopen included.           *)
LEMMA AttemptBudgetStep ==
    ASSUME TypeOK, AttemptBudget, [Next]_vars
    PROVE  AttemptBudget'
<1> SUFFICES ASSUME NEW s \in Steps
             PROVE  /\ attempt'[s] <= maxAttempts'[s]
                    /\ step'[s] = "pending" => attempt'[s] < maxAttempts'[s]
                    /\ step'[s] \in {"running", "succeeded", "failed"} => attempt'[s] > 0
  BY DEF AttemptBudget
<1> DEFINE Within == /\ attempt'[s] <= maxAttempts'[s]
                     /\ step'[s] = "pending" => attempt'[s] < maxAttempts'[s]
                     /\ step'[s] \in {"running", "succeeded", "failed"} => attempt'[s] > 0
<1> USE DEF TypeOK, StepRowsType, StepStates, AttemptBudget, stepVars
<1>0. ASSUME NEW t \in Steps, NEW o \in Outcomes, NEW veto, NEW next \in {"future", "due"},
             ApplyOutcome(t, o, veto, next)
      PROVE  Within
  <2>1. /\ step[t] = "running" /\ UNCHANGED <<attempt, maxAttempts>>
        /\ step'[t] = "pending" => ~Spent(t)
        /\ s # t => step'[s] = step[s] \/ step'[s] = "skipped"
    BY <1>0, ApplyOutcomeEffect
  <2>2. QED  BY <2>1 DEF Spent
<1>1. CASE ~WritesSteps
  BY <1>1, NoStepWritten
<1>2. CASE CloseCancelledQueued \/ ReapToCancelled
  BY <1>2 DEF CloseCancelledQueued, ReapToCancelled, Reaped, CloseOut
<1>3. ASSUME NEW e \in Executors, StartStep(e)
      PROVE  Within
  BY <1>3 DEF StartStep, DrivesType
<1>4. ASSUME NEW e \in Executors, RecordStepOutcome(e)
      PROVE  Within
  BY <1>4, <1>0 DEF RecordStepOutcome, DrivesType
<1>5. ASSUME NEW e \in Executors, SkipPending(e)
      PROVE  Within
  BY <1>5 DEF SkipPending, DrivesType
<1>6. ASSUME NEW e \in Executors, ObserveRunCancel(e)
      PROVE  Within
  BY <1>6 DEF ObserveRunCancel, CloseOut
<1>7. ASSUME NEW e \in Executors, HandBack(e)
      PROVE  Within
  BY <1>7 DEF HandBack, DrainRun, Leave, HandedBack, Restored
<1>8. CASE ReapToFailed
  BY <1>8 DEF ReapToFailed, Reaped, AfterFailures, RunningSteps
<1>9. CASE ReapToQueued
  BY <1>9 DEF ReapToQueued, Reaped, AfterFailures, LostAttempts, Exhausted, RunningSteps, Spent
<1>10. ASSUME NEW e \in Executors, NEW o \in Outcomes, CommitSpooledOutcome(e, o)
       PROVE  Within
  BY <1>10, <1>0 DEF CommitSpooledOutcome, DrivesType
<1>11. ASSUME NEW t \in Steps, RecoverStep(t)
       PROVE  Within
  BY <1>11, <1>0 DEF RecoverStep, Outcomes
<1>12. ASSUME NEW targets \in SUBSET Reopenable, Reopen(targets)
       PROVE  Within
  BY <1>12 DEF Reopen, Reopenable
<1>13. QED
  BY <1>1, <1>2, <1>3, <1>4, <1>5, <1>6, <1>7, <1>8, <1>9, <1>10, <1>11, <1>12 DEF WritesSteps

-----------------------------------------------------------------------------
(* The run row over its steps.                                             *)

(* closeOutCancelledStepsTx leaves no step open.                           *)
LEMMA CloseOutCloses ==
    ASSUME NEW st \in [Steps -> StepStates]
    PROVE  /\ AllTerminal(CloseOut(st))
           /\ \A s \in Steps : CloseOut(st)[s] # "running"
BY DEF CloseOut, AllTerminal, TerminalStep, StepStates

(* I2 is kept by every action that closes a run or starts a step.          *)
LEMMA ClosedRunStep ==
    ASSUME TypeOK, OwnerFence, MarksAreFresh, TerminalRunClosed, [Next]_vars
    PROVE  TerminalRunClosed'
<1> DEFINE Closed == /\ state' \in TerminalRun => AllTerminal(step')
                     /\ \A s \in Steps : step'[s] = "running" => state' = "running"
<1> SUFFICES Closed
  BY DEF TerminalRunClosed, RunningSteps
<1>a. /\ state \in TerminalRun => AllTerminal(step)
      /\ \A s \in Steps : step[s] = "running" => state = "running"
  BY DEF TerminalRunClosed, RunningSteps
<1> USE DEF TypeOK, StepRowsType, stepVars, runVars
<1>1. CASE UNCHANGED <<state, step>>
  BY <1>1, <1>a
<1>2. CASE ~WritesSteps /\ ~UNCHANGED state
  <2>1. step' = step
    BY <1>2, NoStepWritten
  <2>2. ASSUME NEW e \in Executors, ClaimRun(e)
        PROVE  Closed
    BY <1>a, <2>1, <2>2 DEF ClaimRun, TerminalRun
  <2>3. ASSUME NEW e \in Executors, FinishRun(e)
        PROVE  Closed
    BY <1>2, <2>1, <2>3 DEF FinishRun, AllTerminal, TerminalStep
  <2>4. CASE ReconcileRunStates
    <3>1. AllTerminal(step)
      BY <2>4 DEF ReconcileRunStates, RunAggregate, MarksAreFresh
    <3>2. QED  BY <2>1, <3>1 DEF AllTerminal, TerminalStep
  <2>5. CASE RequeueCrashedRun
    BY <2>1, <2>5 DEF RequeueCrashedRun, RunningSteps, TerminalRun
  <2>6. QED
    BY <1>2, <2>2, <2>3, <2>4, <2>5, NextCases, ReadsFrame DEF vars, RequestCancel,
       LeaseElapses, BackoffElapses, RetryGateOpens, RenewRunLeases
<1>3. CASE CloseCancelledQueued \/ ReapToCancelled
  BY <1>3, CloseOutCloses DEF CloseCancelledQueued, ReapToCancelled
<1>4. ASSUME NEW e \in Executors, StartStep(e) \/ RecordStepOutcome(e) \/ SkipPending(e)
      PROVE  Closed
  BY <1>4, <1>a DEF StartStep, RecordStepOutcome, SkipPending, Holds, TerminalRun
<1>5. ASSUME NEW e \in Executors, ObserveRunCancel(e)
      PROVE  Closed
  BY <1>5, <1>1, CloseOutCloses DEF ObserveRunCancel
<1>6. ASSUME NEW e \in Executors, HandBack(e)
      PROVE  Closed
  BY <1>6, <1>1 DEF HandBack, DrainRun, HandedBack, TerminalRun
<1>7. CASE ReapToFailed
  <2>1. CASE AllTerminal(step)
    BY <1>7, <2>1 DEF ReapToFailed, AllTerminal, TerminalStep
  <2>2. CASE ~AllTerminal(step)
    BY <1>7, <2>2 DEF ReapToFailed, AllTerminal, AfterFailures, RunningSteps, StepStates,
       TerminalStep
  <2>3. QED  BY <2>1, <2>2
<1>8. CASE ReapToQueued
  <2>1. \A s \in Steps : step'[s] # "running"
    BY <1>8 DEF ReapToQueued, AfterFailures, LostAttempts, RunningSteps
  <2>2. state' \in TerminalRun => AllTerminal(step')
    BY <1>8 DEF ReapToQueued, TerminalRun
  <2>3. QED  BY <2>1, <2>2
<1>9. CASE \/ \E e \in Executors, o \in Outcomes : CommitSpooledOutcome(e, o)
           \/ \E s \in Steps : RecoverStep(s)
  BY <1>9 DEF CommitSpooledOutcome, RecoverStep, TerminalRun
<1>10. ASSUME NEW targets \in SUBSET Reopenable, Reopen(targets)
       PROVE  Closed
  BY <1>10, <1>a DEF Reopen, TerminalRun
<1>11. QED
  BY <1>1, <1>2, <1>3, <1>4, <1>5, <1>6, <1>7, <1>8, <1>9, <1>10, NoStepWritten DEF WritesSteps

(* An ending that follows from the steps it is written over.               *)
Settled(verdict, reason, st) ==
    /\ verdict = RunAggregate(st, IsRunLevelFailure(reason))
    /\ \/ reason = VerdictCode(verdict)
       \/ verdict = "failed" /\ reason \in {"RUN_TIMED_OUT", "RUN_POISONED"}

(* The verdict read off ended steps agrees with them.                      *)
LEMMA VerdictSettles ==
    ASSUME NEW st, AllTerminal(st)
    PROVE  Settled(TerminalVerdict(st, FALSE), VerdictCode(TerminalVerdict(st, FALSE)), st)
BY DEF Settled, TerminalVerdict, VerdictCode, RunAggregate, IsRunLevelFailure

(* I10 is kept by every action that closes, reopens or rewrites a run.     *)
LEMMA VerdictStep ==
    ASSUME TypeOK, OwnerFence, MarksAreFresh, TerminalRunClosed, WhatTheHolderReadStands,
           VerdictMatchesSteps, [Next]_vars
    PROVE  VerdictMatchesSteps'
<1> DEFINE Agrees == state' \in TerminalRun => Settled(state', code', step')
<1> SUFFICES Agrees
  BY DEF VerdictMatchesSteps, Settled
<1> USE DEF TypeOK, StepRowsType, stepVars, runVars
<1>1. CASE UNCHANGED <<state, code, step>>
  BY <1>1 DEF VerdictMatchesSteps, Settled
<1>2. CASE state' \notin TerminalRun
  BY <1>2
<1>3. CASE CloseCancelledQueued \/ ReapToCancelled
  BY <1>3, CloseOutCloses, VerdictSettles DEF CloseCancelledQueued, ReapToCancelled, Close
<1>4. ASSUME NEW e \in Executors, ObserveRunCancel(e)
      PROVE  Agrees
  BY <1>1, <1>4, CloseOutCloses, VerdictSettles DEF ObserveRunCancel, Close
<1>5. ASSUME NEW e \in Executors, FinishRun(e)
      PROVE  Agrees
  <2>1. CASE Holds(e) /\ AllTerminal(step)
    <3>1. \/ why[e] = VerdictCode(TerminalVerdict(step, FALSE))
          \/ why[e] = "RUN_TIMED_OUT" /\ AnyIs(step, "failed")
      BY <1>5, <2>1 DEF FinishRun, WhatTheHolderReadStands
    <3>2. step' = step /\ state' = TerminalVerdict(step, FALSE) /\ code' = why[e]
      BY <1>5, <2>1, <3>1 DEF FinishRun, Close, VerdictCode, TerminalVerdict, IsRunLevelFailure
    <3>3. CASE why[e] = VerdictCode(TerminalVerdict(step, FALSE))
      BY <2>1, <3>2, <3>3, VerdictSettles
    <3>4. CASE why[e] = "RUN_TIMED_OUT" /\ AnyIs(step, "failed")
      BY <2>1, <3>2, <3>4 DEF Settled, TerminalVerdict, RunAggregate, IsRunLevelFailure
    <3>5. QED  BY <3>1, <3>3, <3>4
  <2>2. CASE ~(Holds(e) /\ AllTerminal(step))
    BY <1>1, <1>5, <2>2 DEF FinishRun
  <2>3. QED  BY <2>1, <2>2
<1>6. CASE ReapToFailed
  <2>1. CASE AllTerminal(step)
    BY <1>6, <2>1, VerdictSettles DEF ReapToFailed, Close
  <2>2. CASE ~AllTerminal(step)
    BY <1>6, <2>2 DEF ReapToFailed, Close, Settled, RunAggregate, IsRunLevelFailure
  <2>3. QED  BY <2>1, <2>2
<1>7. CASE ReapToQueued
  <2> DEFINE after == AfterFailures(step, LostAttempts, Exhausted)
  <2>1. CASE AllTerminal(after)
    BY <1>7, <2>1, VerdictSettles DEF ReapToQueued, Close
  <2>2. CASE ~AllTerminal(after)
    BY <1>7, <2>2 DEF ReapToQueued, TerminalRun
  <2>3. QED  BY <2>1, <2>2
<1>8. CASE ReconcileRunStates
  <2>1. ~IsRunLevelFailure(code)
    BY <1>8 DEF ReconcileRunStates, MarksAreFresh
  <2>2. QED
    BY <1>8, <2>1 DEF ReconcileRunStates, Close, Settled, RunAggregate, VerdictCode,
       IsRunLevelFailure
<1>9. ASSUME NEW e \in Executors,
             \/ ClaimRun(e) \/ HandBack(e) \/ StartStep(e) \/ RecordStepOutcome(e)
             \/ SkipPending(e) \/ RenewRunLeases(e) \/ Reads(e)
      PROVE  Agrees
  BY <1>1, <1>2, <1>9, ReadsFrame DEF ClaimRun, HandBack, DrainRun, Leave, StartStep,
     RecordStepOutcome, SkipPending, RenewRunLeases, Holds, TerminalRun
<1>10. CASE \/ \E e \in Executors, o \in Outcomes : CommitSpooledOutcome(e, o)
            \/ \E s \in Steps : RecoverStep(s)
            \/ \E targets \in SUBSET Reopenable : Reopen(targets)
            \/ RequeueCrashedRun
  BY <1>2, <1>10 DEF CommitSpooledOutcome, RecoverStep, Reopen, RequeueCrashedRun, TerminalRun
<1>11. CASE \/ UNCHANGED vars \/ RequestCancel \/ LeaseElapses \/ BackoffElapses
            \/ \E s \in Steps : RetryGateOpens(s)
  BY <1>1, <1>11 DEF vars, RequestCancel, LeaseElapses, BackoffElapses, RetryGateOpens
<1> HIDE DEF Agrees
<1>12. QED
  BY <1>3, <1>4, <1>5, <1>6, <1>7, <1>8, <1>9, <1>10, <1>11, NextCases DEF WritesSteps

-----------------------------------------------------------------------------
(* The drives against the rows.                                            *)

(* A drive moves only by its own actions.                                  *)
Own(e) == \/ ClaimRun(e) \/ Drive(e) \/ Crash(e) \/ StopDriving(e) \/ HandBackFails(e)

(* An action of one executor leaves the drives of the others alone.        *)
LEMMA OthersFrame ==
    ASSUME TypeOK, [Next]_vars, NEW e \in Executors, ~Own(e)
    PROVE  /\ pc'[e] = pc[e] /\ cur'[e] = cur[e] /\ out'[e] = out[e]
           /\ todo'[e] = todo[e] /\ why'[e] = why[e]
<1> DEFINE Same == /\ pc'[e] = pc[e] /\ cur'[e] = cur[e] /\ out'[e] = out[e]
                   /\ todo'[e] = todo[e] /\ why'[e] = why[e]
<1> USE DEF TypeOK, DrivesType, Go
<1>1. ASSUME Environment
      PROVE  Same
  BY <1>1, EnvironmentFrame
<1>2. ASSUME NEW f \in Executors, RenewRunLeases(f)
      PROVE  Same
  BY <1>2 DEF RenewRunLeases
<1>3. ASSUME NEW f \in Executors, f # e, ClaimRun(f) \/ Crash(f) \/ StopDriving(f)
      PROVE  Same
  BY <1>3 DEF ClaimRun, Crash, StopDriving
<1>4. ASSUME NEW f \in Executors, f # e, HandBack(f) \/ HandBackFails(f)
      PROVE  Same
  BY <1>4 DEF HandBack, HandBackFails, Leave
<1>5. ASSUME NEW f \in Executors, f # e, CheckSignals(f) \/ PickStep(f) \/ Wake(f) \/ StartStep(f)
      PROVE  Same
  BY <1>5 DEF CheckSignals, PickStep, Wake, StartStep
<1>6. ASSUME NEW f \in Executors, f # e, ProcessEnds(f) \/ Abandon(f) \/ RecordStepOutcome(f)
      PROVE  Same
  BY <1>6 DEF ProcessEnds, Abandon, RecordStepOutcome
<1>7. ASSUME NEW f \in Executors, f # e, ListPending(f) \/ SkipPending(f)
      PROVE  Same
  BY <1>7 DEF ListPending, SkipPending
<1>8. ASSUME NEW f \in Executors, f # e, FinishReason(f) \/ FinishRun(f) \/ ObserveRunCancel(f)
      PROVE  Same
  BY <1>8 DEF FinishReason, FinishRun, ObserveRunCancel
<1> HIDE DEF Same
<1>9. Same
  <2>1. ASSUME NEW f \in Executors, Own(f)
        PROVE  Same
    <3>1. f # e
      BY <2>1
    <3>2. QED  BY <2>1, <3>1, <1>3, <1>4, <1>5, <1>6, <1>7, <1>8 DEF Own, Drive
  <2>2. \/ Environment
        \/ \E f \in Executors : RenewRunLeases(f)
        \/ \E f \in Executors : Own(f)
    BY NextSplit DEF Own
  <2>3. QED  BY <1>1, <1>2, <2>1, <2>2
<1>10. QED  BY <1>9 DEF Same

(* The running step stays the holder's under every action.                 *)
LEMMA HoldersStep ==
    ASSUME TypeOK, OwnerFence, KeeperEntry, TerminalRunClosed, RunningStepIsTheHolders,
           [Next]_vars
    PROVE  RunningStepIsTheHolders'
<1>1. state' = "running" => \E e \in Executors : Holds(e)'
  BY OwnerFenceStep DEF OwnerFence, Holds
<1>2. ASSUME NEW e \in Executors, NEW s \in Steps, step'[s] = "running", Holds(e)'
      PROVE  s = cur'[e] /\ pc'[e] \in {"exec", "record", "out", "idle"}
  <2> USE DEF TypeOK, DrivesType, StepRowsType
  <2>1. CASE step[s] = "running"
    <3>1. state = "running"
      BY <2>1 DEF TerminalRunClosed, RunningSteps
    <3>2. Holds(e)
      BY <1>2, <3>1, HoldsFrame DEF ClaimRun
    <3>3. s = cur[e] /\ pc[e] \in {"exec", "record", "out", "idle"}
      BY <2>1, <3>2 DEF RunningStepIsTheHolders, RunningSteps
    <3>4. CASE ~Own(e)
      BY <3>3, <3>4, OthersFrame
    <3>5. CASE ProcessEnds(e) \/ Abandon(e)
      BY <3>3, <3>5 DEF ProcessEnds, Abandon, Go
    <3>6. CASE Crash(e) \/ StopDriving(e) \/ HandBackFails(e)
      BY <3>3, <3>6 DEF Crash, StopDriving, HandBackFails, Leave, Go
    <3>7. CASE RecordStepOutcome(e)
      <4>1. PICK next \in {"future"} : ApplyOutcome(cur[e], out[e], VetoesRetry(out[e]), next)
        BY <2>1, <3>2, <3>3, <3>7 DEF RecordStepOutcome
      <4>2. step'[s] # "running"
        BY <3>3, <4>1, ApplyOutcomeEffect
      <4>3. QED  BY <1>2, <4>2
    <3>8. CASE HandBack(e)
      <4>1. held[e]
        BY <3>2, <3>8 DEF HandBack, KeeperEntry
      <4>2. QED  BY <1>2, <3>2, <3>8, <4>1 DEF HandBack, DrainRun, Holds
    <3>9. QED
      BY <3>1, <3>3, <3>4, <3>5, <3>6, <3>7, <3>8 DEF Own, Drive, ClaimRun, CheckSignals,
         PickStep, Wake, StartStep, ListPending, SkipPending, FinishReason, FinishRun,
         ObserveRunCancel
  <2>2. CASE step[s] # "running"
    <3>1. PICK f \in Executors : cur[f] = s /\ StartStep(f) /\ Holds(f)
      BY <1>2, <2>2, StepMoves DEF StepMove
    <3>2. e = f
      BY <1>2, <3>1, HoldsFrame DEF ClaimRun, Holds
    <3>3. cur'[f] = s /\ pc'[f] \in {"exec", "out"}
      BY <3>1 DEF StartStep, Go
    <3>4. QED  BY <3>2, <3>3
  <2>3. QED  BY <2>1, <2>2
<1>3. QED  BY <1>1, <1>2 DEF RunningStepIsTheHolders, RunningSteps

(* No action invalidates what the holder has read.                         *)
LEMMA ReadStandsStep ==
    ASSUME TypeOK, OwnerFence, MarksAreFresh, AttemptBudget, RunningStepIsTheHolders,
           WhatTheHolderReadStands, [Next]_vars
    PROVE  WhatTheHolderReadStands'
<1> SUFFICES ASSUME NEW e \in Executors
             PROVE  /\ pc'[e] = "start" => \A u \in Needs[cur'[e]] : step'[u] = "succeeded"
                    /\ pc'[e] = "skip" /\ Holds(e)' => PendingSteps' \subseteq todo'[e]
                    /\ pc'[e] \in {"reason", "finish"} /\ Holds(e)' => AllTerminal(step')
                    /\ pc'[e] \in {"list", "skip", "reason"} /\ Holds(e)'
                            /\ out'[e] = "run_deadline" => AnyIs(step', "failed")
                    /\ pc'[e] = "finish" /\ Holds(e)'
                            => \/ why'[e] = VerdictCode(TerminalVerdict(step', FALSE))
                               \/ why'[e] = "RUN_TIMED_OUT" /\ AnyIs(step', "failed")
  BY DEF WhatTheHolderReadStands
<1> USE DEF TypeOK, DrivesType, StepRowsType
(* The holder's own past: it held the run before, and nothing ran then. *)
<1>a. ASSUME Holds(e)', pc'[e] \in {"list", "skip", "reason", "finish"}
      PROVE  Holds(e) /\ state' = "running"
  BY <1>a, HoldsFrame DEF ClaimRun, Holds
<1>b. ASSUME Holds(e), pc[e] \in {"list", "skip", "reason", "finish"}
      PROVE  \A s \in Steps : step[s] # "running"
  BY <1>b DEF RunningStepIsTheHolders, RunningSteps
<1>c. ASSUME state' = "running", NEW s \in Steps, step[s] \in TerminalStep
      PROVE  step'[s] = step[s]
  BY <1>c, StepMoves DEF StepMove
<1>1. ASSUME pc'[e] = "start"
      PROVE  \A u \in Needs[cur'[e]] : step'[u] = "succeeded"
  <2>1. CASE PickStep(e)
    BY <1>1, <2>1 DEF PickStep, Go, Runnable, stepVars
  <2>2. CASE ~PickStep(e)
    <3>1. pc[e] = "start" /\ cur'[e] = cur[e]
      BY <1>1, <2>2, OthersFrame DEF Own, Drive, ClaimRun, Crash, StopDriving, HandBackFails,
         HandBack, Leave, CheckSignals, Wake, StartStep, ProcessEnds, Abandon,
         RecordStepOutcome, ListPending, SkipPending, FinishReason, FinishRun,
         ObserveRunCancel, Go
    <3>2. \A u \in Needs[cur[e]] : u \in Steps /\ step[u] = "succeeded"
      BY <3>1, NeedsAssumption DEF WhatTheHolderReadStands
    <3>3. QED  BY <3>1, <3>2, StepMoves DEF StepMove
  <2>3. QED  BY <2>1, <2>2
<1>2. ASSUME pc'[e] = "skip", Holds(e)'
      PROVE  PendingSteps' \subseteq todo'[e]
  <2>1. Holds(e) /\ state' = "running"
    BY <1>2, <1>a
  <2>2. CASE ListPending(e)
    BY <2>2 DEF ListPending, StepsToSkip, PendingSteps, stepVars
  <2>3. CASE SkipPending(e)
    <3>1. PendingSteps \subseteq todo[e]
      BY <2>1, <2>3 DEF SkipPending, WhatTheHolderReadStands
    <3>2. PICK s \in todo[e] : /\ step' = [step EXCEPT ![s] = "skipped"]
                               /\ todo' = [todo EXCEPT ![e] = @ \ {s}]
      BY <1>2, <2>3 DEF SkipPending, Go
    <3>3. QED  BY <3>1, <3>2 DEF PendingSteps
  <2>4. CASE ~ListPending(e) /\ ~SkipPending(e)
    <3>1. pc[e] = "skip" /\ todo'[e] = todo[e]
      BY <1>2, <2>4, OthersFrame DEF Own, Drive, ClaimRun, Crash, StopDriving, HandBackFails,
         HandBack, Leave, CheckSignals, PickStep, Wake, StartStep, ProcessEnds, Abandon,
         RecordStepOutcome, FinishReason, FinishRun, ObserveRunCancel, Go
    <3>2. PendingSteps \subseteq todo[e]
      BY <2>1, <3>1 DEF WhatTheHolderReadStands
    <3>3. ASSUME NEW s \in Steps, step'[s] = "pending"
          PROVE  step[s] = "pending"
      BY <2>1, <3>1, <3>3, <1>b, <1>c DEF StepStates, TerminalStep
    <3>4. QED  BY <3>1, <3>2, <3>3 DEF PendingSteps
  <2>5. QED  BY <2>2, <2>3, <2>4
<1>3. ASSUME pc'[e] \in {"reason", "finish"}, Holds(e)'
      PROVE  AllTerminal(step) /\ step' = step
  <2>1. Holds(e) /\ state' = "running"
    BY <1>3, <1>a
  <2>2. AllTerminal(step)
    <3>1. CASE SkipPending(e)
      <4>1. pc[e] = "skip" /\ todo[e] = {}
        BY <1>3, <3>1 DEF SkipPending, Go
      <4>2. PendingSteps = {}
        BY <2>1, <4>1 DEF WhatTheHolderReadStands
      <4>3. QED  BY <2>1, <4>1, <4>2, <1>b DEF AllTerminal, PendingSteps, StepStates, TerminalStep
    <3>2. CASE ~SkipPending(e)
      <4>1. pc[e] \in {"reason", "finish"}
        BY <1>3, <3>2, OthersFrame DEF Own, Drive, ClaimRun, Crash, StopDriving, HandBackFails,
           HandBack, Leave, CheckSignals, PickStep, Wake, StartStep, ProcessEnds, Abandon,
           RecordStepOutcome, ListPending, FinishReason, FinishRun, ObserveRunCancel, Go
      <4>2. QED  BY <2>1, <4>1 DEF WhatTheHolderReadStands
    <3>3. QED  BY <3>1, <3>2
  <2>3. step' \in [Steps -> StepStates]
    BY StepRowsTypeStep
  <2>4. QED  BY <2>1, <2>2, <2>3, <1>c DEF AllTerminal
<1>4. ASSUME pc'[e] \in {"list", "skip", "reason"}, Holds(e)', out'[e] = "run_deadline"
      PROVE  AnyIs(step', "failed")
  <2>1. Holds(e) /\ state' = "running"
    BY <1>4, <1>a
  <2>2. CASE RecordStepOutcome(e)
    <3>1. /\ cur[e] \in Steps
          /\ ApplyOutcome(cur[e], "run_deadline", VetoesRetry("run_deadline"), "future")
      BY <1>4, <2>2 DEF RecordStepOutcome, Go
    <3>2. step'[cur[e]] = "failed"
      BY <3>1 DEF ApplyOutcome, VetoesRetry, AfterFailures
    <3>3. QED  BY <3>1, <3>2 DEF AnyIs
  <2>3. CASE ~RecordStepOutcome(e)
    <3>1. pc[e] \in {"list", "skip", "reason"} /\ out[e] = "run_deadline"
      BY <1>4, <2>3, OthersFrame DEF Own, Drive, ClaimRun, Crash, StopDriving, HandBackFails,
         HandBack, Leave, CheckSignals, PickStep, Wake, StartStep, ProcessEnds, Abandon,
         ListPending, SkipPending, FinishReason, FinishRun, ObserveRunCancel, Go, MarksAreFresh
    <3>2. PICK s \in Steps : step[s] = "failed"
      BY <2>1, <3>1 DEF WhatTheHolderReadStands, AnyIs
    <3>3. step'[s] = "failed"
      BY <2>1, <3>2, <1>c DEF TerminalStep
    <3>4. QED  BY <3>3 DEF AnyIs
  <2>4. QED  BY <2>2, <2>3
<1>5. ASSUME pc'[e] = "finish", Holds(e)'
      PROVE  \/ why'[e] = VerdictCode(TerminalVerdict(step', FALSE))
             \/ why'[e] = "RUN_TIMED_OUT" /\ AnyIs(step', "failed")
  <2>1. Holds(e) /\ step' = step
    BY <1>5, <1>a, <1>3
  <2>2. CASE FinishReason(e)
    <3>1. pc[e] = "reason" /\ why' = [why EXCEPT ![e] =
                 IF out[e] = "run_deadline" THEN "RUN_TIMED_OUT"
                 ELSE VerdictCode(TerminalVerdict(step, FALSE))]
      BY <2>2 DEF FinishReason
    <3>2. out[e] = "run_deadline" => AnyIs(step, "failed")
      BY <2>1, <3>1 DEF WhatTheHolderReadStands
    <3>3. QED  BY <2>1, <3>1, <3>2
  <2>3. CASE ~FinishReason(e)
    <3>1. pc[e] = "finish" /\ why'[e] = why[e]
      BY <1>5, <2>3, OthersFrame DEF Own, Drive, ClaimRun, Crash, StopDriving, HandBackFails,
         HandBack, Leave, CheckSignals, PickStep, Wake, StartStep, ProcessEnds, Abandon,
         RecordStepOutcome, ListPending, SkipPending, FinishRun, ObserveRunCancel, Go
    <3>2. QED  BY <2>1, <3>1 DEF WhatTheHolderReadStands
  <2>4. QED  BY <2>2, <2>3
<1>6. QED  BY <1>1, <1>2, <1>3, <1>4, <1>5

-----------------------------------------------------------------------------
(* The inductive invariant.                                                *)

(* The materialised run satisfies the invariant.                           *)
LEMMA InvInit ==
    ASSUME Init
    PROVE  Inv
<1> USE StepsAssumption, BudgetAssumption, NeedsAssumption, OwnerAssumption DEF Init
<1>1. RunRowType /\ FlagsType
  BY DEF RunRowType, FlagsType, RunStates, LeasePhases, DeferReasons, RunCodes
<1>2. StepRowsType
  BY DEF StepRowsType, StepStates, Gates
<1>3. DrivesType
  BY DEF DrivesType, Places, Outcomes, RunCodes, Steps
<1>4. OwnerFence /\ KeeperEntry /\ MarksAreFresh
  BY DEF OwnerFence, KeeperEntry, MarksAreFresh, Holds, IsRunLevelFailure
<1>5. TerminalRunClosed /\ RunningStepIsTheHolders /\ UpstreamSucceeded
  BY DEF TerminalRunClosed, RunningStepIsTheHolders, UpstreamSucceeded, RunningSteps,
     TerminalRun
<1>6. AttemptBudget
  BY DEF AttemptBudget
<1>7. ParkedStepIsReady /\ WhatTheHolderReadStands /\ VerdictMatchesSteps
  BY DEF ParkedStepIsReady, Parked, PendingSteps, WhatTheHolderReadStands, Holds,
     VerdictMatchesSteps, TerminalRun
<1>8. QED  BY <1>1, <1>2, <1>3, <1>4, <1>5, <1>6, <1>7 DEF Inv, TypeOK

(* Every step of the system keeps the invariant.                           *)
LEMMA InvStep ==
    ASSUME Inv, [Next]_vars
    PROVE  Inv'
<1> USE DEF Inv
<1>1. TypeOK'
  BY RunRowTypeStep, StepRowsTypeStep, DrivesTypeStep, FlagsTypeStep DEF TypeOK
<1>2. OwnerFence' /\ KeeperEntry' /\ MarksAreFresh'
  BY OwnerFenceStep, KeeperEntryStep, MarksStep
<1>3. TerminalRunClosed' /\ RunningStepIsTheHolders'
  BY ClosedRunStep, HoldersStep
<1>4. UpstreamSucceeded' /\ ParkedStepIsReady' /\ AttemptBudget'
  BY UpstreamStep, ParkedStep, AttemptBudgetStep
<1>5. WhatTheHolderReadStands' /\ VerdictMatchesSteps'
  BY ReadStandsStep, VerdictStep
<1>6. QED  BY <1>1, <1>2, <1>3, <1>4, <1>5

(* Everything the runs check as an invariant of the rows and the drives    *)
(* holds in every reachable state, for every graph of steps, every budget  *)
(* and any number of executors.                                            *)
THEOREM Invariance == Spec => []Inv
<1>1. Init => Inv
  BY InvInit
<1>2. Inv /\ [Next]_vars => Inv'
  BY InvStep
<1>3. QED  BY <1>1, <1>2, PTL DEF Spec

(* Type correctness: the restored attempt of a drain never falls below     *)
(* zero, and every column stays in its domain.                             *)
THEOREM TypeCorrect == Spec => []TypeOK
<1>1. Inv => TypeOK
  BY DEF Inv
<1>2. QED  BY <1>1, Invariance, PTL

(* I2: a terminal run sits over no open step and no step runs under a run  *)
(* that is not running.                                                    *)
THEOREM RunsCloseWhole == Spec => []TerminalRunClosed
<1>1. Inv => TerminalRunClosed
  BY DEF Inv
<1>2. QED  BY <1>1, Invariance, PTL

(* I10: however a run was closed, its state and reason follow its steps.   *)
THEOREM VerdictsAgree == Spec => []VerdictMatchesSteps
<1>1. Inv => VerdictMatchesSteps
  BY DEF Inv
<1>2. QED  BY <1>1, Invariance, PTL

(* I8: no step runs ahead of its upstreams.                                *)
THEOREM DependenciesRespected == Spec => []UpstreamSucceeded
<1>1. Inv => UpstreamSucceeded
  BY DEF Inv
<1>2. QED  BY <1>1, Invariance, PTL

(* I5: no step runs past its budget.                                       *)
THEOREM BudgetRespected == Spec => []AttemptBudget
<1>1. Inv => AttemptBudget
  BY DEF Inv
<1>2. QED  BY <1>1, Invariance, PTL

(* The step that runs is the one its holder started.                       *)
THEOREM HolderOwnsTheStep == Spec => []RunningStepIsTheHolders
<1>1. Inv => RunningStepIsTheHolders
  BY DEF Inv
<1>2. QED  BY <1>1, Invariance, PTL

(* A holder's earlier reads still stand when it acts on them.              *)
THEOREM ReadsStand == Spec => []WhatTheHolderReadStands
<1>1. Inv => WhatTheHolderReadStands
  BY DEF Inv
<1>2. QED  BY <1>1, Invariance, PTL

(* A parked retry waits for nothing but its gate.                          *)
THEOREM RetriesAreReady == Spec => []ParkedStepIsReady
<1>1. Inv => ParkedStepIsReady
  BY DEF Inv
<1>2. QED  BY <1>1, Invariance, PTL

-----------------------------------------------------------------------------
(* What a step of the system may never do.                                 *)

(* I11: the token never falls and rises with every change of owner.        *)
THEOREM TokensRise == Spec => EpochRisesWithTheOwner
<1>1. ASSUME Inv, [Next]_vars
      PROVE  epoch' >= epoch /\ (owner' \in Executors /\ owner' # owner => epoch' > epoch)
  <2> DEFINE Rises == /\ epoch' >= epoch
                      /\ owner' \in Executors /\ owner' # owner => epoch' > epoch
  <2> SUFFICES Rises
    OBVIOUS
  <2> USE OwnerAssumption DEF runVars
  <2>0. epoch \in Nat
    BY <1>1 DEF Inv, TypeOK, RunRowType
  <2>1. CASE \/ UNCHANGED vars \/ RequestCancel \/ LeaseElapses \/ BackoffElapses
             \/ \E s \in Steps : RetryGateOpens(s)
    BY <2>0, <2>1 DEF vars, RequestCancel, LeaseElapses, BackoffElapses, RetryGateOpens
  <2>2. ASSUME NEW e \in Executors, ClaimRun(e)
        PROVE  Rises
    BY <2>0, <2>2 DEF ClaimRun, ClaimedToken
  <2>3. ASSUME NEW e \in Executors, RenewRunLeases(e) \/ Reads(e) \/ FinishRun(e)
        PROVE  Rises
    BY <2>0, <2>3, ReadsFrame DEF RenewRunLeases, FinishRun, Close
  <2>4. CASE ReconcileRunStates \/ RequeueCrashedRun
    BY <2>0, <2>4 DEF ReconcileRunStates, RequeueCrashedRun, Close
  <2>5. CASE CloseCancelledQueued
    BY <2>0, <2>5 DEF CloseCancelledQueued
  <2>6. ASSUME NEW e \in Executors,
               StartStep(e) \/ RecordStepOutcome(e) \/ SkipPending(e) \/ ObserveRunCancel(e)
        PROVE  Rises
    <3>1. epoch' = epoch /\ (owner' = owner \/ owner' = NoOne)
      BY <2>6 DEF StartStep, RecordStepOutcome, SkipPending, ObserveRunCancel, Close
    <3>2. QED  BY <2>0, <3>1
  <2>7. ASSUME NEW e \in Executors, HandBack(e)
        PROVE  Rises
    BY <2>0, <2>7 DEF HandBack, DrainRun
  <2>8. CASE ReapToCancelled \/ ReapToFailed \/ ReapToQueued
    <3>1. epoch' = epoch + 1
      BY <2>8 DEF ReapToCancelled, ReapToFailed, ReapToQueued, Reaped
    <3>2. QED  BY <2>0, <3>1
  <2>9. CASE \/ \E e \in Executors, o \in Outcomes : CommitSpooledOutcome(e, o)
             \/ \E s \in Steps : RecoverStep(s)
    <3>1. UNCHANGED <<epoch, owner>>
      BY <2>9 DEF CommitSpooledOutcome, RecoverStep
    <3>2. QED  BY <2>0, <3>1
  <2>10. ASSUME NEW targets \in SUBSET Reopenable, Reopen(targets)
         PROVE  Rises
    BY <2>0, <2>10 DEF Reopen
  <2> HIDE DEF Rises
  <2>11. QED
    BY <1>1, <2>1, <2>2, <2>3, <2>4, <2>5, <2>6, <2>7, <2>8, <2>9, <2>10, NextCases
       DEF WritesSteps
<1>2. QED  BY <1>1, Invariance, PTL DEF Spec, EpochRisesWithTheOwner

(* Only an operator reopens a run, and never a succeeded one.              *)
THEOREM TerminalStays == Spec => TerminalIsSticky
<1>1. ASSUME Inv, [Next]_vars, state \in TerminalRun, state' # state
      PROVE  state # "succeeded" /\ code' = "RUN_REOPENED_OPERATOR"
  <2> USE DEF TerminalRun, runVars
  <2>1. ASSUME NEW targets \in SUBSET Reopenable, Reopen(targets)
        PROVE  state # "succeeded" /\ code' = "RUN_REOPENED_OPERATOR"
    BY <2>1 DEF Reopen
  <2>2. CASE WritesSteps /\ ~\E targets \in SUBSET Reopenable : Reopen(targets)
    BY <1>1, <2>2 DEF WritesSteps, CloseCancelledQueued, StartStep, RecordStepOutcome,
       SkipPending, ObserveRunCancel, HandBack, DrainRun, Holds, ReapToCancelled, ReapToFailed,
       ReapToQueued, Reapable, CommitSpooledOutcome, RecoverStep
  <2>3. CASE ~WritesSteps
    BY <1>1, <2>3, NextCases, ReadsFrame DEF vars, RequestCancel, LeaseElapses, BackoffElapses,
       RetryGateOpens, ClaimRun, RenewRunLeases, FinishRun, Holds, ReconcileRunStates,
       RequeueCrashedRun
  <2>4. QED  BY <2>1, <2>2, <2>3
<1>2. QED  BY <1>1, Invariance, PTL DEF Spec, TerminalIsSticky

(* G7: under a live lease only the holder moves a step or the run.         *)
THEOREM OnlyHolderWrites == Spec => OnlyTheHolderWrites
<1>1. ASSUME Inv, [Next]_vars, lease = "live", ~NobodyAlive, step' # step \/ state' # state
      PROVE  \E e \in Executors : Holds(e) /\ <<pc[e], todo[e]>>' # <<pc[e], todo[e]>>
  <2> DEFINE ByHolder == \E e \in Executors : Holds(e) /\ <<pc[e], todo[e]>>' # <<pc[e], todo[e]>>
  <2> SUFFICES ByHolder
    OBVIOUS
  <2> USE DEF Inv, TypeOK, DrivesType, StepRowsType, Go
  <2>0. state = "running"
    BY <1>1 DEF OwnerFence
  <2>1. ASSUME NEW e \in Executors, StartStep(e)
        PROVE  ByHolder
    BY <1>1, <2>1 DEF StartStep, runVars
  <2>2. ASSUME NEW e \in Executors, RecordStepOutcome(e)
        PROVE  ByHolder
    BY <1>1, <2>2 DEF RecordStepOutcome, runVars, stepVars
  <2>3. ASSUME NEW e \in Executors, SkipPending(e)
        PROVE  ByHolder
    BY <1>1, <2>3 DEF SkipPending, runVars
  <2>4. ASSUME NEW e \in Executors, ObserveRunCancel(e) \/ FinishRun(e)
        PROVE  ByHolder
    BY <1>1, <2>4 DEF ObserveRunCancel, FinishRun, stepVars
  <2>5. ASSUME NEW e \in Executors, HandBack(e)
        PROVE  ByHolder
    BY <1>1, <2>5 DEF HandBack, Leave
  <2>6. CASE \/ ReapToCancelled \/ ReapToFailed \/ ReapToQueued
             \/ \E e \in Executors, o \in Outcomes : CommitSpooledOutcome(e, o)
             \/ \E s \in Steps : RecoverStep(s)
             \/ ReconcileRunStates \/ RequeueCrashedRun
    BY <1>1, <2>6 DEF ReapToCancelled, ReapToFailed, ReapToQueued, Reapable,
       CommitSpooledOutcome, LeaseVoid, LeaseExpired, RecoverStep, ReconcileRunStates,
       RequeueCrashedRun
  <2>7. CASE \/ CloseCancelledQueued
             \/ \E e \in Executors : ClaimRun(e)
             \/ \E targets \in SUBSET Reopenable : Reopen(targets)
    BY <2>0, <2>7 DEF CloseCancelledQueued, ClaimRun, Reopen
  <2>8. CASE \/ UNCHANGED vars \/ RequestCancel \/ LeaseElapses \/ BackoffElapses
             \/ \E s \in Steps : RetryGateOpens(s)
             \/ \E e \in Executors : RenewRunLeases(e) \/ Reads(e)
    BY <1>1, <2>8, ReadsFrame DEF vars, runVars, stepVars, RequestCancel, LeaseElapses,
       BackoffElapses, RetryGateOpens, RenewRunLeases
  <2> HIDE DEF ByHolder
  <2>9. QED
    BY <1>1, <2>1, <2>2, <2>3, <2>4, <2>5, <2>6, <2>7, <2>8, NextCases DEF WritesSteps
<1>2. QED  BY <1>1, Invariance, PTL DEF Spec, OnlyTheHolderWrites

-----------------------------------------------------------------------------
(* The two guarantees that need a history: the observers' next-state       *)
(* relation, and what they add to the invariant.                           *)

GuaranteeNext ==
    /\ Next
    /\ late' = IF cancel' THEN late + LateStarts ELSE 0
    /\ stalled' = (stalled \/ HolderStalls)

(* The one late start is spent: while a request stands, either no attempt  *)
(* has started since, or the holder is past the choice of a step and will  *)
(* meet the request at the top of its loop.                                *)
LateStartSpent ==
    /\ late \in {0, 1}
    /\ late = 1 => cancel /\ \A e \in Executors : Holds(e) => pc[e] \notin {"pick", "start"}

(* As long as no holder stalled past its ttl, a holder's lease is live and *)
(* a process runs only under the executor that holds the run.              *)
LeaseKept ==
    ~stalled => \A e \in Executors :
        /\ Holds(e) /\ pc[e] # "idle" => lease = "live"
        /\ pc[e] = "exec" => Holds(e)

GuaranteeInv == Inv /\ LateStartSpent /\ LeaseKept

-----------------------------------------------------------------------------
(* At most one executor holds the run: the row names one owner.            *)
LEMMA OneHolder ==
    ASSUME NEW e \in Executors, NEW f \in Executors, Holds(e), Holds(f)
    PROVE  e = f
BY DEF Holds

(* An attempt starts only in StartStep, by the holder, and one at a time.  *)
LEMMA AttemptsRise ==
    ASSUME TypeOK, [Next]_vars, NEW s \in Steps, attempt'[s] > attempt[s]
    PROVE  \E e \in Executors : StartStep(e) /\ Holds(e) /\ s = cur[e]
<1> USE DEF TypeOK, StepRowsType, DrivesType
<1>1. CASE ~WritesSteps
  BY <1>1, NoStepWritten
<1>2. CASE \E e \in Executors : StartStep(e)
  BY <1>2 DEF StartStep
<1>3. CASE \/ CloseCancelledQueued
           \/ \E e \in Executors : RecordStepOutcome(e) \/ SkipPending(e) \/ ObserveRunCancel(e)
           \/ ReapToCancelled \/ ReapToFailed \/ ReapToQueued
           \/ \E e \in Executors, o \in Outcomes : CommitSpooledOutcome(e, o)
           \/ \E s1 \in Steps : RecoverStep(s1)
           \/ \E targets \in SUBSET Reopenable : Reopen(targets)
  <2>1. attempt' = attempt
    BY <1>3 DEF CloseCancelledQueued, RecordStepOutcome, ApplyOutcome, SkipPending,
       ObserveRunCancel, ReapToCancelled, ReapToFailed, ReapToQueued, Reaped,
       CommitSpooledOutcome, RecoverStep, Reopen, stepVars
  <2>2. QED  BY <2>1
<1>4. CASE \E e \in Executors : HandBack(e)
  BY <1>4 DEF HandBack, DrainRun, Restored
<1>5. QED  BY <1>1, <1>2, <1>3, <1>4 DEF WritesSteps

(* So one action starts no attempt, or one and by the holder.              *)
LEMMA LateStartsBound ==
    ASSUME TypeOK, [Next]_vars
    PROVE  \/ LateStarts = 0
           \/ /\ LateStarts = 1 /\ cancel
              /\ \E e \in Executors : StartStep(e) /\ Holds(e)
<1> DEFINE Started == {s \in Steps : cancel /\ cancel' /\ attempt'[s] > attempt[s]}
<1>1. CASE Started = {}
  BY <1>1, FS_EmptySet DEF LateStarts
<1>2. ASSUME NEW s \in Started
      PROVE  /\ LateStarts = 1 /\ cancel
             /\ \E e \in Executors : StartStep(e) /\ Holds(e)
  <2>1. PICK e \in Executors : StartStep(e) /\ Holds(e) /\ s = cur[e]
    BY <1>2, AttemptsRise
  <2>2. \A t \in Started : t = s
    BY <2>1, AttemptsRise, OneHolder
  <2>3. Started = {s}
    BY <1>2, <2>2
  <2>4. Cardinality(Started) = 1
    BY <2>3, FS_Singleton
  <2>5. QED  BY <1>2, <2>1, <2>4 DEF LateStarts
<1>3. QED  BY <1>1, <1>2

(* Nobody reaches the choice of a step past a standing request except from *)
(* the choice itself: the top of the loop polls, a claim refuses.          *)
LEMMA ChoiceStep ==
    ASSUME TypeOK, OwnerFence, [Next]_vars, cancel, NEW e \in Executors,
           Holds(e)', pc'[e] \in {"pick", "start"}
    PROVE  Holds(e) /\ pc[e] \in {"pick", "start"} /\ ~\E f \in Executors : StartStep(f) /\ Holds(f)
<1> USE DEF TypeOK, DrivesType, Go
<1>1. Holds(e)
  BY HoldsFrame DEF ClaimRun
<1>2. CASE ~Own(e)
  BY <1>1, <1>2, OthersFrame, OneHolder DEF Own, Drive
<1>3. CASE PickStep(e)
  BY <1>1, <1>3, OneHolder DEF PickStep, StartStep
<1>4. CASE ~PickStep(e) /\ Own(e)
  BY <1>4 DEF Own, Drive, ClaimRun, CheckSignals, Wake, StartStep, ProcessEnds, Abandon,
     RecordStepOutcome, ListPending, SkipPending, FinishReason, FinishRun, ObserveRunCancel,
     HandBack, Leave, Crash, StopDriving, HandBackFails
<1>5. QED  BY <1>1, <1>2, <1>3, <1>4

(* A standing request spends at most one late start.                       *)
LEMMA LateStartStep ==
    ASSUME Inv, LateStartSpent, GuaranteeNext
    PROVE  LateStartSpent'
<1> USE DEF Inv
<1>0. [Next]_vars
  BY DEF GuaranteeNext
<1>1. CASE ~cancel'
  BY <1>1 DEF GuaranteeNext, LateStartSpent
<1>2. CASE cancel' /\ LateStarts = 0
  <2>1. late' = late
    BY <1>2 DEF GuaranteeNext, LateStartSpent
  <2>2. QED  BY <1>0, <1>2, <2>1, ChoiceStep DEF LateStartSpent
<1>3. CASE cancel' /\ LateStarts = 1
  <2>1. PICK e \in Executors : cancel /\ StartStep(e) /\ Holds(e)
    BY <1>0, <1>3, LateStartsBound
  <2>2. late = 0
    BY <2>1 DEF LateStartSpent, StartStep
  <2>3. late' = 1
    BY <1>3, <2>2 DEF GuaranteeNext
  <2>4. QED  BY <1>0, <1>3, <2>1, <2>3, ChoiceStep DEF LateStartSpent
<1>4. QED  BY <1>0, <1>1, <1>2, <1>3, LateStartsBound

-----------------------------------------------------------------------------
(* The lease column is let go of only with the run, and worn down only by  *)
(* time: everybody else leaves it or renews it.                            *)
LEMMA LeaseFrame ==
    ASSUME TypeOK, [Next]_vars, lease = "live", lease' # "live", state' = "running"
    PROVE  LeaseElapses
<1> USE DEF runVars
<1>1. CASE \/ UNCHANGED vars \/ RequestCancel \/ BackoffElapses
           \/ \E s \in Steps : RetryGateOpens(s)
           \/ \E e \in Executors : ClaimRun(e) \/ RenewRunLeases(e) \/ Reads(e)
  BY <1>1, ReadsFrame DEF vars, RequestCancel, BackoffElapses, RetryGateOpens, ClaimRun,
     RenewRunLeases
<1>2. CASE ReconcileRunStates \/ RequeueCrashedRun
  BY <1>2 DEF ReconcileRunStates, RequeueCrashedRun
<1>3. ASSUME NEW e \in Executors,
             \/ FinishRun(e) \/ ObserveRunCancel(e) \/ StartStep(e) \/ RecordStepOutcome(e)
             \/ SkipPending(e) \/ HandBack(e)
      PROVE  FALSE
  BY <1>3 DEF FinishRun, ObserveRunCancel, StartStep, RecordStepOutcome, SkipPending, HandBack,
     DrainRun, Close, TerminalVerdict
<1>4. CASE \/ CloseCancelledQueued \/ ReapToCancelled \/ ReapToFailed \/ ReapToQueued
           \/ \E targets \in SUBSET Reopenable : Reopen(targets)
  BY <1>4 DEF CloseCancelledQueued, ReapToCancelled, ReapToFailed, ReapToQueued, Close,
     TerminalVerdict, Reopen
<1>5. CASE \/ \E e \in Executors, o \in Outcomes : CommitSpooledOutcome(e, o)
           \/ \E s \in Steps : RecoverStep(s)
  BY <1>5 DEF CommitSpooledOutcome, RecoverStep
<1>6. QED  BY <1>1, <1>2, <1>3, <1>4, <1>5, NextCases DEF WritesSteps

(* A live lease is not taken from a driving holder: only its own actions   *)
(* end its hold on the run.                                                *)
LEMMA HoldKept ==
    ASSUME Inv, [Next]_vars, NEW e \in Executors, Holds(e), pc[e] = "exec", lease = "live",
           ~Own(e)
    PROVE  Holds(e)'
<1> USE DEF Inv, TypeOK, RunRowType, DrivesType, Holds
<1>0. ~NobodyAlive
  BY DEF NobodyAlive, Alive
<1>1. CASE \/ UNCHANGED vars \/ RequestCancel \/ LeaseElapses \/ BackoffElapses
           \/ \E s \in Steps : RetryGateOpens(s)
           \/ \E f \in Executors : ClaimRun(f) \/ RenewRunLeases(f) \/ Reads(f)
  BY <1>1, ReadsFrame DEF vars, runVars, driveVars, RequestCancel, LeaseElapses, BackoffElapses,
     RetryGateOpens, ClaimRun, RenewRunLeases
<1>2. CASE ReconcileRunStates \/ RequeueCrashedRun
  BY <1>0, <1>2 DEF ReconcileRunStates, RequeueCrashedRun
<1>3. ASSUME NEW f \in Executors,
             \/ FinishRun(f) \/ ObserveRunCancel(f) \/ StartStep(f) \/ RecordStepOutcome(f)
             \/ SkipPending(f) \/ HandBack(f)
      PROVE  Holds(e)'
  <2>1. ~Holds(f)
    BY <1>3 DEF Own, Drive
  <2>2. QED
    BY <1>3, <2>1 DEF FinishRun, ObserveRunCancel, StartStep, RecordStepOutcome, SkipPending,
       HandBack, runVars, stepVars
<1>4. CASE \/ CloseCancelledQueued \/ ReapToCancelled \/ ReapToFailed \/ ReapToQueued
           \/ \E targets \in SUBSET Reopenable : Reopen(targets)
  BY <1>0, <1>4 DEF CloseCancelledQueued, ReapToCancelled, ReapToFailed, ReapToQueued, Reapable,
     Reopen
<1>5. CASE \/ \E f \in Executors, o \in Outcomes : CommitSpooledOutcome(f, o)
           \/ \E s \in Steps : RecoverStep(s)
  BY <1>5 DEF CommitSpooledOutcome, RecoverStep, runVars, driveVars
<1>6. QED  BY <1>1, <1>2, <1>3, <1>4, <1>5, NextCases DEF WritesSteps

(* Without a stall a lease is live for as long as its holder drives.       *)
LEMMA LeaseKeptStep ==
    ASSUME Inv, LeaseKept, GuaranteeNext
    PROVE  LeaseKept'
<1> SUFFICES ASSUME ~stalled', NEW e \in Executors
             PROVE  /\ Holds(e)' /\ pc'[e] # "idle" => lease' = "live"
                    /\ pc'[e] = "exec" => Holds(e)'
  BY DEF LeaseKept
<1> USE DEF Inv, TypeOK, DrivesType
<1>0. ~stalled /\ ~HolderStalls /\ [Next]_vars
  BY DEF GuaranteeNext
<1>1. ASSUME Holds(e)', pc'[e] # "idle"
      PROVE  lease' = "live"
  <2>1. CASE ClaimRun(e)
    BY <2>1 DEF ClaimRun
  <2>2. CASE ~ClaimRun(e)
    <3>1. Holds(e)
      BY <1>0, <1>1, <2>2, HoldsFrame
    <3>2. pc[e] # "idle"
      <4>1. CASE ~Own(e)
        BY <1>0, <1>1, <4>1, OthersFrame
      <4>2. CASE Own(e)
        BY <1>1, <2>2, <4>2 DEF Own, Drive, CheckSignals, PickStep, Wake, StartStep,
           ProcessEnds, Abandon, RecordStepOutcome, ListPending, SkipPending, FinishReason,
           FinishRun, ObserveRunCancel, HandBack, Crash, StopDriving, Driving, HandBackFails
      <4>3. QED  BY <4>1, <4>2
    <3>3. lease = "live" /\ held[e]
      BY <1>0, <3>1, <3>2 DEF LeaseKept, KeeperEntry
    <3>4. ~LeaseElapses
      BY <1>0, <3>1, <3>3 DEF LeaseElapses, HolderStalls
    <3>5. QED  BY <1>0, <1>1, <3>3, <3>4, LeaseFrame DEF Holds
  <2>3. QED  BY <2>1, <2>2
<1>2. ASSUME pc'[e] = "exec"
      PROVE  Holds(e)'
  <2>1. CASE ~Own(e)
    <3>1. pc[e] = "exec"
      BY <1>0, <1>2, <2>1, OthersFrame
    <3>2. Holds(e) /\ lease = "live"
      BY <1>0, <3>1 DEF LeaseKept
    <3>3. QED  BY <1>0, <2>1, <3>1, <3>2, HoldKept
  <2>2. CASE Own(e)
    <3>1. StartStep(e) /\ Holds(e)
      BY <1>2, <2>2 DEF Own, Drive, ClaimRun, CheckSignals, PickStep, Wake, StartStep,
         ProcessEnds, Abandon, RecordStepOutcome, ListPending, SkipPending, FinishReason,
         FinishRun, ObserveRunCancel, HandBack, Leave, Crash, StopDriving, HandBackFails, Go
    <3>2. QED  BY <3>1 DEF StartStep, Holds, runVars
  <2>3. QED  BY <2>1, <2>2
<1>3. QED  BY <1>1, <1>2

-----------------------------------------------------------------------------
(* Both histories keep their invariant, beside that of the run.            *)
THEOREM GuaranteesInvariant == GuaranteeSpec => []GuaranteeInv
<1>1. GuaranteeInit => GuaranteeInv
  <2>1. GuaranteeInit => Inv
    BY InvInit DEF GuaranteeInit
  <2>2. GuaranteeInit => LateStartSpent /\ LeaseKept
    BY DEF GuaranteeInit, Init, LateStartSpent, LeaseKept, Holds
  <2>3. QED  BY <2>1, <2>2 DEF GuaranteeInv
<1>2. GuaranteeInv /\ [GuaranteeNext]_<<vars, late, stalled>> => GuaranteeInv'
  <2>1. CASE GuaranteeInv /\ GuaranteeNext
    BY <2>1, InvStep, LateStartStep, LeaseKeptStep DEF GuaranteeInv, GuaranteeNext
  <2>2. CASE GuaranteeInv /\ UNCHANGED <<vars, late, stalled>>
    <3>1. Inv'
      BY <2>2, InvStep DEF GuaranteeInv
    <3>2. LateStartSpent' /\ LeaseKept'
      BY <2>2 DEF GuaranteeInv, LateStartSpent, LeaseKept, Holds, vars, runVars, driveVars
    <3>3. QED  BY <3>1, <3>2 DEF GuaranteeInv
  <2>3. QED  BY <2>1, <2>2
<1>3. QED  BY <1>1, <1>2, PTL DEF GuaranteeSpec, GuaranteeNext

(* G8: a cancelled run starts at most the one attempt its executor had     *)
(* already chosen, for every graph of steps and any number of executors.   *)
THEOREM CancelStopsStarts == GuaranteeSpec => []AtMostOneLateStart
<1>1. GuaranteeInv => AtMostOneLateStart
  BY DEF GuaranteeInv, LateStartSpent, AtMostOneLateStart
<1>2. QED  BY <1>1, GuaranteesInvariant, PTL

(* G6: as long as no holder stalls past its lease, two executors never run *)
(* a process of the run at the same time.                                  *)
THEOREM ProcessesAreExclusive == GuaranteeSpec => []OneExecution
<1>1. GuaranteeInv => OneExecution
  BY OneHolder DEF GuaranteeInv, LeaseKept, OneExecution
<1>2. QED  BY <1>1, GuaranteesInvariant, PTL

-----------------------------------------------------------------------------
(* Repair: none of the four transactions makes a finding, over any rows.   *)

(* What a sweep finds is told by its eight conditions.                     *)
LEMMA FindingsAre ==
    ASSUME NEW c
    PROVE  c \in Fsck <=>
               \/ c = "I1" /\ OrphanedRunning
               \/ c = "I2" /\ StrandedSteps # {}
               \/ c = "I5" /\ OffBudget # {}
               \/ c = "I8" /\ StartedEarly # {}
               \/ c = "I10" /\ ~RunStateAgrees
               \/ c = "I14" /\ UnexplainedHold
               \/ c = "reason" /\ (UnexplainedRun \/ legacy # {})
               \/ c = "critical" /\ critical
  BY DEF Fsck, Checks

(* A requeued run is explained and stands for its steps still open.        *)
LEMMA RequeueAddsNothing ==
    ASSUME RepairOrphanedRunning
    PROVE  Fsck' \subseteq Fsck
<1>1. /\ UNCHANGED <<step, attempt, maxAttempts, legacy, critical>>
      /\ \/ UNCHANGED runVars
         \/ /\ state = "running" /\ state' = "queued" /\ UNCHANGED code
            /\ defer' = "after_crash"
  BY DEF RepairOrphanedRunning, Turn, stepVars, OrphanedRunning, HoldReason
<1>2. CASE UNCHANGED runVars
  BY <1>1, <1>2, FindingsAre DEF Fsck, runVars, OrphanedRunning, StrandedSteps, OffBudget, StartedEarly,
     RunningSteps, RunStateAgrees, RunAggregate, AllTerminal, AnyIs, UnexplainedHold, UnexplainedRun
<1>3. CASE state = "running" /\ state' = "queued" /\ UNCHANGED code /\ defer' = "after_crash"
  <2>1. ~OrphanedRunning' /\ StrandedSteps' = {} /\ ~UnexplainedHold' /\ ~UnexplainedRun'
    BY <1>3 DEF OrphanedRunning, StrandedSteps, UnexplainedHold, UnexplainedRun, TerminalRun
  <2>2. OffBudget' = OffBudget /\ StartedEarly' = StartedEarly /\ legacy' = legacy /\ critical' = critical
    BY <1>1 DEF OffBudget, StartedEarly, RunningSteps
  <2>3. RunStateAgrees => RunStateAgrees'
    BY <1>1, <1>3 DEF RunStateAgrees, RunAggregate, AllTerminal, AnyIs
  <2>4. QED  BY <2>1, <2>2, <2>3 DEF Fsck
<1>4. QED  BY <1>1, <1>2, <1>3

(* Closing the open steps of a terminal run: the aggregate disagreed with  *)
(* the run as long as one was open, and no running step is left to have    *)
(* started early.                                                          *)
LEMMA ClosingAddsNothing ==
    ASSUME RepairStrandedSteps
    PROVE  Fsck' \subseteq Fsck
<1>1. /\ step' = [s \in Steps |-> IF s \in StrandedSteps THEN ClosedStep(s) ELSE step[s]]
      /\ UNCHANGED <<runVars, attempt, maxAttempts, legacy, critical>>
  BY DEF RepairStrandedSteps, Turn
<1>2. UNCHANGED <<state, owner, lease, due, defer, code>>
  BY <1>1 DEF runVars
<1>3. \A s \in Steps :
          \/ step'[s] = step[s] /\ s \notin StrandedSteps
          \/ step'[s] \in {"cancelled", "skipped"} /\ s \in StrandedSteps
  BY <1>1 DEF ClosedStep
<1>4. OrphanedRunning' = OrphanedRunning /\ UnexplainedHold' = UnexplainedHold
      /\ UnexplainedRun' = UnexplainedRun
  BY <1>2 DEF OrphanedRunning, UnexplainedHold, UnexplainedRun
<1>5. OffBudget' \subseteq OffBudget
  BY <1>1, <1>3 DEF OffBudget
<1>6. StrandedSteps' = {}
  BY <1>2, <1>3 DEF StrandedSteps
<1>7. StartedEarly' \subseteq StartedEarly
  <2>1. CASE StrandedSteps = {}
    BY <1>3, <2>1, NeedsAssumption DEF StartedEarly, RunningSteps
  <2>2. CASE StrandedSteps # {}
    BY <1>3, <2>2 DEF StrandedSteps, StartedEarly, RunningSteps
  <2>3. QED  BY <2>1, <2>2
<1>8. RunStateAgrees => RunStateAgrees'
  <2>1. CASE StrandedSteps = {}
    <3>1. \A s \in Steps : step'[s] = step[s]
      BY <1>3, <2>1
    <3>2. QED  BY <1>2, <3>1 DEF RunStateAgrees, RunAggregate, AllTerminal, AnyIs
  <2>2. CASE StrandedSteps # {}
    <3>1. state \in TerminalRun /\ ~AllTerminal(step)
      BY <2>2 DEF StrandedSteps, AllTerminal, TerminalStep
    <3>2. QED  BY <1>2, <3>1 DEF RunStateAgrees, RunAggregate, TerminalRun
  <2>3. QED  BY <2>1, <2>2
<1>9. QED  BY <1>1, <1>4, <1>5, <1>6, <1>7, <1>8 DEF Fsck

(* The two repairs of reasons touch nothing another check reads.           *)
LEMMA ReasonsAddNothing ==
    ASSUME RepairUnexplainedDeferral \/ RepairLegacyReasons
    PROVE  Fsck' \subseteq Fsck
<1>1. UNCHANGED <<state, owner, lease, due, step, attempt, maxAttempts, critical>>
  BY DEF RepairUnexplainedDeferral, RepairLegacyReasons, Turn, stepVars
<1>2. OrphanedRunning' = OrphanedRunning /\ StrandedSteps' = StrandedSteps /\ OffBudget' = OffBudget
      /\ StartedEarly' = StartedEarly
  BY <1>1 DEF OrphanedRunning, StrandedSteps, OffBudget, StartedEarly, RunningSteps
<1>3. UnexplainedHold' => UnexplainedHold
  BY <1>1 DEF UnexplainedHold, RepairUnexplainedDeferral, RepairLegacyReasons
<1>4. UnexplainedRun' \/ legacy' # {} => UnexplainedRun \/ legacy # {}
  BY <1>1 DEF UnexplainedRun, RepairUnexplainedDeferral, RepairLegacyReasons, StampedSteps
<1>5. IsRunLevelFailure(code)' <=> IsRunLevelFailure(code)
  BY DEF IsRunLevelFailure, UnexplainedRun, RepairUnexplainedDeferral, RepairLegacyReasons
<1>6. RunStateAgrees => RunStateAgrees'
  BY <1>1, <1>5 DEF RunStateAgrees, RunAggregate, AllTerminal, AnyIs
<1>7. QED  BY <1>1, <1>2, <1>3, <1>4, <1>6 DEF Fsck

(* No transaction of a repair trades one finding for another, whatever the *)
(* damage, the graph of steps and the scope, and wherever it is cut short  *)
(* (fsckrepair.go).                                                        *)
THEOREM RepairsAddNoFinding == RepairSpec => RepairAddsNoFinding
<1>1. ASSUME [RepairNext]_allVars
      PROVE  Repair => Fsck' \subseteq Fsck
  <2>1. ASSUME NEW confirm \in BOOLEAN, Sweep(confirm)
        PROVE  Fsck' \subseteq Fsck
    <3>1. UNCHANGED <<state, owner, lease, due, defer, code, step, attempt, maxAttempts, legacy, critical>>
      BY <2>1 DEF Sweep, vars, runVars, stepVars
    <3>2. QED  BY <3>1 DEF Fsck, OrphanedRunning, StrandedSteps, OffBudget, StartedEarly,
       RunningSteps, RunStateAgrees, RunAggregate, AllTerminal, AnyIs, UnexplainedHold, UnexplainedRun
  <2>2. QED  BY <2>1, RequeueAddsNothing, ClosingAddsNothing, ReasonsAddNothing DEF Repair
<1>2. QED  BY <1>1, PTL DEF RepairSpec, RepairAddsNoFinding

=============================================================================
