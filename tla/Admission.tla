----------------------------- MODULE Admission -----------------------------
(***************************************************************************)
(* Who may become a run, and which queued run may start: the concurrency   *)
(* ceiling of a job (jobs.max_concurrent) and the concurrency keys, over   *)
(* several runs at once.  A creation the disk hold or a policy refuses     *)
(* leaves no run, so it is no step here.                                   *)
(*                                                                         *)
(* A run is a number, in creation order.  A schedule's fire carries its    *)
(* scheduled_for; manual, sensor and replay runs carry none, and NULL      *)
(* sorts first in the claim order.  What a run does once it is claimed is  *)
(* module RunLifecycle; here it only ends, or is reaped back to the queue. *)
(* available_at is the Boolean due.  want[r] is the key the run's own spec *)
(* resolves to; key[r] is the column, which a deferral leaves empty.  The  *)
(* cancel request of a closed run is dropped: only a reopen reads it, to   *)
(* clear it.                                                               *)
(***************************************************************************)
EXTENDS Integers, FiniteSets

CONSTANTS
    Jobs,
    Values,         \* Values[j]: what its concurrency_key may resolve to, {} for none
    NoKey,          \* concurrency_key IS NULL
    Ceiling,        \* Ceiling[j]: max_concurrent at first
    Ceilings,       \* what an apply may set it to
    Overlap,        \* Overlap[j] of the job's schedule: "skip" or "queue"
    OnConflict,     \* OnConflict[j]: "defer" or "skip"
    Batches,        \* the batch limits a claim may carry
    MaxRuns,        \* bound: runs ever created
    MaxReturns      \* bound: reaps and operator reopens

RunIds == 1..MaxRuns
KeysOf(j) == {<<j, v>> : v \in Values[j]}
AllKeys == UNION {KeysOf(j) : j \in Jobs}

ASSUME JobAssumption ==
    /\ Jobs # {}
    /\ Ceiling \in [Jobs -> Nat \ {0}]
    /\ Ceilings \subseteq Nat \ {0}
    /\ Overlap \in [Jobs -> {"skip", "queue"}]
    /\ OnConflict \in [Jobs -> {"defer", "skip"}]
    /\ NoKey \notin AllKeys
ASSUME ClaimAssumption ==
    Batches \subseteq Nat \ {0} /\ MaxRuns \in Nat \ {0} /\ MaxReturns \in Nat

Active   == {"queued", "running"}
Terminal == {"succeeded", "ended"}   \* "ended": failed or cancelled, open to a reopen
Defers   == {"none", "concurrency", "concurrency_key", "after_crash"}

VARIABLES
    state, job, key, want, due, defer, wanted, cancel, timed, returns,
    ceiling

rowVars == <<state, job, key, want, due, defer, wanted, cancel, timed, returns>>
vars    == <<rowVars, ceiling>>

TypeOK ==
    /\ state \in [RunIds -> Active \cup Terminal \cup {"none"}]
    /\ job \in [RunIds -> Jobs]
    /\ key \in [RunIds -> AllKeys \cup {NoKey}]
    /\ want \in [RunIds -> AllKeys \cup {NoKey}]
    /\ due \in [RunIds -> BOOLEAN]
    /\ defer \in [RunIds -> Defers]
    /\ wanted \in [RunIds -> AllKeys \cup {NoKey}]
    /\ cancel \in [RunIds -> BOOLEAN]
    /\ timed \in [RunIds -> BOOLEAN]
    /\ returns \in 0..MaxReturns
    /\ ceiling \in [Jobs -> Nat \ {0}]

-----------------------------------------------------------------------------
(* Occupancy.                                                              *)

Rows == {r \in RunIds : state[r] # "none"}
Running(j) == {r \in RunIds : state[r] = "running" /\ job[r] = j}

(* activeRunsForJobTx: running, or queued and due.  A deferral still in    *)
(* its backoff holds no slot.                                              *)
ActiveRunsForJob(j) ==
    Running(j) \cup {r \in RunIds : state[r] = "queued" /\ due[r] /\ job[r] = j}

(* ux_runs_conc_key, as every writer meets it.                             *)
Held(k) == k # NoKey /\ \E r \in RunIds : state[r] \in Active /\ key[r] = k

NextId == Cardinality(Rows) + 1
CanCreate == NextId \in RunIds

(* insertSteps and the runs row of one materialisation.                    *)
Insert(j, k, w, isDue, why, kw, isTimed) ==
    /\ state'  = [state EXCEPT ![NextId] = "queued"]
    /\ job'    = [job EXCEPT ![NextId] = j]
    /\ key'    = [key EXCEPT ![NextId] = k]
    /\ want'   = [want EXCEPT ![NextId] = w]
    /\ due'    = [due EXCEPT ![NextId] = isDue]
    /\ defer'  = [defer EXCEPT ![NextId] = why]
    /\ wanted' = [wanted EXCEPT ![NextId] = kw]
    /\ timed'  = [timed EXCEPT ![NextId] = isTimed]
    /\ UNCHANGED <<cancel, returns, ceiling>>

-----------------------------------------------------------------------------
(* Creation.                                                               *)

Init ==
    /\ state = [r \in RunIds |-> "none"]
    /\ job \in [RunIds -> {CHOOSE j \in Jobs : TRUE}]
    /\ key = [r \in RunIds |-> NoKey] /\ want = key /\ wanted = key
    /\ due = [r \in RunIds |-> FALSE] /\ cancel = due /\ timed = due
    /\ defer = [r \in RunIds |-> "none"]
    /\ returns = 0
    /\ ceiling = Ceiling

(* MaterializeManualTrigger.  A held key refuses the whole decision.       *)
TriggerManual(j, k) ==
    /\ CanCreate /\ ~Held(k)
    /\ Insert(j, k, k, TRUE, "none", NoKey, FALSE)

(* The loser of a key: stored keyless, deferred, naming the key it wanted. *)
DeferForKey(j, k, isTimed)   == Insert(j, NoKey, k, FALSE, "concurrency_key", k, isTimed)

(* admitTickRun and materializeTickRun: the ceiling, then the key.         *)
FireSchedule(j, k) ==
    /\ CanCreate
    /\ LET full == Cardinality(ActiveRunsForJob(j)) >= ceiling[j] IN
       /\ full => Overlap[j] = "queue"
       /\ IF Held(k)
          THEN OnConflict[j] = "defer" /\ DeferForKey(j, k, TRUE)
          ELSE Insert(j, k, k, ~full, IF full THEN "concurrency" ELSE "none", NoKey, TRUE)

(* createSensorRunTx: the ceiling is not asked, the key is.                *)
FireSensor(j, k) ==
    /\ CanCreate
    /\ IF Held(k)
       THEN OnConflict[j] = "defer" /\ DeferForKey(j, k, FALSE)
       ELSE Insert(j, k, k, TRUE, "none", NoKey, FALSE)

(* MaterializeReplay copies the source's column, and the insert has no     *)
(* conflict clause: a held key is an error.                                *)
Replay(r) ==
    /\ CanCreate /\ state[r] \in Terminal /\ ~Held(key[r])
    /\ Insert(job[r], key[r], want[r], TRUE, "none", NoKey, FALSE)

-----------------------------------------------------------------------------
(* The claim.                                                              *)

Before(r, q) ==
    \/ ~timed[r] /\ timed[q]
    \/ timed[r] = timed[q] /\ r < q
Claimable(r) == state[r] = "queued" /\ due[r] /\ ~cancel[r]

(* closeCancelledQueuedTx runs first, over every queued run, and a closed  *)
(* run's steps say how it ended.                                           *)
Closed   == {r \in RunIds : state[r] = "queued" /\ cancel[r]}
Closings == [Closed -> Terminal]

(* chooseClaimableTx: per job the first candidates that fit under the      *)
(* ceiling, of those the first `batch` in claim order.  The mutant counts  *)
(* against the ceiling once for the whole pass.                            *)
Candidates(only) ==
    {r \in only : Claimable(r) /\ defer[r] # "concurrency_key"}
Fits(only) ==
    {r \in Candidates(only) :
        Cardinality(Running(job[r]))
          + Cardinality({q \in Candidates(only) : job[q] = job[r] /\ Before(q, r)})
        < ceiling[job[r]]}
Chosen(only, batch) ==
    {r \in Fits(only) : Cardinality({q \in Fits(only) : Before(q, r)}) < batch}

(* keyDeferredCandidatesSQL: the LIMIT is applied before the guard.        *)
KeyDeferred(only) ==
    {r \in only : Claimable(r) /\ defer[r] = "concurrency_key"}
KeyTried(only, budget) ==
    {r \in KeyDeferred(only) :
        Cardinality({q \in KeyDeferred(only) : Before(q, r)}) < budget}

(* keyedStartSQL's guard, with the runs already started in this            *)
(* transaction.  Mutants: a holder that has ended still  *)
(* counts; NOT EXISTS is forgotten; the count is forgotten.                *)
KeyFree(r, started) ==
    ~ \E q \in RunIds :
        \/ state[q] \in Active /\ q \notin Closed /\ key[q] = wanted[r]
        \/ q \in started /\ defer[q] = "concurrency_key" /\ wanted[q] = wanted[r]
RoomFor(r, started) ==
    Cardinality(Running(job[r]) \cup {q \in started : job[q] = job[r]}) < ceiling[job[r]]
KeyedStartPastHolder(r, started) ==
    RoomFor(r, started) /\ ~ \E q \in RunIds \ {r} : key[q] = wanted[r]
KeyedStartUncounted(r, started) == KeyFree(r, started)
KeyedStart(r, started) == KeyFree(r, started) /\ RoomFor(r, started)

(* claimKeyDeferredTx: one guarded start after another, in claim order, so *)
(* each guard sees the runs started before it in this transaction.         *)
StartedInOrder(started, tried, chosen) ==
    started = chosen \cup
        {r \in tried : KeyedStart(r, chosen \cup {q \in started \cap tried : Before(q, r)})}

(* ClaimRuns, one transaction; ClaimRun is the one with a single id.       *)
ClaimRuns(only, batch) ==
    LET chosen == Chosen(only, batch)
        tried  == KeyTried(only, batch - Cardinality(chosen))
    IN \E started \in SUBSET RunIds :
        /\ StartedInOrder(started, tried, chosen)
        /\ started \cup Closed # {}
        /\ \E verdict \in Closings :
              state' = [r \in RunIds |->
                          IF r \in started THEN "running"
                          ELSE IF r \in Closed THEN verdict[r]
                          ELSE state[r]]
        /\ key' = [r \in RunIds |->
                     IF r \in started /\ defer[r] = "concurrency_key"
                     THEN wanted[r] ELSE key[r]]
        /\ defer'  = [r \in RunIds |-> IF r \in started \cup Closed THEN "none" ELSE defer[r]]
        /\ wanted' = [r \in RunIds |-> IF r \in started \cup Closed THEN NoKey ELSE wanted[r]]
        /\ cancel' = [r \in RunIds |-> cancel[r] /\ r \notin Closed]
        /\ UNCHANGED <<job, want, due, timed, returns, ceiling>>

-----------------------------------------------------------------------------
(* The rest of a run's life, as far as admission sees it.                  *)

BecomeDue(r) ==
    /\ state[r] = "queued" /\ ~due[r]
    /\ due' = [due EXCEPT ![r] = TRUE]
    /\ UNCHANGED <<state, job, key, want, defer, wanted, cancel, timed, returns, ceiling>>

(* Of a running run the request is the holder's business (RunLifecycle).   *)
RequestCancel(r) ==
    /\ state[r] = "queued" /\ ~cancel[r]
    /\ cancel' = [cancel EXCEPT ![r] = TRUE]
    /\ UNCHANGED <<state, job, key, want, due, defer, wanted, timed, returns, ceiling>>

Finish(r) ==
    /\ state[r] = "running"
    /\ \E v \in Terminal : state' = [state EXCEPT ![r] = v]
    /\ UNCHANGED <<job, key, want, due, defer, wanted, cancel, timed, returns, ceiling>>

(* reapToQueuedTx keeps the key, so nobody takes it in the meantime.       *)
ReapToQueued(r) ==
    /\ state[r] = "running" /\ returns < MaxReturns
    /\ state'   = [state EXCEPT ![r] = "queued"]
    /\ due'     = [due EXCEPT ![r] = FALSE]
    /\ defer'   = [defer EXCEPT ![r] = "after_crash"]
    /\ returns' = returns + 1
    /\ UNCHANGED <<job, key, want, wanted, cancel, timed, ceiling>>

(* ReopenTerminalRunByOperator clears the deferral and the cancellation;   *)
(* the column keeps whatever key it had, and the index may refuse it.  The *)
(* mutant brings the run back in one statement that skips the index.       *)
ReopenUnchecked(r) ==
    /\ state[r] = "ended" /\ returns < MaxReturns
    /\ state'   = [state EXCEPT ![r] = "queued"]
    /\ due'     = [due EXCEPT ![r] = TRUE]
    /\ defer'   = [defer EXCEPT ![r] = "none"]
    /\ wanted'  = [wanted EXCEPT ![r] = NoKey]
    /\ cancel'  = [cancel EXCEPT ![r] = FALSE]
    /\ returns' = returns + 1
    /\ UNCHANGED <<job, key, want, timed, ceiling>>
Reopen(r) == ~Held(key[r]) /\ ReopenUnchecked(r)

(* writeJobVersion moves jobs.max_concurrent under whatever is running.    *)
SetCeiling(j, n) ==
    /\ ceiling[j] # n
    /\ ceiling' = [ceiling EXCEPT ![j] = n]
    /\ UNCHANGED rowVars

Create ==
    \E j \in Jobs, k \in AllKeys \cup {NoKey} :
        /\ k \in KeysOf(j) \cup {NoKey}
        /\ TriggerManual(j, k) \/ FireSchedule(j, k) \/ FireSensor(j, k)
Claim ==
    \E batch \in Batches, only \in {{r} : r \in RunIds} \cup {RunIds} :
        ClaimRuns(only, batch)
Next ==
    \/ Create
    \/ Claim
    \/ \E r \in RunIds : Replay(r)
    \/ \E r \in RunIds : BecomeDue(r)
    \/ \E r \in RunIds : RequestCancel(r)
    \/ \E r \in RunIds : Finish(r)
    \/ \E r \in RunIds : ReapToQueued(r)
    \/ \E r \in RunIds : Reopen(r)
    \/ \E j \in Jobs, n \in Ceilings : SetCeiling(j, n)

Spec == Init /\ [][Next]_vars

-----------------------------------------------------------------------------
(* Properties.                                                             *)

(* I12 for keys: over any history of claims, deferrals, reaps, reopens and *)
(* replays, at most one queued or running run carries a key.               *)
OneHolderPerKey ==
    \A r, q \in RunIds :
        r # q /\ state[r] \in Active /\ state[q] \in Active /\ key[r] = key[q]
        => key[r] = NoKey

(* I12 for ceilings: no transaction that starts runs leaves a job running  *)
(* more than its ceiling, although several start at once and the two claim *)
(* paths (claimTx, claimKeyDeferredTx) count separately.  An apply may     *)
(* lower the ceiling under runs that already started.                      *)
ClaimStaysUnderCeiling ==
    [][\A j \in Jobs :
          Cardinality({r \in RunIds : state'[r] = "running" /\ job'[r] = j})
            > Cardinality(Running(j))
          => Cardinality({r \in RunIds : state'[r] = "running" /\ job'[r] = j})
               <= ceiling[j]]_vars

(* No queued run waits for ever, whatever its key, its backoff and its     *)
(* job's ceiling: keyless deferrals hold nothing, so nobody waits on a     *)
(* circle (concurrency_key.go:16-20, "two deferred runs can never deadlock").*)
EveryQueuedRunLeaves ==
    \A r \in RunIds : state[r] = "queued" ~> state[r] # "queued"

=============================================================================
