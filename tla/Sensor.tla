------------------------------- MODULE Sensor -------------------------------
(***************************************************************************)
(* One sensor: the runtime that finds it due, claims it and runs it        *)
(* (internal/sensor), the two transactions around an evaluation            *)
(* (internal/store/sensor_tick.go), the circuit breaker on its row, and    *)
(* the operator's reset, cursor set, pause, resume, forced tick and apply. *)
(* Without a daemon the forced tick runs in the operator's own process,    *)
(* which takes the state lock the daemon would hold.                       *)
(*                                                                         *)
(* What a sensor watches is a feed of numbered events; the cursor is the   *)
(* last number seen, 0 for NULL, and the run key of an event is its        *)
(* number.  next_eval_at with the min_interval floor is the Boolean due,   *)
(* and the breaker's stamp with its cooldown is "shut", "cooling" or       *)
(* "cooled".  cursor_version is kept as what it tells: whether the row's   *)
(* version still is the one the open tick read (ev.match).                 *)
(***************************************************************************)
EXTENDS Integers, FiniteSets

CONSTANTS
    MaxEvents,      \* bound: events the feed ever carries
    MaxTriggers,    \* max_triggers_per_tick
    Rejects,        \* whether the job's on_conflict is skip
    Threshold,      \* SensorBreakerThreshold
    MaxErrors,      \* bound: evaluations that end in an error or over the limit
    MaxCrashes,     \* bound: crashes of the daemon
    Targets,        \* the cursors an operator moves it to
    MaxMoves        \* bound: resets, cursor sets, pauses, resumes, applies

Events  == 1..MaxEvents
Cursors == 0..MaxEvents
Epochs  == 0..MaxMoves

ASSUME SensorAssumption ==
    /\ MaxEvents \in Nat \ {0} /\ MaxTriggers \in Nat \ {0} /\ Threshold \in Nat \ {0}
    /\ Rejects \in BOOLEAN
    /\ Targets \subseteq Cursors
    /\ MaxErrors \in Nat /\ MaxCrashes \in Nat /\ MaxMoves \in Nat

VARIABLES
    row,        \* sensors: the row, with there = FALSE once an apply dropped it
    keys,       \* run_keys: <<epoch, event>> registered
    runs,       \* runs[<<epoch, event>>]: runs created for it since it was last forgotten
    offered,    \* <<epoch, event>> some committed batch carried
    jumped,     \* <<epoch, event>> an operator moved the cursor over
    arrived,    \* the newest event of the feed
    spec,       \* the row as Due read it, on its way to a claim; or Nothing
    ev,         \* the evaluation in flight, or Nothing
    up,         \* whether a daemon runs
    hung,       \* ticks rows left in 'running' by a daemon that died
    tainted,    \* a tick opened after the row moved on from what Due read
    errors, crashes, moves

feedVars == <<keys, runs, offered, jumped, arrived>>
bounds   == <<errors, crashes, moves>>
vars     == <<row, feedVars, spec, ev, up, hung, tainted, bounds>>

Nothing == [stage |-> "none"]
Verdicts == {"triggered", "skipped", "failed", "exempt"}

TypeOK ==
    /\ row \in [there : BOOLEAN, cursor : Cursors, epoch : Epochs,
                failures : 0..(MaxErrors + MaxMoves), breaker : {"shut", "cooling", "cooled"},
                due : BOOLEAN, paused : BOOLEAN]
    /\ keys \subseteq Epochs \X Events /\ offered \subseteq Epochs \X Events
    /\ jumped \subseteq Epochs \X Events
    /\ runs \in [Epochs \X Events -> Nat]
    /\ arrived \in Cursors
    /\ \/ spec = Nothing
       \/ spec \in [stage : {"read"}, cursor : Cursors, breaker : {"shut", "cooling", "cooled"}]
    /\ \/ ev = Nothing
       \/ ev \in [stage : {"claimed"}, cursor : Cursors]
       \/ ev \in [stage : {"begun"}, cursor : Cursors, match : BOOLEAN]
       \/ ev \in [stage : {"answered"}, cursor : Cursors, match : BOOLEAN,
                  verdict : Verdicts, batch : SUBSET Events, after : Cursors]
    /\ up \in BOOLEAN /\ hung \in BOOLEAN /\ tainted \in BOOLEAN
    /\ errors \in 0..MaxErrors /\ crashes \in 0..MaxCrashes /\ moves \in 0..MaxMoves

Open == ev.stage \in {"begun", "answered"}

-----------------------------------------------------------------------------
(* Runtime.Step: the due query, then per row the breaker, the claim and    *)
(* the permit.  The row is read once, here: its cursor is what the sensor  *)
(* will be asked to continue from.                                         *)
Due ==
    /\ up /\ spec = Nothing
    /\ row.there /\ row.due /\ ~row.paused
    /\ spec' = [stage |-> "read", cursor |-> row.cursor, breaker |-> row.breaker]
    /\ UNCHANGED <<row, feedVars, ev, up, hung, tainted, bounds>>

(* SensorBreakerAdmits over the row as it was read.                        *)
AdmitsOnlyShut == spec.breaker = "shut"
Admits == spec.breaker # "cooling"

Dispatch ==
    /\ spec # Nothing
    /\ spec' = Nothing
    /\ ev' = IF Admits /\ ev = Nothing
             THEN [stage |-> "claimed", cursor |-> spec.cursor] ELSE ev
    /\ UNCHANGED <<row, feedVars, up, hung, tainted, bounds>>

(* BeginSensorTick: the intention row, and the version the commit will     *)
(* compare.  A row that is gone ends the evaluation.                       *)
Begin ==
    /\ ev.stage = "claimed"
    /\ ev' = IF row.there
             THEN [stage |-> "begun", cursor |-> ev.cursor, match |-> TRUE]
             ELSE Nothing
    /\ tainted' = (tainted \/ (row.there /\ ev.cursor # row.cursor))
    /\ UNCHANGED <<row, feedVars, spec, up, hung, bounds>>

(* Evaluate and classify: the sensor's answer.  It is told the limit and   *)
(* may answer over it.  With nothing new it skips, and may report a        *)
(* watermark all the same.  An exempt error is exit 75 or exit 64.         *)
Answered(verdict, batch, after) ==
    ev' = [stage |-> "answered", cursor |-> ev.cursor, match |-> ev.match,
           verdict |-> verdict, batch |-> batch, after |-> after]

Evaluate ==
    /\ ev.stage = "begun"
    /\ \/ /\ ev.cursor < arrived
          /\ LET most == ev.cursor + MaxTriggers
                 last == IF most < arrived THEN most ELSE arrived
             IN  Answered("triggered", (ev.cursor + 1)..last, last)
          /\ UNCHANGED errors
       \/ /\ ev.cursor + MaxTriggers < arrived
          /\ errors < MaxErrors /\ errors' = errors + 1
          /\ Answered("triggered", (ev.cursor + 1)..arrived, arrived)
       \/ /\ ev.cursor >= arrived
          /\ \E w \in {ev.cursor, MaxEvents} : Answered("skipped", {}, w)
          /\ UNCHANGED errors
       \/ /\ errors < MaxErrors /\ errors' = errors + 1
          /\ \E v \in {"failed", "exempt"} : Answered(v, {}, ev.cursor)
    /\ UNCHANGED <<row, feedVars, spec, up, hung, tainted, crashes, moves>>

-----------------------------------------------------------------------------
(* The commit.                                                             *)

(* ApplyLimit: the first MaxTriggers, and a cut batch moves no cursor.     *)
Cut == Cardinality(ev.batch) > MaxTriggers
Kept == IF Cut THEN {e \in ev.batch : e <= ev.cursor + MaxTriggers} ELSE ev.batch

(* cursorAdvanceOf after ApplyLimit.                                       *)
Advance == IF ev.verdict = "triggered" /\ ~Cut THEN ev.after ELSE row.cursor

(* SensorFailuresAfter and SensorBreakerOpenedAt.                          *)
FailuresAfter ==
    CASE ev.verdict = "failed" -> row.failures + 1
      [] ev.verdict = "exempt" -> row.failures
      [] OTHER -> 0
BreakerAfter ==
    IF FailuresAfter < Threshold THEN "shut"
    ELSE IF FailuresAfter > row.failures THEN "cooling" ELSE row.breaker

(* commitSensorTriggerTx for the whole batch: the run key is inserted      *)
(* first, and a key that is new makes a run.  When the concurrency key is  *)
(* held and the policy is skip, the trigger is rejected and the run key it *)
(* registered withdrawn.  The mutant does not ask whether the key is new.  *)
FreshUnasked == {<<row.epoch, e>> : e \in Kept}
Fresh == {x \in {<<row.epoch, e>> : e \in Kept} : x \notin keys}
Registered(rejected) == Fresh \ rejected
Materialise(rejected) ==
    /\ keys' = keys \cup Registered(rejected)
    /\ runs' = [x \in DOMAIN runs |-> runs[x] + IF x \in Registered(rejected) THEN 1 ELSE 0]
    /\ offered' = offered \cup {<<row.epoch, e>> : e \in Kept}

(* CommitSensorTick, one transaction.  A version that moved on writes      *)
(* nothing but the refusal on the tick.                                    *)
Fenced == ~ev.match
CommitSensorTick ==
    \/ Fenced /\ UNCHANGED <<row, keys, runs, offered>>
    \/ /\ ~Fenced
       /\ row' = [row EXCEPT !.cursor = Advance, !.due = FALSE,
                             !.failures = FailuresAfter, !.breaker = BreakerAfter]
       /\ \E rejected \in SUBSET (IF Rejects THEN Fresh ELSE {}) : Materialise(rejected)

(* CommitSensorEvaluation, which the runtime and a forced tick end in.     *)
Commit ==
    /\ ev.stage = "answered"
    /\ CommitSensorTick
    /\ ev' = Nothing
    /\ UNCHANGED <<jumped, arrived, spec, up, hung, tainted, bounds>>

-----------------------------------------------------------------------------
(* The operator.  Every move of the cursor bumps the version, which        *)
(* refuses the tick that is open.                                          *)
NotBumped == ev
Bumped == IF Open THEN [ev EXCEPT !.match = FALSE] ELSE ev

(* Through the daemon, or directly when nobody holds the lock.  A dropped  *)
(* key is forgotten for good: its count starts again with it.              *)
Moved(row2, over, dropped) ==
    /\ up \/ ~Open
    /\ moves < MaxMoves /\ row.there
    /\ moves' = moves + 1
    /\ row' = row2
    /\ jumped' = jumped \cup over
    /\ keys' = keys \ dropped
    /\ runs' = [x \in DOMAIN runs |-> IF x \in dropped THEN 0 ELSE runs[x]]
    /\ UNCHANGED <<offered, arrived, spec, up, hung, tainted, errors, crashes>>

(* ResetSensor: a new dedup epoch from the cursor the operator names.      *)
EpochAfter == row.epoch + 1
ResetSensor(c, forget) ==
    /\ Moved([row EXCEPT !.epoch = EpochAfter, !.cursor = c, !.due = TRUE],
             {<<EpochAfter, e>> : e \in 1..c},
             IF forget THEN keys ELSE {})
    /\ ev' = Bumped

SetSensorCursor(c) ==
    /\ Moved([row EXCEPT !.cursor = c],
             {<<row.epoch, e>> : e \in (row.cursor + 1)..c}, {})
    /\ ev' = Bumped

PauseSensor == ~row.paused /\ Moved([row EXCEPT !.paused = TRUE], {}, {}) /\ UNCHANGED ev
ResumeSensor ==
    Moved([row EXCEPT !.paused = FALSE, !.failures = 0, !.breaker = "shut"], {}, {})
        /\ UNCHANGED ev
SetSensorDue == ~row.due /\ Moved([row EXCEPT !.due = TRUE], {}, {}) /\ UNCHANGED ev

(* "sensors tick" asks the daemon, and when none answers evaluates here:   *)
(* the row is read before the lock is taken, and neither its due instant   *)
(* nor its breaker is asked.                                               *)
RunSensorsTick ==
    \/ up /\ SetSensorDue
    \/ /\ ~up /\ ev = Nothing /\ ~row.paused
       /\ Moved(row, {}, {})
       /\ ev' = [stage |-> "claimed", cursor |-> row.cursor]

(* An empty cursor is refused before anything is written.                  *)
RunSensorsCursorSet(c) == c # 0 /\ SetSensorCursor(c)

(* Without --cursor the reset goes back to NULL.                           *)
RunSensorsReset == \E c \in Targets, forget \in BOOLEAN : ResetSensor(c, forget)

(* syncSensorsTx, in an apply that holds the lock: a sensor that leaves the*)
(* spec loses its row and keeps its run keys; one that comes back starts   *)
(* over.                                                                   *)
RemoveSensor == ~up /\ Moved([row EXCEPT !.there = FALSE], {}, {}) /\ UNCHANGED ev
AddSensor ==
    /\ ~up /\ ~Open
    /\ moves < MaxMoves /\ ~row.there
    /\ moves' = moves + 1
    /\ row' = [there |-> TRUE, cursor |-> 0, epoch |-> 0, failures |-> 0,
               breaker |-> "shut", due |-> TRUE, paused |-> FALSE]
    /\ UNCHANGED <<feedVars, spec, ev, up, hung, tainted, errors, crashes>>

-----------------------------------------------------------------------------
(* Time, the feed, and the daemon's life.                                  *)
BecomeDue ==
    /\ row.there /\ ~row.due
    /\ row' = [row EXCEPT !.due = TRUE]
    /\ UNCHANGED <<feedVars, spec, ev, up, hung, tainted, bounds>>

CoolDown ==
    /\ row.breaker = "cooling"
    /\ row' = [row EXCEPT !.breaker = "cooled"]
    /\ UNCHANGED <<feedVars, spec, ev, up, hung, tainted, bounds>>

Arrive ==
    /\ arrived < MaxEvents
    /\ arrived' = arrived + 1
    /\ UNCHANGED <<row, keys, runs, offered, jumped, spec, ev, up, hung, tainted, bounds>>

Crash ==
    /\ up \/ ev # Nothing
    /\ crashes < MaxCrashes
    /\ crashes' = crashes + 1
    /\ up' = FALSE /\ spec' = Nothing /\ ev' = Nothing
    /\ hung' = (hung \/ Open)
    /\ UNCHANGED <<row, feedVars, tainted, errors, moves>>

(* OnStartup: FailHangingTicks closes every tick older than the session.   *)
(* It waits for the lock, and a tick that has not taken it yet is refused. *)
Start ==
    /\ ~up /\ ~Open
    /\ up' = TRUE /\ hung' = FALSE
    /\ ev' = Nothing
    /\ UNCHANGED <<row, feedVars, spec, tainted, bounds>>

Init ==
    /\ row = [there |-> TRUE, cursor |-> 0, epoch |-> 0, failures |-> 0,
              breaker |-> "shut", due |-> TRUE, paused |-> FALSE]
    /\ keys = {} /\ offered = {} /\ jumped = {}
    /\ runs = [x \in Epochs \X Events |-> 0]
    /\ arrived = 0
    /\ spec = Nothing /\ ev = Nothing
    /\ up = TRUE /\ hung = FALSE /\ tainted = FALSE
    /\ errors = 0 /\ crashes = 0 /\ moves = 0

Operator ==
    \/ RunSensorsReset
    \/ \E c \in Targets : RunSensorsCursorSet(c)
    \/ PauseSensor \/ ResumeSensor \/ RunSensorsTick \/ RemoveSensor \/ AddSensor

Next ==
    \/ Due \/ Dispatch \/ Begin \/ Evaluate \/ Commit
    \/ Operator
    \/ BecomeDue \/ CoolDown \/ Arrive \/ Crash \/ Start

Spec == Init /\ [][Next]_vars

-----------------------------------------------------------------------------
(* The cursor never runs ahead of the work: every event it has passed in   *)
(* the row's epoch was carried by a batch that committed with it, or was   *)
(* stepped over by an operator, through crashes, truncation, skips with a  *)
(* watermark, refused commits and resets, as long as no evaluation was     *)
(* started from a row that had already moved on.                           *)
NothingBehindTheCursor ==
    row.there /\ ~tainted =>
        \A e \in Events : e <= row.cursor => <<row.epoch, e>> \in offered \cup jumped

(* One event makes at most one run in one dedup epoch, however often its   *)
(* key is reported again, until an operator has its keys forgotten.        *)
OneRunPerKey == \A x \in DOMAIN runs : runs[x] <= 1

(* The stamp and the count of the breaker never disagree: a sensor that is *)
(* refused work is one every health surface reports as tripped, and a      *)
(* resumed one is not held for the rest of a cooldown.                     *)
BreakerIsOneStory == row.failures >= Threshold <=> row.breaker # "shut"
=============================================================================
