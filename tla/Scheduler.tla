------------------------------ MODULE Scheduler ------------------------------
(***************************************************************************)
(* Schedules and their fire-times: the wake of internal/scheduler, the     *)
(* tick transaction of internal/store, the catch-up policies, the gap walk *)
(* of internal/reconcile after a crash, and the operator's pause, resume   *)
(* and apply.  Several instances share one database, which takes two state *)
(* directories over it: the case the lease codes are written for.          *)
(*                                                                         *)
(* Time is a count of instants.  A wake at instant T comes a little after  *)
(* the fire-time T: it sees that fire-time, and finds it fresh, but a      *)
(* window that opens one millisecond earlier does not contain it unless    *)
(* the wake is "exact".  0 stands for NULL and for the zero time.          *)
(*                                                                         *)
(* A pass carries its last proof of leadership for a renewal interval, so  *)
(* here it may write after another instance took the lease over: nothing   *)
(* below leans on the lease.                                               *)
(***************************************************************************)
EXTENDS Integers, FiniteSets, FiniteSetsExt

CONSTANTS
    Hosts,          \* daemon instances over one database
    Schedules,
    Unreadable,     \* schedules whose expression or zone does not parse
    Recorders,      \* schedules in shadow mode
    Horizon,        \* bound: the last instant
    Fires,          \* Fires[s]: real occurrences
    Dst,            \* Dst[s]: occurrences the DST policy skips
    Catchup,        \* Catchup[s]: "skip", "last" or "all"
    CatchupLimit,   \* the dose of "all"
    Window,         \* catchup_window_ms
    ChunkSize,      \* missedTickBatch
    MaxFailures,    \* bound: tick transactions that fail and passes dropped
    MaxCrashes,     \* bound: crashes
    MaxEdits        \* bound: pauses, resumes, removals and additions

Times == 1..Horizon
Slots(s) == Fires[s] \cup Dst[s]

ASSUME ScheduleAssumption ==
    /\ IsFiniteSet(Schedules)
    /\ Unreadable \subseteq Schedules /\ Recorders \subseteq Schedules
    /\ Horizon \in Nat \ {0}
    /\ Fires \in [Schedules -> SUBSET Times] /\ Dst \in [Schedules -> SUBSET Times]
    /\ \A s \in Schedules : Fires[s] \cap Dst[s] = {}
    /\ Catchup \in [Schedules -> {"skip", "last", "all"}]
ASSUME BoundAssumption ==
    /\ CatchupLimit \in Nat /\ Window \in Nat /\ ChunkSize \in Nat \ {0}
    /\ MaxFailures \in Nat /\ MaxCrashes \in Nat /\ MaxEdits \in Nat

(* What a ticks row may say.  The skip codes the plan chooses may fold; a  *)
(* stand-down of admission ("held") carries a trigger count and does not.  *)
Foldable == {"dst", "catchup_window", "catchup_disabled", "catchup_last_only", "paused"}
Outcomes == Foldable \cup {"held", "triggered", "shadow", "error", "missed"}

Decisions ==
    [sched : Schedules, id : Nat, at : Times,
     outcome : Foldable \cup {"triggered", "error"}, next : Nat, progress : BOOLEAN]

VARIABLES
    now,
    row,        \* schedules: [id, last, next, paused]; id 0 when there is no row
    tick,       \* ticks: tick[s][t], "none" when the fire-time has no row
    runs,       \* runs[s][t]: runs created for the fire-time
    latest,     \* latest[s]: slot and started_at of the newest ticks row
    folded,     \* folded[s]: fire-times a repeat_count absorbed
    origin,     \* origin[s]: the first instant the row promised, 0 once a resume
                \* has thrown the promise of a never-ticked row away
    plan,       \* plan[h]: the decisions of h's pass not yet written
    stage,      \* stage[h]: "down", "boot" (reconciling) or "up"
    gap,        \* gap[h]: GapFrom of the session h found open, 0 for none
    fill,       \* fill[h]: outage being filled, 0 for none, and its slots
    pending,    \* pending[h]: outages backfillOutages has yet to walk
    outages,    \* outages: [from, to, missed] by number
    failures, crashes, edits

schedVars == <<row, tick, runs, latest, folded, origin>>
bootVars  == <<stage, gap, fill, pending, outages>>
bounds    == <<failures, crashes, edits>>
vars      == <<now, schedVars, plan, bootVars, bounds>>

Outage == [from : 0..Horizon, to : Times, missed : Nat]

TypeOK ==
    /\ now \in Times
    /\ row \in [Schedules -> [id : Nat, last : 0..Horizon, next : Nat, paused : BOOLEAN]]
    /\ tick \in [Schedules -> [Times -> Outcomes \cup {"none"}]]
    /\ runs \in [Schedules -> [Times -> Nat]]
    /\ latest \in [Schedules -> [slot : 0..Horizon, at : 0..Horizon]]
    /\ folded \in [Schedules -> SUBSET Times]
    /\ origin \in [Schedules -> 0..Horizon]
    /\ plan \in [Hosts -> SUBSET Decisions]
    /\ stage \in [Hosts -> {"down", "boot", "up"}]
    /\ gap \in [Hosts -> 0..Horizon]
    /\ DOMAIN outages \subseteq Nat /\ \A o \in DOMAIN outages : outages[o] \in Outage
    /\ pending \in [Hosts -> SUBSET Nat]
    /\ fill \in [Hosts -> [outage : Nat, slots : SUBSET (Schedules \X Times)]]
    /\ failures \in 0..MaxFailures /\ crashes \in 0..MaxCrashes /\ edits \in 0..MaxEdits

-----------------------------------------------------------------------------
(* Planning one schedule.                                                  *)

(* nextAfter: the next occurrence, or the hourly sweep when none is left.  *)
NextSlotAfterNext(s, t) ==
    LET later == {x \in Slots(s) : x > t + 1}
    IN  IF later = {} THEN Horizon + 1 ELSE Min(later)
NextSlotAfter(s, t) ==
    LET later == {x \in Slots(s) : x > t}
    IN  IF later = {} THEN Horizon + 1 ELSE Min(later)

(* The window (from, now] discovery recomputes from the persisted cursor.  *)
Discovered(s, exact) ==
    {t \in Slots(s) :
        /\ t <= now
        /\ \/ row[s].last # 0 /\ t > row[s].last
           \/ row[s].last = 0 /\ row[s].next # 0 /\ t >= row[s].next
           \/ row[s].last = 0 /\ row[s].next = 0 /\ exact /\ t = now}

(* applyCatchup over the real occurrences: what to attempt, and the code   *)
(* for what to skip.  A dose leaves its remainder out of both.             *)
InWindow(occs) == {t \in occs : t >= now - Window}

Attempts(s, occs) ==
    LET live == InWindow(occs)
        newest == {t \in live : \A x \in live : x <= t}
    IN  CASE Catchup[s] = "last"  -> newest
          [] Catchup[s] = "all"   ->
                {t \in live : Cardinality({x \in live : x < t}) < CatchupLimit}
          [] OTHER                -> newest \cap {now}

SkipCode(s, t) ==
    IF t < now - Window THEN "catchup_window"
    ELSE IF Catchup[s] = "last" THEN "catchup_last_only" ELSE "catchup_disabled"

Skips(s, occs) ==
    (IF Catchup[s] = "all" THEN occs \ InWindow(occs) ELSE occs) \ Attempts(s, occs)

Decision(s, t, outcome) ==
    [sched |-> s, id |-> row[s].id, at |-> t, outcome |-> outcome,
     next |-> NextSlotAfter(s, t), progress |-> TRUE]

(* configInput: keyed at the instant that made the row due; the cursor     *)
(* stays.                                                                  *)
ConfigDecision(s) ==
    [sched |-> s, id |-> row[s].id, at |-> IF row[s].next = 0 THEN now ELSE row[s].next,
     outcome |-> "error", next |-> Horizon + 1, progress |-> FALSE]

PlanSchedule(s, exact) ==
    IF s \in Unreadable THEN {ConfigDecision(s)}
    ELSE LET occs == Discovered(s, exact)
             real == occs \cap Fires[s]
         IN  {Decision(s, t, "dst") : t \in occs \cap Dst[s]}
               \cup {Decision(s, t, SkipCode(s, t)) : t \in Skips(s, real)}
               \cup {Decision(s, t, "triggered") : t \in Attempts(s, real)}

DueSchedules == {s \in Schedules : row[s].id # 0 /\ ~row[s].paused /\ row[s].next <= now}

(* Source.Tick up to the first write: everything is planned before         *)
(* anything is written.                                                    *)
Wake(h, exact) ==
    /\ stage[h] = "up" /\ plan[h] = {}
    /\ plan' = [plan EXCEPT ![h] = UNION {PlanSchedule(s, exact) : s \in DueSchedules}]
    /\ plan'[h] # {}
    /\ UNCHANGED <<now, schedVars, bootVars, bounds>>

(* leading: another instance holds the lease, or the proof errored.  The   *)
(* rest of the pass is dropped; the winner replans it from the cursor.     *)
StopPass(h) ==
    /\ plan[h] # {} /\ failures < MaxFailures
    /\ plan' = [plan EXCEPT ![h] = {}]
    /\ failures' = failures + 1
    /\ UNCHANGED <<now, schedVars, bootVars, crashes, edits>>

-----------------------------------------------------------------------------
(* MaterializeTick: one transaction per fire-time, oldest first.           *)

Oldest(h) == {d \in plan[h] : \A e \in plan[h] : d.at <= e.at}

(* updateProgressSQL: forward only, and only the row the plan was for.     *)
Progressed(d) ==
    IF d.progress /\ row[d.sched].last < d.at
    THEN [row EXCEPT ![d.sched].last = d.at, ![d.sched].next = d.next]
    ELSE row

(* The pause flag is read again inside the transaction, and shadow         *)
(* replaces a trigger.                                                     *)
VerdictAsPlanned(d) ==
    IF d.outcome = "triggered" /\ d.sched \in Recorders THEN "shadow" ELSE d.outcome
Verdict(d) ==
    IF d.outcome # "triggered" THEN d.outcome
    ELSE IF row[d.sched].paused THEN "paused"
    ELSE IF d.sched \in Recorders THEN "shadow" ELSE d.outcome

(* coalesceSkipSQL: the newest row absorbs an identical childless skip.    *)
Folds(d) ==
    /\ Verdict(d) \in Foldable
    /\ latest[d.sched].slot # 0
    /\ tick[d.sched][latest[d.sched].slot] = Verdict(d)

(* claimTickSQL lands on a free fire-time; replayMissedTickSQL takes over  *)
(* gap evidence, and only an attempt may.                                  *)
Free(d) == tick[d.sched][d.at] = "none"

ClaimsAnySkip(d) ==
    \/ Free(d)
    \/ tick[d.sched][d.at] # "triggered" /\ Verdict(d) \in {"triggered", "shadow"}
Claims(d) ==
    \/ Free(d)
    \/ tick[d.sched][d.at] = "missed" /\ Verdict(d) \in {"triggered", "shadow"}

(* The disk gate or the queue policy of module Admission may hold the run; *)
(* the claimed row then says so and makes none.                            *)
StoodDown(d) == IF Verdict(d) \in {"triggered", "shadow"} THEN {"held"} ELSE {}
Admitted(d)  == {Verdict(d)} \cup StoodDown(d)

Commit(h, d) ==
    /\ row[d.sched].id = d.id
    /\ \/ /\ Folds(d)
          /\ folded' = [folded EXCEPT ![d.sched] = @ \cup {d.at}]
          /\ row' = Progressed(d)
          /\ UNCHANGED <<tick, runs, latest, origin>>
       \/ /\ ~Folds(d) /\ Claims(d)
          /\ \E v \in Admitted(d) :
                /\ tick' = [tick EXCEPT ![d.sched][d.at] = v]
                /\ runs' = IF v = "triggered"
                           THEN [runs EXCEPT ![d.sched][d.at] = @ + 1] ELSE runs
          /\ latest' = [latest EXCEPT ![d.sched] = [slot |-> d.at, at |-> now]]
          /\ row' = Progressed(d)
          /\ UNCHANGED <<folded, origin>>
       \/ /\ ~Folds(d) /\ ~Claims(d)     \* lost: nothing moves
          /\ UNCHANGED schedVars
    /\ plan' = [plan EXCEPT ![h] = @ \ {d}]

(* An errored transaction, or a row that is gone, blocks its schedule for  *)
(* the rest of the pass.                                                   *)
BlockedOnlyThis(h, d) == plan[h] \ {d}
Blocked(h, d) == {e \in plan[h] : e.sched # d.sched}

WriteTick(h) ==
    /\ \E d \in Oldest(h) : Commit(h, d)
    /\ UNCHANGED <<now, bootVars, bounds>>

FailTick(h) ==
    /\ \E d \in Oldest(h) :
        /\ \/ row[d.sched].id # d.id /\ UNCHANGED failures
           \/ failures < MaxFailures /\ failures' = failures + 1
        /\ plan' = [plan EXCEPT ![h] = Blocked(h, d)]
    /\ UNCHANGED <<now, schedVars, bootVars, crashes, edits>>

-----------------------------------------------------------------------------
(* The operator.                                                           *)

PauseSchedule(s) ==
    /\ edits < MaxEdits /\ row[s].id # 0 /\ ~row[s].paused
    /\ row' = [row EXCEPT ![s].paused = TRUE]
    /\ edits' = edits + 1
    /\ UNCHANGED <<now, tick, runs, latest, folded, origin, plan, bootVars, failures, crashes>>

(* The daemon's handler passes the zero time; the CLI computes the next    *)
(* occurrence after the cursor, or after now when there is none.           *)
Resume(s, next) ==
    /\ edits < MaxEdits /\ row[s].id # 0 /\ row[s].paused
    /\ row' = [row EXCEPT ![s].paused = FALSE, ![s].next = next]
    /\ origin' = IF row[s].last # 0 THEN origin
                 ELSE [origin EXCEPT ![s] = IF next > Horizon THEN 0 ELSE next]
    /\ edits' = edits + 1
    /\ UNCHANGED <<now, tick, runs, latest, folded, plan, bootVars, failures, crashes>>

ResumeByDaemon(s) == Resume(s, 0)
ResumeByCli(s)    == Resume(s, NextSlotAfter(s, IF row[s].last # 0 THEN row[s].last ELSE now))

(* An apply that no longer names the schedule, and one that names it       *)
(* again: a fresh row, due at once, over the ticks that stayed.            *)
RemoveSchedule(s) ==
    /\ edits < MaxEdits /\ row[s].id # 0
    /\ row' = [row EXCEPT ![s].id = 0]
    /\ edits' = edits + 1
    /\ UNCHANGED <<now, tick, runs, latest, folded, origin, plan, bootVars, failures, crashes>>

AddSchedule(s) ==
    /\ edits < MaxEdits /\ row[s].id = 0
    /\ edits' = edits + 1
    /\ row' = [row EXCEPT ![s] = [id |-> edits', last |-> 0, next |-> now, paused |-> FALSE]]
    /\ origin' = [origin EXCEPT ![s] = now]
    /\ UNCHANGED <<now, tick, runs, latest, folded, plan, bootVars, failures, crashes>>

-----------------------------------------------------------------------------
(* Crash, and the gap walk of the next start.                              *)

(* The heartbeat of the dead session is older than its death: a fire-time  *)
(* the crash instant had already decided may lie inside the gap.           *)
Crash(h) ==
    /\ crashes < MaxCrashes /\ stage[h] # "down"
    /\ crashes' = crashes + 1
    /\ stage' = [stage EXCEPT ![h] = "down"]
    /\ \E beat \in {now - 1, now} : gap' = [gap EXCEPT ![h] = beat]
    /\ plan' = [plan EXCEPT ![h] = {}]
    /\ fill' = [fill EXCEPT ![h] = [outage |-> 0, slots |-> {}]]
    /\ pending' = [pending EXCEPT ![h] = {}]
    /\ UNCHANGED <<now, schedVars, outages, failures, edits>>

(* An outage that counts no ticks is one whose walk was cut short, or had  *)
(* nothing to find.                                                        *)
OutagesWithoutTicks == {o \in DOMAIN outages : outages[o].missed = 0}

(* StartSession, then the outages backfillOutages goes through.            *)
Start(h) ==
    /\ stage[h] = "down"
    /\ stage' = [stage EXCEPT ![h] = "boot"]
    /\ pending' = [pending EXCEPT ![h] = OutagesWithoutTicks]
    /\ UNCHANGED <<now, schedVars, plan, gap, fill, outages, bounds>>

(* A paused schedule owes no slot.                                         *)
GapSchedules == {s \in Schedules : row[s].id # 0 /\ ~row[s].paused}

(* fillOutage: every slot of every such schedule that can be read.         *)
GapSlots(from, to) ==
    UNION {{<<s, t>> : t \in {x \in Slots(s) : from < x /\ x <= to}} :
              s \in GapSchedules \ Unreadable}

Backfill(h) ==
    /\ stage[h] = "boot" /\ fill[h].outage = 0 /\ pending[h] # {}
    /\ LET o == Min(pending[h])
       IN  /\ fill' = [fill EXCEPT ![h] =
                  [outage |-> o, slots |-> GapSlots(outages[o].from, outages[o].to)]]
           /\ pending' = [pending EXCEPT ![h] = @ \ {o}]
    /\ UNCHANGED <<now, schedVars, plan, stage, gap, outages, bounds>>

NewOutage == Cardinality(DOMAIN outages) + 1
RecordOutage(from, to) ==
    outages' = [x \in DOMAIN outages \cup {NewOutage} |->
                   IF x = NewOutage THEN [from |-> from, to |-> to, missed |-> 0]
                                    ELSE outages[x]]

(* recordGap, when the gap reaches the noise floor.                        *)
RecordGap(h) ==
    /\ stage[h] = "boot" /\ fill[h].outage = 0 /\ pending[h] = {} /\ gap[h] # 0
    /\ gap' = [gap EXCEPT ![h] = 0]
    /\ IF now = gap[h]
       THEN UNCHANGED <<outages, fill>>
       ELSE /\ RecordOutage(gap[h], now)
            /\ fill' = [fill EXCEPT ![h] =
                  [outage |-> NewOutage, slots |-> GapSlots(gap[h], now)]]
    /\ UNCHANGED <<now, schedVars, plan, stage, pending, bounds>>

(* recordMissedTickChunk: INSERT OR IGNORE, one transaction per chunk,     *)
(* started_at set to the slot itself.                                      *)
Earliest(slots) ==
    {x \in slots : Cardinality({y \in slots : y[2] < x[2]}) < ChunkSize}
Ignored(x) == tick[x[1]][x[2]] # "none"

MissedChunk(h) ==
    LET chunk == Earliest(fill[h].slots)
        fresh == {x \in chunk : ~Ignored(x)}
        rest  == fill[h].slots \ chunk
        newest(s) == Max({x[2] : x \in {y \in fresh : y[1] = s}} \cup {0})
    IN  /\ stage[h] = "boot" /\ fill[h].outage # 0
        /\ tick' = [s \in Schedules |-> [t \in Times |->
              IF <<s, t>> \in fresh THEN "missed" ELSE tick[s][t]]]
        /\ latest' = [s \in Schedules |->
              IF newest(s) > latest[s].at THEN [slot |-> newest(s), at |-> newest(s)]
                                          ELSE latest[s]]
        /\ outages' = [outages EXCEPT ![fill[h].outage].missed = @ + Cardinality(fresh)]
        /\ fill' = [fill EXCEPT ![h] =
              [outage |-> IF rest = {} THEN 0 ELSE @.outage, slots |-> rest]]
        /\ UNCHANGED <<now, row, runs, folded, origin, plan, stage, gap, pending, bounds>>

Ready(h) ==
    /\ stage[h] = "boot" /\ fill[h].outage = 0 /\ pending[h] = {} /\ gap[h] = 0
    /\ stage' = [stage EXCEPT ![h] = "up"]
    /\ UNCHANGED <<now, schedVars, plan, gap, fill, pending, outages, bounds>>

Advance ==
    /\ now < Horizon
    /\ now' = now + 1
    /\ UNCHANGED <<schedVars, plan, bootVars, bounds>>

-----------------------------------------------------------------------------
Init ==
    /\ now = 1
    /\ row = [s \in Schedules |-> [id |-> MaxEdits + 1, last |-> 0, next |-> 1, paused |-> FALSE]]
    /\ tick = [s \in Schedules |-> [t \in Times |-> "none"]]
    /\ runs = [s \in Schedules |-> [t \in Times |-> 0]]
    /\ latest = [s \in Schedules |-> [slot |-> 0, at |-> 0]]
    /\ folded = [s \in Schedules |-> {}]
    /\ origin = [s \in Schedules |-> 1]
    /\ plan = [h \in Hosts |-> {}]
    /\ stage = [h \in Hosts |-> "down"]
    /\ gap = [h \in Hosts |-> 0]
    /\ fill = [h \in Hosts |-> [outage |-> 0, slots |-> {}]]
    /\ pending = [h \in Hosts |-> {}]
    /\ outages = [o \in {} |-> 0]
    /\ failures = 0 /\ crashes = 0 /\ edits = 0

Boot(h)  == Start(h) \/ Backfill(h) \/ RecordGap(h) \/ MissedChunk(h) \/ Ready(h)
Daemon(h) == (\E exact \in BOOLEAN : Wake(h, exact)) \/ StopPass(h) \/ WriteTick(h) \/ FailTick(h) \/ Crash(h) \/ Boot(h)
Operator(s) ==
    \/ PauseSchedule(s) \/ ResumeByDaemon(s) \/ ResumeByCli(s)
    \/ RemoveSchedule(s) \/ AddSchedule(s)

Next == Advance \/ (\E h \in Hosts : Daemon(h)) \/ \E s \in Schedules : Operator(s)

Spec == Init /\ [][Next]_vars

-----------------------------------------------------------------------------
Accounted(s, t) == tick[s][t] # "none" \/ t \in folded[s]

(* What a dose of "all" left for a later wake, and a DST skip after it in  *)
(* the same plan carried the cursor over.                                  *)
Overtaken(s, t, cursor) ==
    Catchup[s] = "all" /\ t \in Fires[s] /\ \E x \in Dst[s] : t < x /\ x <= cursor

(* The cursor never passes a fire-time in silence: whatever it has moved   *)
(* over since the row's first promise has a row of its own or was folded   *)
(* into one, through failed transactions, takeovers between instances,     *)
(* crashes, pauses and gap walks.  The one exception is a dose remainder   *)
(* overtaken by a DST skip, which planSchedule (loop.go:340-366) lets      *)
(* happen although policy.go:39-42 counts on the next wake to find it.     *)
NothingPassedInSilence ==
    \A s \in Schedules, t \in Times :
        /\ t \in Slots(s) /\ s \notin Unreadable
        /\ row[s].id # 0 /\ origin[s] # 0 /\ origin[s] <= t /\ t <= row[s].last
        => Accounted(s, t) \/ Overtaken(s, t, row[s].last)

(* Two instances, one of them stale, never drag a cursor back.             *)
CursorNeverGoesBack ==
    [][\A s \in Schedules : row'[s].id = row[s].id => row'[s].last >= row[s].last]_vars

(* A pause that lands between the plan and the write still wins.           *)
NoRunWhilePaused ==
    [][\A s \in Schedules : runs'[s] # runs[s] => ~row[s].paused]_vars

(* The ticks table and the runs created from it keep the promise of module *)
(* TickLedger, whatever the interleaving.                                  *)
Entry(v) ==
    CASE v = "none" -> "open" [] v = "missed" -> "missed"
      [] v = "triggered" -> "run" [] OTHER -> "stood"
Ledger == INSTANCE TickLedger
             WITH entry <- [s \in Schedules |-> [t \in Times |-> Entry(tick[s][t])]]
LedgerHolds == Ledger!Spec
=============================================================================
