-------------------------- MODULE SchedulerProofs --------------------------
(* What the scheduler promises of every fire-time, proved for any number of *)
(* instances and schedules, every timetable, catch-up policy, dose and      *)
(* window, and any number of failures, crashes and edits.                   *)
EXTENDS Scheduler, Cron, FiniteSetTheorems, WellFoundedInduction, TLAPS

(* Ids are handed out once: whatever was planned for a row that is gone     *)
(* never meets the id of the row that came back.                            *)
IdsAreFresh ==
    /\ \A s \in Schedules : row[s].id = MaxEdits + 1 \/ row[s].id <= edits
    /\ \A h \in Hosts : \A d \in plan[h] : d.id # 0 /\ (d.id = MaxEdits + 1 \/ d.id <= edits)

PlanIsOld == \A h \in Hosts : \A d \in plan[h] : d.at <= now

(* A row that has never ticked is due from its first promise on.            *)
PromiseIsDue ==
    \A s \in Schedules :
        row[s].id # 0 /\ row[s].last = 0 /\ origin[s] # 0
        => row[s].next # 0 /\ row[s].next <= origin[s]

(* What a decision would carry the cursor over is behind the cursor, or     *)
(* accounted for, or left by a dose before a DST skip, or still ahead of    *)
(* the decision in the same plan.                                           *)
Ahead(p, d, t) == \E e \in p : e.sched = d.sched /\ e.id = d.id /\ e.at = t
CoversUpTo(p, d) ==
    \A t \in Slots(d.sched) :
        origin[d.sched] <= t /\ t < d.at =>
            \/ t <= row[d.sched].last \/ Accounted(d.sched, t)
            \/ Overtaken(d.sched, t, d.at)
            \/ Ahead(p, d, t)
PlanCovers ==
    \A h \in Hosts : \A d \in plan[h] :
        d.id = row[d.sched].id /\ d.sched \notin Unreadable /\ origin[d.sched] # 0
        => CoversUpTo(plan[h], d)

OutagesAreCounted == IsFiniteSet(DOMAIN outages)

Inv ==
    /\ TypeOK /\ OutagesAreCounted
    /\ IdsAreFresh /\ PlanIsOld /\ PromiseIsDue
    /\ PlanCovers /\ NothingPassedInSilence

-----------------------------------------------------------------------------
(* Sets of instants.                                                       *)

(* Min and Max find an element of the set they are given, the least and   *)
(* the greatest.                                                           *)
LEMMA MinIsIn ==
    ASSUME NEW T \in SUBSET Nat, T # {}
    PROVE  Min(T) \in T /\ \A x \in T : Min(T) <= x
<1>1. PICK m \in T : \A x \in T : ~(<<x, m>> \in OpToRel(<, Nat))
  BY NatLessThanWellFounded, WFMin
<1>2. \A x \in T : ~(x < m)
  BY <1>1 DEF OpToRel
<1>3. \A x \in T : m <= x
  BY <1>2
<1>4. QED  BY <1>3 DEF Min

(* The largest of a non-empty set of instants is one of them.              *)
LEMMA MaxIsIn ==
    ASSUME NEW n \in Nat, NEW T \in SUBSET (0..n), T # {}
    PROVE  Max(T) \in T /\ \A x \in T : x <= Max(T)
<1> DEFINE Below == {n - x : x \in T}
<1>1. Below \in SUBSET Nat /\ Below # {}
  <2>1. \A x \in T : n - x \in Nat
    OBVIOUS
  <2>2. QED  BY <2>1
<1>2. PICK b \in Below : \A y \in Below : ~(<<y, b>> \in OpToRel(<, Nat))
  BY <1>1, NatLessThanWellFounded, WFMin
<1>3. PICK m \in T : b = n - m
  BY <1>2
<1>4. \A x \in T : x <= m
  <2> SUFFICES ASSUME NEW x \in T PROVE x <= m
    OBVIOUS
  <2>1. n - x \in Below /\ n - x \in Nat /\ b \in Nat
    BY <1>1
  <2>2. ~(n - x < b)
    BY <1>2, <2>1 DEF OpToRel
  <2>3. QED  BY <1>3, <2>2
<1>5. QED  BY <1>4 DEF Max

(* The next occurrence after an instant is later.                          *)
LEMMA NextIsLater ==
    ASSUME NEW s \in Schedules, NEW t \in 0..Horizon
    PROVE  NextSlotAfter(s, t) \in Nat /\ NextSlotAfter(s, t) > t
<1> DEFINE later == {x \in Slots(s) : x > t}
<1>1. later \in SUBSET Times
  BY ScheduleAssumption DEF Slots
<1>2. CASE later = {}
  BY <1>2, ScheduleAssumption DEF NextSlotAfter
<1>3. CASE later # {}
  <2>1. Min(later) \in later
    BY <1>1, <1>3, MinIsIn DEF Times
  <2> HIDE DEF later
  <2>2. NextSlotAfter(s, t) = Min(later)
    BY <1>3 DEF NextSlotAfter, later
  <2>3. QED  BY <1>1, <2>1, <2>2 DEF later, Times
<1>4. QED  BY <1>2, <1>3

(* Sets of instants, and of fire-times, can be counted.                    *)
LEMMA InstantsAreFinite ==
    /\ \A T \in SUBSET Times : IsFiniteSet(T) /\ Cardinality(T) \in Nat
    /\ \A T \in SUBSET (Schedules \X Times) : IsFiniteSet(T) /\ Cardinality(T) \in Nat
<1>1. IsFiniteSet(Times)
  BY FS_Interval, ScheduleAssumption DEF Times
<1>2. IsFiniteSet(Schedules \X Times)
  BY <1>1, FS_Product, ScheduleAssumption
<1>3. QED  BY <1>1, <1>2, FS_Subset, FS_CardinalityType

-----------------------------------------------------------------------------
(* The plan of one schedule.                                               *)

(* What catch-up attempts and skips is among what discovery found; of the  *)
(* policies only "all" leaves something out, and only after everything it  *)
(* attempts.                                                               *)
LEMMA CatchupCovers ==
    ASSUME TypeOK, NEW s \in Schedules, NEW occs \in SUBSET Times,
           NEW t \in occs, t \notin Attempts(s, occs), t \notin Skips(s, occs)
    PROVE  /\ Catchup[s] = "all"
           /\ \A u \in Attempts(s, occs) \cup Skips(s, occs) : u < t
<1> DEFINE live == InWindow(occs)
           Before(x) == {y \in live : y < x}
<1>1. Catchup[s] = "all" /\ t \in live
  BY DEF Skips
<1>2. /\ Attempts(s, occs) = {x \in live : Cardinality(Before(x)) < CatchupLimit}
      /\ Skips(s, occs) = (occs \ live) \ Attempts(s, occs)
  BY <1>1 DEF Attempts, Skips
<1>3. \A x, y \in live : x <= y => Cardinality(Before(x)) <= Cardinality(Before(y))
  <2> SUFFICES ASSUME NEW x \in live, NEW y \in live, x <= y
               PROVE  Cardinality(Before(x)) <= Cardinality(Before(y))
    OBVIOUS
  <2>1. live \in SUBSET Times
    BY DEF InWindow
  <2> HIDE DEF live
  <2>2. Before(y) \in SUBSET Times
    BY <2>1
  <2>3. Before(x) \subseteq Before(y)
    <3>1. \A z \in live : z < x => z < y
      BY <2>1 DEF Times
    <3>2. QED  BY <3>1
  <2> HIDE DEF Before
  <2>4. QED  BY <2>2, <2>3, InstantsAreFinite, FS_Subset
<1>4. ASSUME NEW u \in Attempts(s, occs)
      PROVE  u < t
  <2>1. u \in live /\ Cardinality(Before(u)) < CatchupLimit /\ ~(Cardinality(Before(t)) < CatchupLimit)
    BY <1>1, <1>2
  <2>2. Before(u) \in SUBSET Times /\ Before(t) \in SUBSET Times /\ u \in Times /\ t \in Times
    BY <2>1 DEF InWindow
  <2>3. Cardinality(Before(u)) \in Nat /\ Cardinality(Before(t)) \in Nat
    BY <2>2, InstantsAreFinite
  <2>4. t <= u => Cardinality(Before(t)) <= Cardinality(Before(u))
    BY <1>1, <1>3, <2>1
  <2> HIDE DEF Before
  <2>5. QED  BY <2>1, <2>2, <2>3, <2>4, BoundAssumption DEF Times
<1>5. ASSUME NEW u \in occs \ live
      PROVE  u < t
  BY <1>1, <1>5, BoundAssumption DEF InWindow, Times, TypeOK
<1>6. QED  BY <1>1, <1>2, <1>4, <1>5

(* A due schedule is planned for its own row, up to now, and whatever a    *)
(* decision would carry the cursor over is decided before it.              *)
LEMMA PlanOfSchedule ==
    ASSUME TypeOK, PromiseIsDue, NEW s \in DueSchedules, NEW exact \in BOOLEAN,
           NEW d \in PlanSchedule(s, exact)
    PROVE  /\ d \in Decisions
           /\ d.sched = s /\ d.id = row[s].id /\ d.at <= now
           /\ s \notin Unreadable /\ origin[s] # 0 => CoversUpTo(PlanSchedule(s, exact), d)
<1>0. /\ s \in Schedules /\ row[s].id # 0 /\ row[s].next <= now
      /\ row[s].id \in Nat /\ row[s].next \in Nat /\ row[s].last \in 0..Horizon /\ now \in Times
      /\ Slots(s) \in SUBSET Times /\ Horizon + 1 \in Nat /\ Times \subseteq 0..Horizon
  BY ScheduleAssumption DEF DueSchedules, TypeOK, Slots, Times
<1>1. CASE s \in Unreadable
  <2>1. d = ConfigDecision(s)
    BY <1>1 DEF PlanSchedule
  <2>2. (IF row[s].next = 0 THEN now ELSE row[s].next) \in {x \in Times : x <= now}
    <3>1. CASE row[s].next = 0
      BY <1>0, <3>1 DEF Times
    <3>2. CASE row[s].next # 0
      BY <1>0, <3>2, ScheduleAssumption DEF Times
    <3>3. QED  BY <3>1, <3>2
  <2>3. QED  BY <1>0, <1>1, <2>1, <2>2 DEF ConfigDecision, Decisions
<1>2. CASE s \notin Unreadable
  <2> DEFINE occs == Discovered(s, exact)
             real == occs \cap Fires[s]
  <2>1. /\ occs \in SUBSET Times /\ occs \subseteq Slots(s)
        /\ \A t \in occs : t <= now
    BY <1>0 DEF Discovered
  <2>2. real \in SUBSET Times /\ Attempts(s, real) \subseteq real /\ Skips(s, real) \subseteq real
    BY <1>0, <2>1, ScheduleAssumption DEF Attempts, Skips, InWindow
  <2>3. PlanSchedule(s, exact) =
            {Decision(s, t, "dst") : t \in occs \cap Dst[s]}
               \cup {Decision(s, t, SkipCode(s, t)) : t \in Skips(s, real)}
               \cup {Decision(s, t, "triggered") : t \in Attempts(s, real)}
    BY <1>2 DEF PlanSchedule
  <2> HIDE DEF real, occs
  <2>4. PICK u \in occs, outcome \in Foldable \cup {"triggered"} :
            /\ d = Decision(s, u, outcome)
            /\ u \in Attempts(s, real) \cup Skips(s, real) \cup (occs \cap Dst[s])
    <3>1. real \subseteq occs
      BY DEF real
    <3>2. \A t : SkipCode(s, t) \in Foldable
      BY DEF SkipCode, Foldable
    <3>3. "dst" \in Foldable
      BY DEF Foldable
    <3>4. CASE d \in {Decision(s, t, "dst") : t \in occs \cap Dst[s]}
      BY <3>3, <3>4
    <3>5. CASE d \in {Decision(s, t, SkipCode(s, t)) : t \in Skips(s, real)}
      BY <2>2, <3>1, <3>2, <3>5
    <3>6. CASE d \in {Decision(s, t, "triggered") : t \in Attempts(s, real)}
      BY <2>2, <3>1, <3>6
    <3>7. QED  BY <2>3, <3>4, <3>5, <3>6
  <2>5. /\ d.sched = s /\ d.id = row[s].id /\ d.at = u
        /\ \A t, o : LET e == Decision(s, t, o) IN e.sched = s /\ e.id = row[s].id /\ e.at = t
    BY <2>4 DEF Decision
  <2>6. d \in Decisions
    <3>1. NextSlotAfter(s, u) \in Nat
      BY <1>0, <2>1, <2>4, NextIsLater
    <3>2. u \in Times
      BY <2>1, <2>4
    <3>3. QED  BY <1>0, <2>4, <3>1, <3>2 DEF Decision, Decisions
  <2>7. ASSUME origin[s] # 0, NEW t \in Slots(s), origin[s] <= t, t < u, ~(t <= row[s].last)
        PROVE  Overtaken(s, t, u) \/ Ahead(PlanSchedule(s, exact), d, t)
    <3>1. t \in occs
      <4>1. t \in Nat /\ u \in Nat /\ now \in Nat /\ u <= now /\ origin[s] \in Nat
        BY <1>0, <2>1, <2>4 DEF Times, TypeOK
      <4>2. t <= now
        BY <2>7, <4>1
      <4>3. CASE row[s].last # 0
        BY <1>0, <2>7, <4>1, <4>2, <4>3 DEF occs, Discovered
      <4>4. CASE row[s].last = 0
        <5>1. row[s].next # 0 /\ row[s].next <= origin[s]
          BY <1>0, <2>7, <4>4 DEF PromiseIsDue
        <5>2. t >= row[s].next
          BY <1>0, <2>7, <4>1, <5>1
        <5>3. QED  BY <2>7, <4>2, <4>4, <5>1, <5>2 DEF occs, Discovered
      <4>5. QED  BY <4>3, <4>4
    <3>2. CASE t \in Dst[s]
      BY <2>3, <2>5, <3>1, <3>2 DEF Ahead
    <3>3. CASE t \in Skips(s, real)
      BY <2>3, <2>5, <3>3 DEF Ahead
    <3>4. CASE t \in Attempts(s, real)
      BY <2>3, <2>5, <3>4 DEF Ahead
    <3>5. CASE t \in Fires[s] /\ t \notin Skips(s, real) /\ t \notin Attempts(s, real)
      <4>1. t \in real
        BY <3>1, <3>5 DEF real
      <4>2. /\ Catchup[s] = "all"
            /\ \A x \in Attempts(s, real) \cup Skips(s, real) : x < t
        BY <1>0, <2>2, <3>5, <4>1, CatchupCovers
      <4>3. t \in Times /\ u \in Times
        BY <2>1, <2>4, <3>1
      <4>4. u \notin Attempts(s, real) \cup Skips(s, real)
        BY <2>7, <4>2, <4>3 DEF Times
      <4>5. QED  BY <2>4, <2>7, <3>5, <4>2, <4>3, <4>4 DEF Overtaken, Times
    <3>6. QED  BY <2>7, <3>2, <3>3, <3>4, <3>5 DEF Slots
  <2>8. origin[s] # 0 => CoversUpTo(PlanSchedule(s, exact), d)
    BY <2>5, <2>7 DEF CoversUpTo
  <2>9. QED  BY <2>1, <2>4, <2>5, <2>6, <2>8
<1>3. QED  BY <1>1, <1>2

-----------------------------------------------------------------------------
(* Type correctness.                                                       *)

(* A record of a row with another cursor or flag is still one.             *)
RowType == [id : Nat, last : 0..Horizon, next : Nat, paused : BOOLEAN]

(* What an edit of a schedule's row may leave is a row.                    *)
LEMMA RowEdits ==
    ASSUME TypeOK, NEW s \in Schedules
    PROVE  /\ row[s] \in RowType
           /\ \A p \in BOOLEAN, n \in Nat : [row[s] EXCEPT !.paused = p, !.next = n] \in RowType
           /\ \A p \in BOOLEAN : [row[s] EXCEPT !.paused = p] \in RowType
           /\ [row[s] EXCEPT !.id = 0] \in RowType
           /\ \A l \in 0..Horizon, n \in Nat : [row[s] EXCEPT !.last = l, !.next = n] \in RowType
<1> DEFINE Cursors == 0..Horizon
<1>1. row[s] \in [id : Nat, last : Cursors, next : Nat, paused : BOOLEAN]
  BY DEF TypeOK
<1> HIDE DEF Cursors
<1>2. QED  BY <1>1 DEF RowType, Cursors

(* The cursor a decision leaves.                                           *)
LEMMA ProgressedType ==
    ASSUME TypeOK, NEW d \in Decisions
    PROVE  Progressed(d) \in [Schedules -> RowType]
<1>1. d.sched \in Schedules /\ d.at \in 0..Horizon /\ d.next \in Nat
  BY ScheduleAssumption DEF Decisions, Times
<1>2. row \in [Schedules -> RowType]
  BY DEF TypeOK, RowType
<1>3. [row[d.sched] EXCEPT !.last = d.at, !.next = d.next] \in RowType
  BY <1>1, RowEdits
<1>4. CASE d.progress /\ row[d.sched].last < d.at
  <2>1. Progressed(d) = [row EXCEPT ![d.sched] = [row[d.sched] EXCEPT !.last = d.at, !.next = d.next]]
    BY <1>1, <1>2, <1>4 DEF Progressed
  <2>2. QED  BY <1>1, <1>2, <1>3, <2>1
<1>5. CASE ~(d.progress /\ row[d.sched].last < d.at)
  BY <1>2, <1>5 DEF Progressed
<1>6. QED  BY <1>4, <1>5

(* One transaction of a pass.                                              *)
LEMMA CommitType ==
    ASSUME TypeOK, NEW h \in Hosts, NEW d \in plan[h], Commit(h, d), UNCHANGED <<now, bootVars, bounds>>
    PROVE  TypeOK'
<1>1. /\ d \in Decisions /\ d.sched \in Schedules /\ d.at \in Times /\ now \in 0..Horizon
      /\ d.at \in 0..Horizon
      /\ Admitted(d) \subseteq Outcomes
  <2>1. d \in Decisions /\ now \in 0..Horizon
    BY ScheduleAssumption DEF TypeOK, Times
  <2>2. d.sched \in Schedules /\ d.at \in Times /\ d.at \in 0..Horizon /\ d.outcome \in Foldable \cup {"triggered", "error"}
    BY <2>1, ScheduleAssumption DEF Decisions, Times
  <2>3. Admitted(d) \subseteq Outcomes
    BY <2>2 DEF Admitted, StoodDown, Verdict, Outcomes, Foldable
  <2>4. QED  BY <2>1, <2>2, <2>3
<1>2. row' \in [Schedules -> RowType] /\ row' \in {row, Progressed(d)}
  BY <1>1, ProgressedType DEF Commit, TypeOK, RowType, schedVars
<1>3. plan' \in [Hosts -> SUBSET Decisions]
  BY DEF Commit, TypeOK
<1>4. /\ tick' \in [Schedules -> [Times -> Outcomes \cup {"none"}]]
      /\ runs' \in [Schedules -> [Times -> Nat]]
      /\ latest' \in [Schedules -> [slot : 0..Horizon, at : 0..Horizon]]
      /\ folded' \in [Schedules -> SUBSET Times]
      /\ origin' = origin
  <2>1. CASE UNCHANGED schedVars
    BY <2>1 DEF TypeOK, schedVars
  <2>2. CASE folded' = [folded EXCEPT ![d.sched] = @ \cup {d.at}] /\ UNCHANGED <<tick, runs, latest, origin>>
    BY <1>1, <2>2 DEF TypeOK
  <2>3. ASSUME NEW v \in Admitted(d),
               /\ tick' = [tick EXCEPT ![d.sched][d.at] = v]
               /\ runs' = IF v = "triggered" THEN [runs EXCEPT ![d.sched][d.at] = @ + 1] ELSE runs
               /\ latest' = [latest EXCEPT ![d.sched] = [slot |-> d.at, at |-> now]]
               /\ UNCHANGED <<folded, origin>>
        PROVE  /\ tick' \in [Schedules -> [Times -> Outcomes \cup {"none"}]]
               /\ runs' \in [Schedules -> [Times -> Nat]]
               /\ latest' \in [Schedules -> [slot : 0..Horizon, at : 0..Horizon]]
               /\ folded' \in [Schedules -> SUBSET Times]
               /\ origin' = origin
    <3>1. tick' \in [Schedules -> [Times -> Outcomes \cup {"none"}]]
      BY <1>1, <2>3 DEF TypeOK
    <3>2. runs' \in [Schedules -> [Times -> Nat]]
      BY <1>1, <2>3 DEF TypeOK
    <3>3. latest' \in [Schedules -> [slot : 0..Horizon, at : 0..Horizon]]
      BY <1>1, <2>3 DEF TypeOK
    <3>4. QED  BY <2>3, <3>1, <3>2, <3>3 DEF TypeOK
  <2>4. QED  BY <2>1, <2>2, <2>3 DEF Commit
<1>5. QED  BY <1>2, <1>3, <1>4 DEF TypeOK, RowType, bootVars, bounds

(* The passes of an instance.                                              *)
LEMMA PassType ==
    ASSUME Inv, NEW h \in Hosts,
           (\E exact \in BOOLEAN : Wake(h, exact)) \/ StopPass(h) \/ WriteTick(h) \/ FailTick(h)
    PROVE  TypeOK'
<1> USE DEF Inv
<1>1. ASSUME NEW exact \in BOOLEAN, Wake(h, exact)
      PROVE  TypeOK'
  <2>1. UNION {PlanSchedule(s, exact) : s \in DueSchedules} \subseteq Decisions
    BY PlanOfSchedule
  <2>2. /\ plan' = [plan EXCEPT ![h] = UNION {PlanSchedule(s, exact) : s \in DueSchedules}]
        /\ UNCHANGED <<now, schedVars, bootVars, bounds>>
    BY <1>1 DEF Wake
  <2>3. plan' \in [Hosts -> SUBSET Decisions]
    BY <2>1, <2>2 DEF TypeOK
  <2>4. QED  BY <2>2, <2>3 DEF TypeOK, schedVars, bootVars, bounds
<1>2. CASE StopPass(h)
  <2>1. failures' \in 0..MaxFailures
    BY <1>2, BoundAssumption DEF StopPass, TypeOK
  <2>2. QED  BY <1>2, <2>1 DEF StopPass, TypeOK, schedVars, bootVars
<1>3. CASE WriteTick(h)
  BY <1>3, CommitType DEF WriteTick, Oldest
<1>4. CASE FailTick(h)
  <2>1. failures' \in 0..MaxFailures
    BY <1>4, BoundAssumption DEF FailTick, TypeOK
  <2>2. plan' \in [Hosts -> SUBSET Decisions]
    BY <1>4 DEF FailTick, Blocked, TypeOK
  <2>3. QED  BY <1>4, <2>1, <2>2 DEF FailTick, TypeOK, schedVars, bootVars
<1>5. QED  BY <1>1, <1>2, <1>3, <1>4

(* What the CLI hands a resume is an instant or the hourly sweep.          *)
LEMMA ResumeInstant ==
    ASSUME TypeOK, NEW s \in Schedules
    PROVE  NextSlotAfter(s, IF row[s].last # 0 THEN row[s].last ELSE now) \in Nat
<1>1. row[s].last \in 0..Horizon /\ now \in 0..Horizon
  BY ScheduleAssumption DEF TypeOK, Times
<1>2. QED  BY <1>1, NextIsLater

(* The operator's edits.                                                   *)
LEMMA OperatorType ==
    ASSUME TypeOK, NEW s \in Schedules, Operator(s)
    PROVE  TypeOK'
<1>1. row \in [Schedules -> RowType] /\ now \in 0..Horizon /\ now \in Nat
  BY ScheduleAssumption DEF TypeOK, RowType, Times
<1>2. edits < MaxEdits /\ edits' = edits + 1 => edits' \in 0..MaxEdits /\ edits' \in Nat
  BY BoundAssumption DEF TypeOK
<1>3. CASE PauseSchedule(s)
  <2>1. row' = [row EXCEPT ![s] = [row[s] EXCEPT !.paused = TRUE]]
    BY <1>1, <1>3 DEF PauseSchedule
  <2>2. row' \in [Schedules -> RowType]
    BY <1>1, <2>1, RowEdits
  <2>3. QED  BY <1>2, <1>3, <2>2 DEF PauseSchedule, TypeOK, RowType, bootVars
<1>4. ASSUME NEW n \in Nat, Resume(s, n)
      PROVE  TypeOK'
  <2>1. row' = [row EXCEPT ![s] = [row[s] EXCEPT !.paused = FALSE, !.next = n]]
    BY <1>1, <1>4 DEF Resume
  <2>2. row' \in [Schedules -> RowType]
    BY <1>1, <2>1, RowEdits
  <2>3. origin' \in [Schedules -> 0..Horizon]
    <3>1. (IF n > Horizon THEN 0 ELSE n) \in 0..Horizon
      BY ScheduleAssumption
    <3>2. QED  BY <1>4, <3>1 DEF Resume, TypeOK
  <2>4. QED  BY <1>2, <1>4, <2>2, <2>3 DEF Resume, TypeOK, RowType, bootVars
<1>5. CASE RemoveSchedule(s)
  <2>1. row' = [row EXCEPT ![s] = [row[s] EXCEPT !.id = 0]]
    BY <1>1, <1>5 DEF RemoveSchedule
  <2>2. row' \in [Schedules -> RowType]
    BY <1>1, <2>1, RowEdits
  <2>3. QED  BY <1>2, <1>5, <2>2 DEF RemoveSchedule, TypeOK, RowType, bootVars
<1>6. CASE AddSchedule(s)
  <2>1. edits' \in Nat /\ edits' \in 0..MaxEdits
    BY <1>2, <1>6 DEF AddSchedule
  <2>2. [id |-> edits', last |-> 0, next |-> now, paused |-> FALSE] \in RowType
    BY <1>1, <2>1, ScheduleAssumption DEF RowType
  <2>3. row' \in [Schedules -> RowType]
    BY <1>1, <1>6, <2>2 DEF AddSchedule
  <2>4. origin' \in [Schedules -> 0..Horizon]
    BY <1>1, <1>6 DEF AddSchedule, TypeOK
  <2>5. QED  BY <1>6, <2>1, <2>3, <2>4 DEF AddSchedule, TypeOK, RowType, bootVars
<1>7. QED  BY <1>3, <1>4, <1>5, <1>6, ResumeInstant DEF Operator, ResumeByDaemon, ResumeByCli

(* A crash, and the way back up.                                           *)
LEMMA GapSlotsType ==
    ASSUME NEW from, NEW to
    PROVE  GapSlots(from, to) \subseteq Schedules \X Times
<1>1. \A s \in Schedules : Slots(s) \subseteq Times
  BY ScheduleAssumption DEF Slots
<1>2. QED  BY <1>1 DEF GapSlots, GapSchedules

(* A chunk of missed ticks writes ticks and cursors that are in their      *)
(* domains.                                                                *)
LEMMA ChunkType ==
    ASSUME TypeOK, NEW h \in Hosts, MissedChunk(h)
    PROVE  TypeOK' /\ DOMAIN outages' = DOMAIN outages
<1> DEFINE chunk == Earliest(fill[h].slots)
           fresh == {x \in chunk : ~Ignored(x)}
           rest == fill[h].slots \ chunk
           mine(s) == {x[2] : x \in {y \in fresh : y[1] = s}} \cup {0}
           newest(s) == Max(mine(s))
           Cursors == 0..Horizon
<1>1. fill[h].outage \in Nat /\ fill[h].slots \in SUBSET (Schedules \X Times)
  BY DEF TypeOK
<1>2. fresh \in SUBSET (Schedules \X Times) /\ rest \in SUBSET (Schedules \X Times)
  BY <1>1 DEF Earliest
<1>3. Cardinality(fresh) \in Nat
  BY <1>2, InstantsAreFinite
<1>4. \A s \in Schedules : newest(s) \in Cursors
  <2> SUFFICES ASSUME NEW s \in Schedules PROVE newest(s) \in 0..Horizon
    OBVIOUS
  <2>1. mine(s) \in SUBSET (0..Horizon) /\ mine(s) # {}
    <3>1. \A x \in fresh : x[2] \in 0..Horizon
      BY <1>2, ScheduleAssumption DEF Times
    <3>2. 0 \in 0..Horizon
      BY ScheduleAssumption
    <3> HIDE DEF fresh
    <3>3. QED  BY <3>1, <3>2
  <2> HIDE DEF mine
  <2>2. Horizon \in Nat
    BY ScheduleAssumption
  <2>3. QED  BY <2>1, <2>2, MaxIsIn
<1>5. /\ tick' = [s \in Schedules |-> [t \in Times |->
              IF <<s, t>> \in fresh THEN "missed" ELSE tick[s][t]]]
      /\ latest' = [s \in Schedules |->
              IF newest(s) > latest[s].at THEN [slot |-> newest(s), at |-> newest(s)]
                                          ELSE latest[s]]
      /\ outages' = [outages EXCEPT ![fill[h].outage].missed = @ + Cardinality(fresh)]
      /\ fill' = [fill EXCEPT ![h] =
              [outage |-> IF rest = {} THEN 0 ELSE @.outage, slots |-> rest]]
      /\ UNCHANGED <<now, row, runs, folded, origin, plan, stage, gap, pending, bounds>>
  BY DEF MissedChunk
<1> HIDE DEF fresh, rest, newest, Cursors
<1>6. tick' \in [Schedules -> [Times -> Outcomes \cup {"none"}]]
  BY <1>5 DEF TypeOK, Outcomes
<1>7. latest' \in [Schedules -> [slot : Cursors, at : Cursors]]
  <2>1. latest \in [Schedules -> [slot : Cursors, at : Cursors]]
    BY DEF TypeOK, Cursors
  <2>2. QED  BY <1>4, <1>5, <2>1
<1>8. /\ DOMAIN outages' = DOMAIN outages
      /\ \A o \in DOMAIN outages' : outages'[o] \in Outage
  <2>1. DOMAIN outages' = DOMAIN outages
    BY <1>5
  <2>2. \A o \in DOMAIN outages : outages'[o] \in {outages[o], [outages[o] EXCEPT !.missed = @ + Cardinality(fresh)]}
    BY <1>5
  <2>3. ASSUME NEW r \in Outage
        PROVE  [r EXCEPT !.missed = @ + Cardinality(fresh)] \in Outage
    <3>1. r \in [from : Cursors, to : Times, missed : Nat]
      BY DEF Outage, Cursors
    <3>2. r.missed + Cardinality(fresh) \in Nat
      BY <1>3, <3>1
    <3> HIDE DEF Times
    <3>3. QED  BY <3>1, <3>2 DEF Outage, Cursors
  <2>4. QED  BY <2>1, <2>2, <2>3 DEF TypeOK
<1>9. fill' \in [Hosts -> [outage : Nat, slots : SUBSET (Schedules \X Times)]]
  BY <1>1, <1>2, <1>5 DEF TypeOK
<1>10. QED
  <2> HIDE DEF Times
  <2>1. QED  BY <1>5, <1>6, <1>7, <1>8, <1>9 DEF TypeOK, bounds, Cursors

(* Crash and the other steps of a start.  A new outage takes a number of   *)
(* its own.                                                                *)
LEMMA BootType ==
    ASSUME TypeOK, OutagesAreCounted, NEW h \in Hosts, Boot(h) \/ Crash(h)
    PROVE  TypeOK' /\ OutagesAreCounted'
<1>1. CASE Start(h)
  <2>1. OutagesWithoutTicks \in SUBSET Nat
    BY DEF OutagesWithoutTicks, TypeOK
  <2>2. stage' \in [Hosts -> {"down", "boot", "up"}] /\ pending' \in [Hosts -> SUBSET Nat]
    BY <1>1, <2>1 DEF Start, TypeOK
  <2>3. QED  BY <1>1, <2>2 DEF Start, TypeOK, OutagesAreCounted, schedVars, bounds
<1>2. CASE Backfill(h)
  <2> DEFINE o == Min(pending[h])
  <2>1. pending[h] \in SUBSET Nat /\ pending[h] # {}
    BY <1>2 DEF Backfill, TypeOK
  <2>2. o \in Nat
    BY <2>1, MinIsIn
  <2>3. GapSlots(outages[o].from, outages[o].to) \in SUBSET (Schedules \X Times)
    BY GapSlotsType
  <2>4. /\ fill' = [fill EXCEPT ![h] =
                  [outage |-> o, slots |-> GapSlots(outages[o].from, outages[o].to)]]
        /\ pending' = [pending EXCEPT ![h] = @ \ {o}]
        /\ UNCHANGED <<now, schedVars, plan, stage, gap, outages, bounds>>
    BY <1>2 DEF Backfill
  <2> HIDE DEF o
  <2>5. fill' \in [Hosts -> [outage : Nat, slots : SUBSET (Schedules \X Times)]]
    BY <2>2, <2>3, <2>4 DEF TypeOK
  <2>6. pending' \in [Hosts -> SUBSET Nat]
    BY <2>4 DEF TypeOK
  <2>7. QED  BY <2>4, <2>5, <2>6 DEF TypeOK, OutagesAreCounted, schedVars, bounds
<1>3. CASE RecordGap(h)
  <2>1. gap' \in [Hosts -> 0..Horizon] /\ gap[h] \in 0..Horizon
    BY <1>3, ScheduleAssumption DEF RecordGap, TypeOK
  <2>2. UNCHANGED <<now, schedVars, plan, stage, pending, bounds>>
    BY <1>3 DEF RecordGap
  <2>3. CASE UNCHANGED <<outages, fill>>
    BY <2>1, <2>2, <2>3 DEF TypeOK, OutagesAreCounted, schedVars, bounds
  <2>4. CASE /\ RecordOutage(gap[h], now)
             /\ fill' = [fill EXCEPT ![h] = [outage |-> NewOutage, slots |-> GapSlots(gap[h], now)]]
    <3>1. Cardinality(DOMAIN outages) \in Nat
      BY FS_CardinalityType DEF OutagesAreCounted
    <3>2. NewOutage \in Nat
      BY <3>1 DEF NewOutage
    <3>3. GapSlots(gap[h], now) \in SUBSET (Schedules \X Times)
      BY GapSlotsType
    <3>4. fill' \in [Hosts -> [outage : Nat, slots : SUBSET (Schedules \X Times)]]
      BY <2>4, <3>2, <3>3 DEF TypeOK
    <3>5. DOMAIN outages' = DOMAIN outages \cup {NewOutage}
      BY <2>4 DEF RecordOutage
    <3>6. IsFiniteSet(DOMAIN outages')
      BY <3>5, FS_AddElement DEF OutagesAreCounted
    <3>7. [from |-> gap[h], to |-> now, missed |-> 0] \in Outage
      BY <2>1 DEF Outage, TypeOK
    <3>8. \A o \in DOMAIN outages' : outages'[o] \in Outage
      BY <2>4, <3>5, <3>7 DEF RecordOutage, TypeOK
    <3>9. DOMAIN outages' \subseteq Nat
      BY <3>2, <3>5 DEF TypeOK
    <3>10. QED  BY <2>1, <2>2, <3>4, <3>6, <3>8, <3>9 DEF TypeOK, OutagesAreCounted, schedVars, bounds
  <2>5. QED  BY <1>3, <2>3, <2>4 DEF RecordGap
<1>4. CASE MissedChunk(h)
  BY <1>4, ChunkType DEF OutagesAreCounted
<1>5. CASE Ready(h)
  <2>1. stage' \in [Hosts -> {"down", "boot", "up"}]
    BY <1>5 DEF Ready, TypeOK
  <2>2. QED  BY <1>5, <2>1 DEF Ready, TypeOK, OutagesAreCounted, schedVars, bounds
<1>6. CASE Crash(h)
  <2>1. crashes' \in 0..MaxCrashes
    BY <1>6, BoundAssumption DEF Crash, TypeOK
  <2>2. gap' \in [Hosts -> 0..Horizon]
    <3>1. now - 1 \in 0..Horizon /\ now \in 0..Horizon
      BY ScheduleAssumption DEF TypeOK, Times
    <3>2. QED  BY <1>6, <3>1 DEF Crash, TypeOK
  <2>3. /\ stage' \in [Hosts -> {"down", "boot", "up"}]
        /\ plan' \in [Hosts -> SUBSET Decisions]
        /\ pending' \in [Hosts -> SUBSET Nat]
    BY <1>6 DEF Crash, TypeOK
  <2>4. fill' \in [Hosts -> [outage : Nat, slots : SUBSET (Schedules \X Times)]]
    <3>1. [outage |-> 0, slots |-> {}] \in [outage : Nat, slots : SUBSET (Schedules \X Times)]
      OBVIOUS
    <3>2. QED  BY <1>6, <3>1 DEF Crash, TypeOK
  <2>5. QED  BY <1>6, <2>1, <2>2, <2>3, <2>4 DEF Crash, TypeOK, OutagesAreCounted, schedVars
<1>7. QED  BY <1>1, <1>2, <1>3, <1>4, <1>5, <1>6 DEF Boot

(* Every step keeps the types.                                             *)
LEMMA TypeStep ==
    ASSUME Inv, [Next]_vars
    PROVE  TypeOK' /\ OutagesAreCounted'
<1>1. CASE Advance
  <2>1. now' \in Times
    BY <1>1, ScheduleAssumption DEF Advance, Inv, TypeOK, Times
  <2>2. QED  BY <1>1, <2>1 DEF Advance, Inv, TypeOK, OutagesAreCounted, schedVars, bootVars, bounds
<1>2. ASSUME NEW h \in Hosts, Daemon(h)
      PROVE  TypeOK' /\ OutagesAreCounted'
  <2>1. CASE Boot(h) \/ Crash(h)
    BY <2>1, BootType DEF Inv
  <2>2. CASE (\E exact \in BOOLEAN : Wake(h, exact)) \/ StopPass(h) \/ WriteTick(h) \/ FailTick(h)
    <3>1. UNCHANGED outages
      BY <2>2 DEF Wake, StopPass, WriteTick, FailTick, bootVars
    <3>2. QED  BY <2>2, <3>1, PassType DEF Inv, OutagesAreCounted
  <2>3. QED  BY <1>2, <2>1, <2>2 DEF Daemon
<1>3. ASSUME NEW s \in Schedules, Operator(s)
      PROVE  TypeOK' /\ OutagesAreCounted'
  <2>1. UNCHANGED outages
    BY <1>3 DEF Operator, PauseSchedule, ResumeByDaemon, ResumeByCli, Resume, RemoveSchedule,
                AddSchedule, bootVars
  <2>2. QED  BY <1>3, <2>1, OperatorType DEF Inv, OutagesAreCounted
<1>4. CASE UNCHANGED vars
  BY <1>4 DEF vars, schedVars, bootVars, bounds, Inv, TypeOK, OutagesAreCounted
<1>5. QED  BY <1>1, <1>2, <1>3, <1>4 DEF Next

-----------------------------------------------------------------------------
(* What a step may do to a schedule's row and to the accounts.             *)

Unmoved(s) ==
    /\ row'[s].id = row[s].id /\ row'[s].last = row[s].last /\ origin'[s] = origin[s]
    /\ row'[s].last # 0 \/ row'[s].next = row[s].next
Ticked(s) ==
    /\ row'[s].id = row[s].id /\ origin'[s] = origin[s]
    /\ \E h \in Hosts : \E d \in Oldest(h) :
          Commit(h, d) /\ d.sched = s /\ row[s].last < d.at /\ row'[s].last = d.at
Resumed(s) ==
    /\ row'[s].id = row[s].id /\ row[s].last = 0 /\ row'[s].last = 0
    /\ origin'[s] = 0 \/ (origin'[s] > now /\ row'[s].next = origin'[s])
Removed(s) == row[s].id # 0 /\ row'[s].id = 0
Added(s) ==
    /\ edits < MaxEdits /\ edits' = edits + 1 /\ row'[s].id = edits'
    /\ row'[s].last = 0 /\ row'[s].next = now /\ origin'[s] = now

(* The cursor moves by a commit or not at all, and a promise is renewed    *)
(* only while the cursor is empty.                                         *)
LEMMA RowMoves ==
    ASSUME Inv, [Next]_vars, NEW s \in Schedules
    PROVE  Unmoved(s) \/ Ticked(s) \/ Resumed(s) \/ Removed(s) \/ Added(s)
<1>0. /\ row \in [Schedules -> RowType] /\ origin \in [Schedules -> 0..Horizon]
      /\ \A x \in Schedules : row[x].last \in 0..Horizon /\ row[x].id \in Nat /\ row[x].next \in Nat
      /\ now \in Nat /\ now \in 0..Horizon /\ now # 0
  BY ScheduleAssumption DEF Inv, TypeOK, RowType, Times
<1>1. CASE UNCHANGED <<row, origin>>
  BY <1>1 DEF Unmoved
<1>2. ASSUME NEW h \in Hosts, WriteTick(h)
      PROVE  Unmoved(s) \/ Ticked(s)
  <2>1. PICK d \in Oldest(h) : Commit(h, d)
    BY <1>2 DEF WriteTick
  <2>2. d \in Decisions /\ d.sched \in Schedules /\ d.at \in Nat
    <3>1. d \in Decisions
      BY DEF Oldest, Inv, TypeOK
    <3>2. QED  BY <3>1 DEF Decisions, Times
  <2>3. origin' = origin /\ row' \in {row, Progressed(d)}
    BY <2>1 DEF Commit, schedVars
  <2>4. CASE row' = row
    BY <2>3, <2>4 DEF Unmoved
  <2>5. CASE row' = Progressed(d) /\ row' # row
    <3>1. /\ row[d.sched].last < d.at
          /\ row' = [row EXCEPT ![d.sched].last = d.at, ![d.sched].next = d.next]
      BY <2>5 DEF Progressed
    <3>2. row' = [row EXCEPT ![d.sched] = [row[d.sched] EXCEPT !.last = d.at, !.next = d.next]]
      BY <1>0, <2>2, <3>1
    <3>3. CASE s = d.sched
      <4>1. row'[s] = [row[s] EXCEPT !.last = d.at, !.next = d.next]
        BY <1>0, <3>2, <3>3
      <4>2. row'[s].id = row[s].id /\ row'[s].last = d.at
        BY <1>0, <4>1 DEF RowType
      <4>3. QED  BY <2>1, <2>3, <3>1, <3>3, <4>2 DEF Ticked
    <3>4. CASE s # d.sched
      BY <1>0, <2>3, <3>2, <3>4 DEF Unmoved
    <3>5. QED  BY <3>3, <3>4
  <2>6. QED  BY <2>3, <2>4, <2>5
<1>3. ASSUME NEW x \in Schedules, PauseSchedule(x)
      PROVE  Unmoved(s)
  <2>1. row' = [row EXCEPT ![x] = [row[x] EXCEPT !.paused = TRUE]] /\ origin' = origin
    BY <1>0, <1>3 DEF PauseSchedule
  <2>2. row'[s] \in {row[s], [row[s] EXCEPT !.paused = TRUE]}
    BY <1>0, <2>1
  <2>3. QED  BY <1>0, <2>1, <2>2 DEF Unmoved, RowType
<1>4. ASSUME NEW x \in Schedules, NEW n \in Nat, Resume(x, n),
             row[x].last # 0 \/ n = 0 \/ n > now
      PROVE  Unmoved(s) \/ Resumed(s)
  <2>1. /\ row' = [row EXCEPT ![x] = [row[x] EXCEPT !.paused = FALSE, !.next = n]]
        /\ origin' = IF row[x].last # 0 THEN origin
                     ELSE [origin EXCEPT ![x] = IF n > Horizon THEN 0 ELSE n]
    BY <1>0, <1>4 DEF Resume
  <2>2. CASE s # x
    BY <1>0, <2>1, <2>2 DEF Unmoved
  <2>3. CASE s = x
    <3>1. row'[s] = [row[s] EXCEPT !.paused = FALSE, !.next = n]
      BY <1>0, <2>1, <2>3
    <3>2. row'[s].id = row[s].id /\ row'[s].last = row[s].last /\ row'[s].next = n
      BY <1>0, <3>1 DEF RowType
    <3>3. CASE row[s].last # 0
      BY <2>1, <2>3, <3>2, <3>3 DEF Unmoved
    <3>4. CASE row[s].last = 0
      <4>1. origin'[s] = IF n > Horizon THEN 0 ELSE n
        BY <1>0, <2>1, <2>3, <3>4
      <4>2. CASE n = 0 \/ n > Horizon
        BY <1>4, <3>2, <3>4, <4>1, <4>2, ScheduleAssumption DEF Resumed
      <4>3. CASE ~(n = 0 \/ n > Horizon)
        BY <1>4, <2>3, <3>2, <3>4, <4>1, <4>3 DEF Resumed
      <4>4. QED  BY <4>2, <4>3
    <3>5. QED  BY <3>3, <3>4
  <2>4. QED  BY <2>2, <2>3
<1>5. ASSUME NEW x \in Schedules, RemoveSchedule(x)
      PROVE  Unmoved(s) \/ Removed(s)
  <2>1. row' = [row EXCEPT ![x] = [row[x] EXCEPT !.id = 0]] /\ origin' = origin
    BY <1>0, <1>5 DEF RemoveSchedule
  <2>2. CASE s # x
    BY <1>0, <2>1, <2>2 DEF Unmoved
  <2>3. CASE s = x
    <3>1. row'[s] = [row[s] EXCEPT !.id = 0]
      BY <1>0, <2>1, <2>3
    <3>2. QED  BY <1>0, <1>5, <2>3, <3>1 DEF Removed, RemoveSchedule, RowType
  <2>4. QED  BY <2>2, <2>3
<1>6. ASSUME NEW x \in Schedules, AddSchedule(x)
      PROVE  Unmoved(s) \/ Added(s)
  <2>1. CASE s # x
    BY <1>0, <1>6, <2>1 DEF Unmoved, AddSchedule
  <2>2. CASE s = x
    BY <1>0, <1>6, <2>2 DEF Added, AddSchedule
  <2>3. QED  BY <2>1, <2>2
<1>7. ASSUME NEW h \in Hosts, Daemon(h), ~WriteTick(h)
      PROVE  UNCHANGED <<row, origin>>
  BY <1>7 DEF Daemon, Wake, StopPass, FailTick, Crash, Boot, Start, Backfill, RecordGap,
              MissedChunk, Ready, schedVars
<1>8. ASSUME NEW x \in Schedules, Operator(x)
      PROVE  Unmoved(s) \/ Resumed(s) \/ Removed(s) \/ Added(s)
  <2>1. CASE ResumeByDaemon(x)
    BY <1>4, <2>1 DEF ResumeByDaemon
  <2>2. CASE ResumeByCli(x)
    <3> DEFINE n == NextSlotAfter(x, IF row[x].last # 0 THEN row[x].last ELSE now)
    <3>1. n \in Nat /\ (row[x].last = 0 => n > now)
      BY <1>0, NextIsLater
    <3>2. Resume(x, n)
      BY <2>2 DEF ResumeByCli
    <3> HIDE DEF n
    <3>3. QED  BY <1>4, <3>1, <3>2
  <2>3. QED  BY <1>3, <1>5, <1>6, <1>8, <2>1, <2>2 DEF Operator
<1>9. CASE Advance \/ UNCHANGED vars
  BY <1>1, <1>9 DEF Advance, vars, schedVars
<1>10. QED  BY <1>1, <1>2, <1>7, <1>8, <1>9 DEF Next

(* A fire-time that has its row, or was folded into one, keeps it.         *)
LEMMA AccountsAreKept ==
    ASSUME Inv, [Next]_vars, NEW s \in Schedules, NEW t \in Times
    PROVE  Accounted(s, t) => Accounted(s, t)'
<1>0. /\ tick \in [Schedules -> [Times -> Outcomes \cup {"none"}]]
      /\ folded \in [Schedules -> SUBSET Times]
      /\ "none" \notin Outcomes
  BY DEF Inv, TypeOK, Outcomes, Foldable
<1>1. CASE UNCHANGED <<tick, folded>>
  BY <1>1 DEF Accounted
<1>2. ASSUME NEW h \in Hosts, WriteTick(h)
      PROVE  Accounted(s, t) => Accounted(s, t)'
  <2>1. PICK d \in Oldest(h) : Commit(h, d)
    BY <1>2 DEF WriteTick
  <2>2. d \in Decisions
    BY DEF Oldest, Inv, TypeOK
  <2>3. d.sched \in Schedules /\ d.at \in Times /\ "none" \notin Admitted(d)
    BY <2>2 DEF Decisions, Admitted, StoodDown, Verdict, Foldable
  <2>4. \/ tick' = tick /\ folded' = folded
        \/ tick' = tick /\ folded' = [folded EXCEPT ![d.sched] = @ \cup {d.at}]
        \/ folded' = folded /\ \E v \in Admitted(d) : tick' = [tick EXCEPT ![d.sched][d.at] = v]
    BY <2>1 DEF Commit, schedVars
  <2>5. CASE tick' = tick /\ folded' = [folded EXCEPT ![d.sched] = @ \cup {d.at}]
    BY <1>0, <2>3, <2>5 DEF Accounted
  <2>6. ASSUME NEW v \in Admitted(d), folded' = folded, tick' = [tick EXCEPT ![d.sched][d.at] = v]
        PROVE  Accounted(s, t) => Accounted(s, t)'
    <3>1. tick'[s][t] \in {tick[s][t], v}
      BY <1>0, <2>3, <2>6
    <3>2. QED  BY <2>3, <2>6, <3>1 DEF Accounted
  <2>7. QED  BY <1>1, <2>4, <2>5, <2>6
<1>3. ASSUME NEW h \in Hosts, MissedChunk(h)
      PROVE  Accounted(s, t) => Accounted(s, t)'
  <2>1. tick'[s][t] \in {tick[s][t], "missed"} /\ folded' = folded
    BY <1>3 DEF MissedChunk
  <2>2. QED  BY <2>1 DEF Accounted
<1>4. ASSUME NEW h \in Hosts, Daemon(h), ~WriteTick(h), ~MissedChunk(h)
      PROVE  UNCHANGED <<tick, folded>>
  BY <1>4 DEF Daemon, Wake, StopPass, FailTick, Crash, Boot, Start, Backfill, RecordGap,
              Ready, schedVars
<1>5. ASSUME NEW x \in Schedules, Operator(x)
      PROVE  UNCHANGED <<tick, folded>>
  BY <1>5 DEF Operator, PauseSchedule, ResumeByDaemon, ResumeByCli, Resume, RemoveSchedule, AddSchedule
<1>6. CASE Advance \/ UNCHANGED vars
  BY <1>1, <1>6 DEF Advance, vars, schedVars
<1>7. QED  BY <1>1, <1>2, <1>3, <1>4, <1>5, <1>6 DEF Next

(* A plan grows only by a wake.  A decision leaves the plan of a row that  *)
(* is still there only with all the others of its schedule, or with an     *)
(* account of its fire-time.                                               *)
LEMMA CommitAccounts ==
    ASSUME Inv, NEW h \in Hosts, NEW d \in plan[h], Commit(h, d)
    PROVE  Accounted(d.sched, d.at)'
<1>0. /\ tick \in [Schedules -> [Times -> Outcomes \cup {"none"}]]
      /\ folded \in [Schedules -> SUBSET Times]
      /\ d \in Decisions
  BY DEF Inv, TypeOK
<1>1. d.sched \in Schedules /\ d.at \in Times /\ "none" \notin Admitted(d)
  BY <1>0 DEF Decisions, Admitted, StoodDown, Verdict, Foldable
<1>2. CASE folded' = [folded EXCEPT ![d.sched] = @ \cup {d.at}]
  BY <1>0, <1>1, <1>2 DEF Accounted
<1>3. ASSUME NEW v \in Admitted(d), tick' = [tick EXCEPT ![d.sched][d.at] = v]
      PROVE  Accounted(d.sched, d.at)'
  BY <1>0, <1>1, <1>3 DEF Accounted
<1>4. CASE ~Claims(d) /\ UNCHANGED schedVars
  BY <1>4 DEF Claims, Free, Accounted, schedVars
<1>5. QED  BY <1>2, <1>3, <1>4 DEF Commit

(* A step leaves a loop's plan alone, takes from it what it has accounted  *)
(* for, or is the wake that makes it.                                      *)
LEMMA PlanMoves ==
    ASSUME Inv, [Next]_vars, NEW h \in Hosts
    PROVE  \/ \E exact \in BOOLEAN : Wake(h, exact)
           \/ /\ plan'[h] \subseteq plan[h]
              /\ \A d \in plan'[h] : \A e \in plan[h] \ plan'[h] :
                    e.sched = d.sched => Accounted(e.sched, e.at)'
<1>0. plan \in [Hosts -> SUBSET Decisions]
  BY DEF Inv, TypeOK
<1>1. CASE plan'[h] = plan[h] \/ plan'[h] = {}
  BY <1>1
<1>2. ASSUME NEW g \in Hosts, WriteTick(g)
      PROVE  /\ plan'[h] \subseteq plan[h]
             /\ \A d \in plan'[h] : \A e \in plan[h] \ plan'[h] :
                   e.sched = d.sched => Accounted(e.sched, e.at)'
  <2>1. PICK d \in Oldest(g) : Commit(g, d)
    BY <1>2 DEF WriteTick
  <2>2. plan' = [plan EXCEPT ![g] = @ \ {d}] /\ d \in plan[g]
    BY <2>1 DEF Commit, Oldest
  <2>3. Accounted(d.sched, d.at)'
    BY <2>1, <2>2, CommitAccounts
  <2>4. plan'[h] \subseteq plan[h] /\ plan[h] \ plan'[h] \subseteq {d}
    BY <1>0, <2>2
  <2>5. \A e : e = d => Accounted(e.sched, e.at)'
    BY <2>3 DEF Accounted
  <2>6. QED  BY <2>4, <2>5
<1>3. ASSUME NEW g \in Hosts, FailTick(g)
      PROVE  /\ plan'[h] \subseteq plan[h]
             /\ \A d \in plan'[h] : \A e \in plan[h] \ plan'[h] : e.sched # d.sched
  <2>1. PICK d \in Oldest(g) : plan' = [plan EXCEPT ![g] = Blocked(g, d)]
    BY <1>3 DEF FailTick
  <2>2. CASE g = h
    <3>1. plan'[h] = {e \in plan[h] : e.sched # d.sched}
      BY <1>0, <2>1, <2>2 DEF Blocked
    <3>2. QED  BY <3>1
  <2>3. CASE g # h
    BY <1>0, <2>1, <2>3
  <2>4. QED  BY <2>2, <2>3
<1>4. ASSUME NEW g \in Hosts, StopPass(g) \/ Crash(g)
      PROVE  plan'[h] = plan[h] \/ plan'[h] = {}
  BY <1>0, <1>4 DEF StopPass, Crash
<1>5. ASSUME NEW g \in Hosts, NEW exact \in BOOLEAN, Wake(g, exact)
      PROVE  g = h \/ plan'[h] = plan[h]
  BY <1>0, <1>5 DEF Wake
<1>6. ASSUME NEW g \in Hosts, Boot(g)
      PROVE  plan'[h] = plan[h]
  BY <1>6 DEF Boot, Start, Backfill, RecordGap, MissedChunk, Ready
<1>7. ASSUME NEW x \in Schedules, Operator(x)
      PROVE  plan'[h] = plan[h]
  BY <1>7 DEF Operator, PauseSchedule, ResumeByDaemon, ResumeByCli, Resume, RemoveSchedule, AddSchedule
<1>8. CASE Advance \/ UNCHANGED vars
  BY <1>1, <1>8 DEF Advance, vars
<1>9. ASSUME NEW g \in Hosts, Daemon(g), ~(\E exact \in BOOLEAN : Wake(h, exact))
      PROVE  /\ plan'[h] \subseteq plan[h]
             /\ \A d \in plan'[h] : \A e \in plan[h] \ plan'[h] :
                   e.sched = d.sched => Accounted(e.sched, e.at)'
  BY <1>1, <1>2, <1>3, <1>4, <1>5, <1>6, <1>9 DEF Daemon
<1>10. QED  BY <1>1, <1>7, <1>8, <1>9 DEF Next

-----------------------------------------------------------------------------
(* The invariant, part by part.                                            *)

(* Edits and the clock go up one at a time.                                *)
LEMMA EditsGrow ==
    ASSUME Inv, [Next]_vars
    PROVE  edits \in 0..MaxEdits /\ edits' \in {edits, edits + 1} /\ now' \in {now, now + 1}
<1>1. ASSUME NEW h \in Hosts, Daemon(h)
      PROVE  edits' = edits /\ now' = now
  BY <1>1 DEF Daemon, Wake, StopPass, WriteTick, FailTick, Crash, Boot, Start, Backfill, RecordGap,
              MissedChunk, Ready, bounds
<1>2. ASSUME NEW x \in Schedules, Operator(x)
      PROVE  edits' = edits + 1 /\ now' = now
  BY <1>2 DEF Operator, PauseSchedule, ResumeByDaemon, ResumeByCli, Resume, RemoveSchedule, AddSchedule
<1>3. QED  BY <1>1, <1>2 DEF Inv, TypeOK, Next, Advance, vars, bounds

(* What a wake plans for a schedule.                                       *)
LEMMA WakePlans ==
    ASSUME Inv, NEW h \in Hosts, NEW exact \in BOOLEAN, Wake(h, exact), NEW d \in plan'[h]
    PROVE  /\ UNCHANGED <<now, row, tick, folded, origin, edits>>
           /\ d.sched \in DueSchedules /\ d \in PlanSchedule(d.sched, exact)
           /\ PlanSchedule(d.sched, exact) \subseteq plan'[h]
<1>1. /\ plan'[h] = UNION {PlanSchedule(s, exact) : s \in DueSchedules}
      /\ UNCHANGED <<now, row, tick, folded, origin, edits>>
  BY DEF Wake, Inv, TypeOK, schedVars, bounds
<1>2. PICK s \in DueSchedules : d \in PlanSchedule(s, exact)
  BY <1>1
<1>3. d.sched = s
  BY <1>2, PlanOfSchedule DEF Inv
<1>4. QED  BY <1>1, <1>2, <1>3

(* A row that comes back has an id no plan has.                            *)
LEMMA FreshStep ==
    ASSUME Inv, [Next]_vars
    PROVE  IdsAreFresh'
<1>0. /\ edits \in 0..MaxEdits /\ edits' \in {edits, edits + 1} /\ edits \in Nat
      /\ \A s \in Schedules : row[s].id \in Nat /\ (row[s].id = MaxEdits + 1 \/ row[s].id <= edits)
      /\ \A h \in Hosts : \A d \in plan[h] :
            d.id \in Nat /\ d.id # 0 /\ (d.id = MaxEdits + 1 \/ d.id <= edits)
  <2>1. \A h \in Hosts : \A d \in plan[h] : d.id \in Nat
    BY DEF Inv, TypeOK, Decisions
  <2>2. \A s \in Schedules : row[s].id \in Nat
    BY DEF Inv, TypeOK
  <2>3. QED  BY <2>1, <2>2, EditsGrow, BoundAssumption DEF Inv, IdsAreFresh
<1>1. ASSUME NEW s \in Schedules
      PROVE  row'[s].id = MaxEdits + 1 \/ row'[s].id <= edits'
  <2>1. row'[s].id \in {row[s].id, 0} \/ row'[s].id = edits'
    BY RowMoves DEF Unmoved, Ticked, Resumed, Removed, Added
  <2>2. QED  BY <1>0, <2>1
<1>2. ASSUME NEW h \in Hosts, NEW d \in plan'[h]
      PROVE  d.id # 0 /\ (d.id = MaxEdits + 1 \/ d.id <= edits')
  <2>1. ASSUME NEW exact \in BOOLEAN, Wake(h, exact)
        PROVE  d.id # 0 /\ (d.id = MaxEdits + 1 \/ d.id <= edits')
    <3>1. d.sched \in DueSchedules /\ d \in PlanSchedule(d.sched, exact) /\ edits' = edits
      BY <2>1, WakePlans
    <3>2. d.id = row[d.sched].id
      BY <3>1, PlanOfSchedule DEF Inv
    <3>3. QED  BY <1>0, <3>1, <3>2 DEF DueSchedules
  <2>2. CASE d \in plan[h]
    BY <1>0, <2>2
  <2>3. QED  BY <2>1, <2>2, PlanMoves
<1>3. QED  BY <1>1, <1>2 DEF IdsAreFresh

(* A decision is made for an instant that has come.                        *)
LEMMA OldStep ==
    ASSUME Inv, [Next]_vars
    PROVE  PlanIsOld'
<1>1. now \in Nat /\ now' \in {now, now + 1}
  BY EditsGrow DEF Inv, TypeOK, Times
<1>2. ASSUME NEW h \in Hosts, NEW d \in plan'[h]
      PROVE  d.at <= now'
  <2>1. ASSUME NEW exact \in BOOLEAN, Wake(h, exact)
        PROVE  d.at <= now'
    <3>1. d.sched \in DueSchedules /\ d \in PlanSchedule(d.sched, exact) /\ now' = now
      BY <2>1, WakePlans
    <3>2. QED  BY <3>1, PlanOfSchedule DEF Inv
  <2>2. CASE d \in plan[h]
    <3>1. d.at <= now /\ d.at \in Nat
      BY <2>2 DEF Inv, PlanIsOld, TypeOK, Decisions, Times
    <3>2. QED  BY <1>1, <3>1
  <2>3. QED  BY <2>1, <2>2, PlanMoves
<1>3. QED  BY <1>2 DEF PlanIsOld

(* A row that never ticked is not carried past its first promise without a *)
(* tick.                                                                   *)
LEMMA PromiseStep ==
    ASSUME Inv, [Next]_vars
    PROVE  PromiseIsDue'
<1> SUFFICES ASSUME NEW s \in Schedules, row'[s].id # 0, row'[s].last = 0, origin'[s] # 0
             PROVE  row'[s].next # 0 /\ row'[s].next <= origin'[s]
  BY DEF PromiseIsDue
<1>1. now \in Nat /\ now # 0 /\ row[s].last \in Nat /\ origin'[s] \in Nat
  <2>1. origin'[s] \in 0..Horizon
    BY TypeStep DEF TypeOK
  <2>2. QED  BY <2>1, ScheduleAssumption DEF Inv, TypeOK, Times
<1>2. CASE Unmoved(s)
  BY <1>2 DEF Unmoved, Inv, PromiseIsDue
<1>3. CASE Ticked(s)
  <2>1. PICK h \in Hosts : \E d \in Oldest(h) : row[s].last < d.at /\ row'[s].last = d.at
    BY <1>3 DEF Ticked
  <2>2. \A d \in Oldest(h) : d.at \in Nat
    BY DEF Oldest, Inv, TypeOK, Decisions, Times
  <2>3. QED  BY <1>1, <2>1, <2>2
<1>4. CASE Resumed(s)
  BY <1>1, <1>4 DEF Resumed
<1>5. CASE Added(s)
  BY <1>1, <1>5 DEF Added
<1>6. QED  BY <1>2, <1>3, <1>4, <1>5, RowMoves DEF Removed

(* A decision still planned for the row that is there has met its schedule *)
(* with the promise the row had before the step, and no younger one.       *)
LEMMA SameRow ==
    ASSUME Inv, [Next]_vars, NEW h \in Hosts, NEW d \in plan[h],
           d.id = row'[d.sched].id, origin'[d.sched] # 0
    PROVE  \/ /\ d.id = row[d.sched].id /\ origin'[d.sched] = origin[d.sched]
              /\ row'[d.sched].last >= row[d.sched].last
           \/ origin'[d.sched] > now
<1> DEFINE s == d.sched
<1>1. /\ s \in Schedules /\ d.id # 0 /\ (d.id = MaxEdits + 1 \/ d.id <= edits)
      /\ d.id \in Nat /\ edits \in Nat /\ MaxEdits \in Nat /\ row[s].last \in Nat
  BY BoundAssumption DEF Inv, IdsAreFresh, TypeOK, Decisions
<1> HIDE DEF s
<1>2. CASE Unmoved(s)
  BY <1>1, <1>2 DEF Unmoved, s
<1>3. CASE Ticked(s)
  <2>1. PICK g \in Hosts : \E e \in Oldest(g) : row[s].last < e.at /\ row'[s].last = e.at
    BY <1>3 DEF Ticked
  <2>2. \A e \in Oldest(g) : e.at \in Nat
    BY DEF Oldest, Inv, TypeOK, Decisions, Times
  <2>3. row'[s].last >= row[s].last
    BY <1>1, <2>1, <2>2
  <2>4. QED  BY <1>1, <1>3, <2>3 DEF Ticked, s
<1>4. CASE Resumed(s)
  BY <1>4 DEF Resumed, s
<1>5. CASE Removed(s)
  BY <1>1, <1>5 DEF Removed, s
<1>6. CASE Added(s)
  BY <1>1, <1>6 DEF Added, s
<1>7. QED  BY <1>1, <1>2, <1>3, <1>4, <1>5, <1>6, RowMoves

(* What a decision skips stays accounted for, by whatever other instance   *)
(* commits in between.                                                     *)
LEMMA CoverStep ==
    ASSUME Inv, [Next]_vars
    PROVE  PlanCovers'
<1> SUFFICES ASSUME NEW h \in Hosts, NEW d \in plan'[h],
                    d.id = row'[d.sched].id, d.sched \notin Unreadable, origin'[d.sched] # 0
             PROVE  CoversUpTo(plan[h], d)'
  BY DEF PlanCovers
<1>1. ASSUME NEW exact \in BOOLEAN, Wake(h, exact)
      PROVE  CoversUpTo(plan[h], d)'
  <2>1. /\ UNCHANGED <<row, tick, folded, origin>>
        /\ d.sched \in DueSchedules /\ d \in PlanSchedule(d.sched, exact)
        /\ PlanSchedule(d.sched, exact) \subseteq plan'[h]
    BY <1>1, WakePlans
  <2>2. CoversUpTo(PlanSchedule(d.sched, exact), d)
    BY <2>1, PlanOfSchedule DEF Inv
  <2> HIDE DEF PlanSchedule
  <2>3. \A t : Ahead(PlanSchedule(d.sched, exact), d, t) => Ahead(plan[h], d, t)'
    BY <2>1 DEF Ahead
  <2>4. \A t : Accounted(d.sched, t) => Accounted(d.sched, t)'
    BY <2>1 DEF Accounted
  <2>5. \A t : Overtaken(d.sched, t, d.at) => Overtaken(d.sched, t, d.at)'
    BY DEF Overtaken
  <2>6. QED  BY <2>1, <2>2, <2>3, <2>4, <2>5 DEF CoversUpTo
<1>2. CASE /\ plan'[h] \subseteq plan[h]
           /\ \A c \in plan'[h] : \A e \in plan[h] \ plan'[h] :
                 e.sched = c.sched => Accounted(e.sched, e.at)'
  <2>0. /\ d \in plan[h] /\ d.sched \in Schedules /\ d.at \in Nat /\ d.at <= now /\ now \in Nat
        /\ Slots(d.sched) \in SUBSET Times /\ Times \subseteq Nat
        /\ row[d.sched].last \in Nat /\ row'[d.sched].last \in Nat /\ origin'[d.sched] \in Nat
    <3>1. d \in plan[h] /\ d \in Decisions
      BY <1>2 DEF Inv, TypeOK
    <3>2. /\ d.sched \in Schedules /\ d.at \in Nat /\ d.at <= now /\ now \in Nat
          /\ Slots(d.sched) \in SUBSET Times /\ Times \subseteq Nat
      <4>1. d.sched \in Schedules /\ d.at \in Times
        BY <3>1 DEF Decisions
      <4>2. d.at <= now
        BY <3>1 DEF Inv, PlanIsOld
      <4>3. now \in Nat
        <5>1. TypeOK
          BY DEF Inv
        <5>2. now \in Times
          BY <5>1 DEF TypeOK
        <5>3. QED  BY <5>2 DEF Times
      <4>4. Slots(d.sched) \in SUBSET Times
        BY <4>1, ScheduleAssumption DEF Slots
      <4>5. Times \subseteq Nat
        BY DEF Times
      <4>6. QED  BY <4>1, <4>2, <4>3, <4>4, <4>5
    <3>3. row[d.sched].last \in Nat /\ row'[d.sched].last \in Nat /\ origin'[d.sched] \in Nat
      <4>1. row'[d.sched].last \in 0..Horizon /\ origin'[d.sched] \in 0..Horizon /\ row[d.sched].last \in 0..Horizon
        BY <3>2, TypeStep DEF Inv, TypeOK
      <4>2. QED  BY <4>1
    <3>4. QED  BY <3>1, <3>2, <3>3
  <2>1. CASE origin'[d.sched] > now
    <3>1. \A t \in Slots(d.sched) : ~(origin'[d.sched] <= t /\ t < d.at)
      <4>1. \A t \in Nat : ~(origin'[d.sched] <= t /\ t < d.at)
        BY <2>0, <2>1
      <4>2. QED  BY <2>0, <4>1
    <3>2. QED  BY <3>1 DEF CoversUpTo
  <2>2. CASE /\ d.id = row[d.sched].id /\ origin'[d.sched] = origin[d.sched]
             /\ row'[d.sched].last >= row[d.sched].last
    <3> SUFFICES ASSUME NEW t \in Slots(d.sched), origin'[d.sched] <= t, t < d.at
                 PROVE  \/ t <= row'[d.sched].last \/ Accounted(d.sched, t)'
                        \/ Overtaken(d.sched, t, d.at)'
                        \/ Ahead(plan[h], d, t)'
      BY DEF CoversUpTo
    <3>1. \/ t <= row[d.sched].last \/ Accounted(d.sched, t)
          \/ Overtaken(d.sched, t, d.at)
          \/ Ahead(plan[h], d, t)
      <4>1. CoversUpTo(plan[h], d)
        BY <2>0, <2>2 DEF Inv, PlanCovers
      <4>2. QED  BY <2>2, <4>1 DEF CoversUpTo
    <3>2. CASE t <= row[d.sched].last
      <4>1. t \in Nat
        BY <2>0
      <4>2. t <= row'[d.sched].last
        BY <2>0, <2>2, <3>2, <4>1
      <4>3. QED  BY <4>2
    <3>3. CASE Accounted(d.sched, t)
      BY <2>0, <3>3, AccountsAreKept
    <3>4. CASE Overtaken(d.sched, t, d.at)
      BY <3>4 DEF Overtaken
    <3>5. CASE Ahead(plan[h], d, t)
      <4>1. PICK e \in plan[h] : e.sched = d.sched /\ e.id = d.id /\ e.at = t
        BY <3>5 DEF Ahead
      <4>2. CASE e \in plan'[h]
        BY <4>1, <4>2 DEF Ahead
      <4>3. CASE e \notin plan'[h]
        <5>1. Accounted(e.sched, e.at)'
          BY <1>2, <4>1, <4>3
        <5>2. QED  BY <4>1, <5>1 DEF Accounted
      <4>4. QED  BY <4>2, <4>3
    <3>6. QED  BY <3>1, <3>2, <3>3, <3>4, <3>5
  <2>3. QED  BY <2>0, <2>1, <2>2, SameRow
<1>3. QED  BY <1>1, <1>2, PlanMoves

(* A cursor moves over nothing but what its decision covers.               *)
LEMMA SilenceStep ==
    ASSUME Inv, [Next]_vars
    PROVE  NothingPassedInSilence'
<1> SUFFICES ASSUME NEW s \in Schedules, NEW t \in Times, t \in Slots(s), s \notin Unreadable,
                    row'[s].id # 0, origin'[s] # 0, origin'[s] <= t, t <= row'[s].last
             PROVE  Accounted(s, t)' \/ Overtaken(s, t, row'[s].last)
  BY DEF NothingPassedInSilence, Overtaken
<1>0. row[s].last \in Nat /\ t \in Nat /\ t # 0 /\ Slots(s) \subseteq Nat /\ Dst[s] \subseteq Nat
  BY ScheduleAssumption DEF Inv, TypeOK, Times, Slots
<1>1. ASSUME row'[s].id = row[s].id, origin'[s] = origin[s], t <= row[s].last
      PROVE  Accounted(s, t)' \/ Overtaken(s, t, row[s].last)
  BY <1>1, AccountsAreKept DEF Inv, NothingPassedInSilence
<1>2. CASE Unmoved(s)
  BY <1>1, <1>2 DEF Unmoved
<1>3. CASE Ticked(s)
  <2>1. PICK h \in Hosts : \E e \in Oldest(h) :
            Commit(h, e) /\ e.sched = s /\ row[s].last < e.at /\ row'[s].last = e.at
    BY <1>3 DEF Ticked
  <2>2. PICK d \in Oldest(h) :
            Commit(h, d) /\ d.sched = s /\ row[s].last < d.at /\ row'[s].last = d.at
    BY <2>1
  <2>3. d \in plan[h] /\ d.at \in Nat /\ \A e \in plan[h] : e.at \in Nat /\ d.at <= e.at
    <3>1. d \in plan[h] /\ \A e \in plan[h] : d.at <= e.at
      BY <2>2 DEF Oldest
    <3>2. \A e \in plan[h] : e.at \in Nat
      BY <2>1 DEF Inv, TypeOK, Decisions, Times
    <3>3. QED  BY <3>1, <3>2
  <2>4. row'[s].id = row[s].id /\ origin'[s] = origin[s] /\ row[s].id = d.id
    BY <1>3, <2>2 DEF Ticked, Commit
  <2>5. CASE t = d.at
    <3>1. Accounted(d.sched, d.at)'
      BY <2>2, <2>3, CommitAccounts
    <3>2. QED  BY <2>2, <2>5, <3>1 DEF Accounted
  <2>6. CASE t <= row[s].last
    <3>1. Accounted(s, t)' \/ Overtaken(s, t, row[s].last)
      BY <1>1, <2>4, <2>6
    <3>2. Overtaken(s, t, row[s].last) => Overtaken(s, t, row'[s].last)
      BY <1>0, <2>2, <2>3 DEF Overtaken
    <3>3. QED  BY <3>1, <3>2
  <2>7. CASE t < d.at /\ ~(t <= row[s].last)
    <3>1. CoversUpTo(plan[h], d)
      BY <2>2, <2>3, <2>4 DEF Inv, PlanCovers
    <3>2. ~Ahead(plan[h], d, t)
      BY <1>0, <2>3, <2>7 DEF Ahead
    <3>3. Accounted(s, t) \/ Overtaken(s, t, d.at)
      BY <2>2, <2>4, <2>7, <3>1, <3>2 DEF CoversUpTo
    <3>4. QED  BY <2>2, <3>3, AccountsAreKept
  <2>8. QED  BY <1>0, <2>2, <2>3, <2>5, <2>6, <2>7
<1>4. CASE Resumed(s) \/ Added(s)
  BY <1>0, <1>4 DEF Resumed, Added
<1>5. QED  BY <1>2, <1>3, <1>4, RowMoves DEF Removed

(* At the start no cursor has moved and nothing is planned.                *)
LEMMA InitInv == Init => Inv
<1> SUFFICES ASSUME Init
             PROVE  Inv
  OBVIOUS
<1>1. TypeOK
  <2>1. 1 \in Times /\ 1 \in 0..Horizon /\ 0 \in 0..Horizon
    BY ScheduleAssumption DEF Times
  <2>2. /\ now \in Times
        /\ row \in [Schedules -> [id : Nat, last : 0..Horizon, next : Nat, paused : BOOLEAN]]
        /\ origin \in [Schedules -> 0..Horizon]
    BY <2>1, BoundAssumption DEF Init
  <2>3. /\ tick \in [Schedules -> [Times -> Outcomes \cup {"none"}]]
        /\ runs \in [Schedules -> [Times -> Nat]]
        /\ latest \in [Schedules -> [slot : 0..Horizon, at : 0..Horizon]]
        /\ folded \in [Schedules -> SUBSET Times]
    BY <2>1 DEF Init
  <2>4. /\ plan \in [Hosts -> SUBSET Decisions]
        /\ stage \in [Hosts -> {"down", "boot", "up"}]
        /\ gap \in [Hosts -> 0..Horizon]
        /\ pending \in [Hosts -> SUBSET Nat]
        /\ fill \in [Hosts -> [outage : Nat, slots : SUBSET (Schedules \X Times)]]
    BY <2>1 DEF Init
  <2>5. /\ DOMAIN outages = {}
        /\ failures \in 0..MaxFailures /\ crashes \in 0..MaxCrashes /\ edits \in 0..MaxEdits
    BY BoundAssumption DEF Init
  <2>6. QED  BY <2>2, <2>3, <2>4, <2>5 DEF TypeOK
<1>2. OutagesAreCounted
  BY FS_EmptySet DEF Init, OutagesAreCounted
<1>3. IdsAreFresh /\ PlanIsOld /\ PlanCovers
  BY DEF Init, IdsAreFresh, PlanIsOld, PlanCovers
<1>4. PromiseIsDue
  BY DEF Init, PromiseIsDue
<1>5. NothingPassedInSilence
  BY DEF Init, NothingPassedInSilence, Times
<1>6. QED  BY <1>1, <1>2, <1>3, <1>4, <1>5 DEF Inv

-----------------------------------------------------------------------------
(* The theorems.                                                           *)

(* The inductive invariant: types, ids handed out once, plans that never   *)
(* run ahead of the clock nor over a fire-time they leave out, and a       *)
(* cursor that has passed nothing in silence.                              *)
THEOREM SchedulerInvariant == Spec => []Inv
<1>1. Init => Inv
  BY InitInv
<1>2. Inv /\ [Next]_vars => Inv'
  <2> SUFFICES ASSUME Inv, [Next]_vars
               PROVE  Inv'
    OBVIOUS
  <2>1. TypeOK' /\ OutagesAreCounted'
    BY TypeStep
  <2>2. IdsAreFresh' /\ PlanIsOld' /\ PromiseIsDue'
    BY FreshStep, OldStep, PromiseStep
  <2>3. PlanCovers' /\ NothingPassedInSilence'
    BY CoverStep, SilenceStep
  <2>4. QED  BY <2>1, <2>2, <2>3 DEF Inv
<1>3. QED  BY <1>1, <1>2, PTL DEF Spec

(* Every variable of the scheduler keeps its type (TypeOK).                *)
THEOREM SchedulerTypes == Spec => []TypeOK
<1>1. Inv => TypeOK
  BY DEF Inv
<1>2. QED  BY <1>1, SchedulerInvariant, PTL

(* Whatever the cursor has moved over has a row or was folded into one, or *)
(* is a dose remainder a DST skip overtook (loop.go, schedules_tick.go).   *)
THEOREM NoFireTimeIsLostInSilence == Spec => []NothingPassedInSilence
<1>1. Inv => NothingPassedInSilence
  BY DEF Inv
<1>2. QED  BY <1>1, SchedulerInvariant, PTL

(* While a row stays the same row, no instance ever drags its cursor back  *)
(* (updateProgressSQL and the id check of MaterializeTick).                *)
THEOREM CursorOnlyMovesForward == Spec => CursorNeverGoesBack
<1>1. ASSUME Inv, [Next]_vars
      PROVE  \A s \in Schedules : row'[s].id = row[s].id => row'[s].last >= row[s].last
  <2> SUFFICES ASSUME NEW s \in Schedules, row'[s].id = row[s].id
               PROVE  row'[s].last >= row[s].last
    OBVIOUS
  <2>1. /\ row[s].last \in Nat /\ row[s].id \in Nat /\ edits \in Nat /\ MaxEdits \in Nat
        /\ row[s].id = MaxEdits + 1 \/ row[s].id <= edits
    BY <1>1, BoundAssumption DEF Inv, TypeOK, IdsAreFresh
  <2>2. CASE Ticked(s)
    <3>1. PICK h \in Hosts : \E e \in Oldest(h) : row[s].last < e.at /\ row'[s].last = e.at
      BY <2>2 DEF Ticked
    <3>2. \A e \in Oldest(h) : e.at \in Nat
      BY <1>1 DEF Oldest, Inv, TypeOK, Decisions, Times
    <3>3. QED  BY <2>1, <3>1, <3>2
  <2>3. CASE Unmoved(s) \/ Resumed(s)
    BY <2>1, <2>3 DEF Unmoved, Resumed
  <2>4. CASE Removed(s) \/ Added(s)
    BY <2>1, <2>4 DEF Removed, Added
  <2>5. QED  BY <1>1, <2>2, <2>3, <2>4, RowMoves
<1>2. QED  BY <1>1, SchedulerInvariant, PTL DEF Spec, CursorNeverGoesBack

(* No run is ever created for a schedule that is paused at that moment,    *)
(* however long before it was planned (the re-read in MaterializeTick).    *)
THEOREM PauseWins == Spec => NoRunWhilePaused
<1>1. ASSUME Inv, [Next]_vars
      PROVE  \A s \in Schedules : runs'[s] # runs[s] => ~row[s].paused
  <2> SUFFICES ASSUME NEW s \in Schedules, runs'[s] # runs[s]
               PROVE  ~row[s].paused
    OBVIOUS
  <2>1. PICK h \in Hosts : WriteTick(h)
    <3>1. ASSUME NEW h \in Hosts, Daemon(h), ~WriteTick(h)
          PROVE  runs' = runs
      BY <3>1 DEF Daemon, Wake, StopPass, FailTick, Crash, Boot, Start, Backfill, RecordGap,
                  MissedChunk, Ready, schedVars
    <3>2. ASSUME NEW x \in Schedules, Operator(x)
          PROVE  runs' = runs
      BY <3>2 DEF Operator, PauseSchedule, ResumeByDaemon, ResumeByCli, Resume, RemoveSchedule, AddSchedule
    <3>3. QED  BY <1>1, <3>1, <3>2 DEF Next, Advance, vars, schedVars
  <2>2. PICK d \in Oldest(h) : Commit(h, d)
    BY <2>1 DEF WriteTick
  <2>3. PICK v \in Admitted(d) : runs' = IF v = "triggered" THEN [runs EXCEPT ![d.sched][d.at] = @ + 1] ELSE runs
    BY <2>2 DEF Commit, schedVars
  <2>4. v = "triggered" /\ s = d.sched
    <3>1. v = "triggered"
      BY <2>3
    <3>2. s # d.sched => runs'[s] = runs[s]
      BY <1>1, <2>3, <3>1 DEF Inv, TypeOK
    <3>3. QED  BY <3>1, <3>2
  <2>5. QED  BY <2>4 DEF Admitted, StoodDown, Verdict
<1>2. QED  BY <1>1, SchedulerInvariant, PTL DEF Spec, NoRunWhilePaused

(* The passes, restarts and gap walks implement module TickLedger: one     *)
(* entry per fire-time, never rewritten except over "missed", and a run    *)
(* only together with the entry that says so.                              *)
THEOREM LedgerIsKept == Spec => LedgerHolds
<1> DEFINE Read(f) == [s \in Schedules |-> [t \in Times |-> Entry(f[s][t])]]
<1>1. Init => Ledger!Init
  BY DEF Init, Ledger!Init, Entry
<1>2. ASSUME Inv, [Next]_vars
      PROVE  [Ledger!Next]_Ledger!ledger
  <2>0. /\ tick \in [Schedules -> [Times -> Outcomes \cup {"none"}]]
        /\ runs \in [Schedules -> [Times -> Nat]]
    BY <1>2 DEF Inv, TypeOK
  <2>1. CASE UNCHANGED <<tick, runs>>
    BY <2>1 DEF Ledger!ledger
  <2>2. ASSUME NEW h \in Hosts, NEW d \in Oldest(h), Commit(h, d)
        PROVE  [Ledger!Next]_Ledger!ledger
    <3>1. d \in Decisions
      BY <1>2 DEF Oldest, Inv, TypeOK
    <3>2. /\ d.sched \in Schedules /\ d.at \in Times
          /\ d.outcome \in Foldable \cup {"triggered", "error"}
      BY <3>1 DEF Decisions
    <3>3. CASE Claims(d) /\ \E v \in Admitted(d) :
                  /\ tick' = [tick EXCEPT ![d.sched][d.at] = v]
                  /\ runs' = IF v = "triggered" THEN [runs EXCEPT ![d.sched][d.at] = @ + 1] ELSE runs
      <4>1. PICK v \in Admitted(d) :
                  /\ tick' = [tick EXCEPT ![d.sched][d.at] = v]
                  /\ runs' = IF v = "triggered" THEN [runs EXCEPT ![d.sched][d.at] = @ + 1] ELSE runs
        BY <3>3
      <4>2. v \in Foldable \cup {"triggered", "shadow", "error", "held"}
        BY <3>2 DEF Admitted, StoodDown, Verdict, Foldable
      <4>3. Read(tick)[d.sched][d.at] \in {"open", "missed"}
        BY <3>2, <3>3 DEF Claims, Free, Entry
      <4>4. Read(tick') = [Read(tick) EXCEPT ![d.sched][d.at] = Entry(v)]
        BY <2>0, <3>2, <4>1
      <4>5. Entry(v) = IF v = "triggered" THEN "run" ELSE "stood"
        BY <4>2 DEF Entry, Foldable
      <4>6. Ledger!Decide(d.sched, d.at)
        BY <4>1, <4>3, <4>4, <4>5 DEF Ledger!Decide
      <4>7. QED  BY <3>2, <4>6 DEF Ledger!Next
    <3>4. QED  BY <2>1, <2>2, <3>3 DEF Commit, schedVars
  <2>3. ASSUME NEW h \in Hosts, MissedChunk(h)
        PROVE  [Ledger!Next]_Ledger!ledger
    <3> DEFINE fresh == {x \in Earliest(fill[h].slots) : ~Ignored(x)}
    <3>1. /\ tick' = [s \in Schedules |-> [t \in Times |->
                         IF <<s, t>> \in fresh THEN "missed" ELSE tick[s][t]]]
          /\ runs' = runs
      BY <2>3 DEF MissedChunk
    <3>2. fresh \in SUBSET {x \in Schedules \X Times : Read(tick)[x[1]][x[2]] = "open"}
      <4>1. fresh \subseteq Schedules \X Times
        BY <1>2 DEF Earliest, Inv, TypeOK
      <4>2. ASSUME NEW x \in fresh
            PROVE  Read(tick)[x[1]][x[2]] = "open"
        <5>1. x[1] \in Schedules /\ x[2] \in Times /\ tick[x[1]][x[2]] = "none"
          BY <4>1 DEF Ignored
        <5>2. QED  BY <5>1 DEF Entry
      <4>3. QED  BY <4>1, <4>2
    <3> HIDE DEF fresh
    <3>3. Read(tick') = [s \in Schedules |-> [t \in Times |->
                            IF <<s, t>> \in fresh THEN "missed" ELSE Read(tick)[s][t]]]
      BY <3>1 DEF Entry
    <3>4. Ledger!Miss
      BY <3>1, <3>2, <3>3 DEF Ledger!Miss
    <3>5. QED  BY <3>4 DEF Ledger!Next
  <2>4. ASSUME NEW h \in Hosts, Daemon(h), ~WriteTick(h), ~MissedChunk(h)
        PROVE  UNCHANGED <<tick, runs>>
    BY <2>4 DEF Daemon, Wake, StopPass, FailTick, Crash, Boot, Start, Backfill, RecordGap,
                Ready, schedVars
  <2>5. ASSUME NEW x \in Schedules, Operator(x)
        PROVE  UNCHANGED <<tick, runs>>
    BY <2>5 DEF Operator, PauseSchedule, ResumeByDaemon, ResumeByCli, Resume, RemoveSchedule, AddSchedule
  <2>6. CASE Advance \/ UNCHANGED vars
    BY <2>1, <2>6 DEF Advance, vars, schedVars
  <2>7. QED  BY <1>2, <2>1, <2>2, <2>3, <2>4, <2>5, <2>6 DEF Next, WriteTick
<1>3. QED  BY <1>1, <1>2, SchedulerInvariant, PTL DEF Spec, LedgerHolds, Ledger!Spec

-----------------------------------------------------------------------------
(***************************************************************************)
(* Cron: the iterator the timetables above come from.  Its field jumps are *)
(* proved to miss nothing and to stop nowhere else, forwards and back, in  *)
(* any calendar: what is awaited is never behind the walk, every turn goes *)
(* to a later day, and there are more turns than days.                     *)
(***************************************************************************)

(* A set that holds 0 and with a number the next holds all up to n.        *)
LEMMA AllUpTo ==
    ASSUME NEW n \in Nat, NEW T, 0 \in T, \A i \in 0..n : i \in T /\ i < n => i + 1 \in T
    PROVE  0..n \subseteq T
<1> DEFINE M == {i \in 0..n : i \notin T}
<1> SUFFICES ASSUME M # {} PROVE FALSE
  OBVIOUS
<1>1. PICK m \in M : \A x \in M : m <= x
  <2>1. M \in SUBSET Nat
    OBVIOUS
  <2> HIDE DEF M
  <2>2. QED  BY <2>1, MinIsIn
<1>2. m # 0 /\ m - 1 \in 0..n /\ m - 1 \notin M
  BY <1>1
<1>3. QED  BY <1>2

(* Two numbers written in two digits compare as their digits do.           *)
LEMMA Digits ==
    ASSUME NEW B \in Nat, NEW a \in Nat, NEW c \in Nat, NEW b \in 0..(B - 1), NEW d \in 0..(B - 1)
    PROVE  a * B + b < c * B + d <=> a < c \/ (a = c /\ b < d)
<1>0. a * B \in Nat /\ c * B \in Nat
  OBVIOUS
<1>1. CASE a < c
  <2>1. PICK k \in Nat : c = a + 1 + k
    <3>1. c - a - 1 \in Nat
      BY <1>1
    <3>2. c = a + 1 + (c - a - 1)
      OBVIOUS
    <3>3. QED  BY <3>1, <3>2
  <2>2. c * B = a * B + B + k * B /\ k * B \in Nat
    BY <2>1
  <2>3. QED  BY <1>0, <1>1, <2>2
<1>2. CASE a = c
  BY <1>2, <1>0
<1>3. CASE c < a
  <2>1. PICK k \in Nat : a = c + 1 + k
    <3>1. a - c - 1 \in Nat
      BY <1>3
    <3>2. a = c + 1 + (a - c - 1)
      OBVIOUS
    <3>3. QED  BY <3>1, <3>2
  <2>2. a * B = c * B + B + k * B /\ k * B \in Nat
    BY <2>1
  <2>3. QED  BY <1>0, <1>3, <2>2
<1>4. QED  BY <1>1, <1>2, <1>3

(* Wall clocks in the order of their fields, the coarsest first.           *)
Before(v, w) ==
    \/ v.y < w.y
    \/ v.y = w.y /\ v.mo < w.mo
    \/ v.y = w.y /\ v.mo = w.mo /\ v.d < w.d
    \/ v.y = w.y /\ v.mo = w.mo /\ v.d = w.d /\ v.h < w.h
    \/ v.y = w.y /\ v.mo = w.mo /\ v.d = w.d /\ v.h = w.h /\ v.mi < w.mi

Clock == [y : Nat, mo : Nat, d : Nat, h : Nat, mi : Nat]

(* A wall clock has its fields in their ranges.                            *)
LEMMA WallFields ==
    ASSUME NEW w \in WallPoints
    PROVE  /\ w \in Clock
           /\ w.y \in 1..Years /\ w.mo \in 1..Months /\ w.d \in 1..MaxDay
           /\ w.h \in 0..HoursPerDay - 1 /\ w.mi \in 0..Hour - 1
           /\ w.d <= LastDay[w.y][w.mo]
           /\ w = [y |-> w.y, mo |-> w.mo, d |-> w.d, h |-> w.h, mi |-> w.mi]
BY CalendarAssumption DEF WallPoints, Hour, Clock

(* A day there is, with an hour and a minute, is a wall clock.             *)
LEMMA IsWallPoint ==
    ASSUME NEW y \in 1..Years, NEW mo \in 1..Months, NEW d \in 1..LastDay[y][mo],
           NEW h \in 0..HoursPerDay - 1, NEW mi \in 0..Hour - 1
    PROVE  [y |-> y, mo |-> mo, d |-> d, h |-> h, mi |-> mi] \in WallPoints
<1>1. LastDay[y][mo] \in 1..MaxDay
  BY CalendarAssumption
<1>2. d \in 1..MaxDay
  BY <1>1, CalendarAssumption
<1>3. QED  BY <1>2 DEF WallPoints

(* The ordinal keeps that order.                                           *)
LEMMA OrdinalOrder ==
    ASSUME NEW v \in WallPoints, NEW w \in WallPoints
    PROVE  /\ WallOrdinal(v) \in Nat /\ WallOrdinal(w) \in Nat
           /\ WallOrdinal(v) < WallOrdinal(w) <=> Before(v, w)
<1> DEFINE a1 == v.y * (Months + 1) + v.mo
           b1 == w.y * (Months + 1) + w.mo
           a2 == a1 * (MaxDay + 1) + v.d
           b2 == b1 * (MaxDay + 1) + w.d
           a3 == a2 * HoursPerDay + v.h
           b3 == b2 * HoursPerDay + w.h
<1>0. Months \in Nat \ {0} /\ MaxDay \in Nat \ {0} /\ HoursPerDay \in Nat \ {0} /\ Years \in Nat
  BY CalendarAssumption
<1>1. /\ v.y \in Nat /\ v.mo \in 0..(Months + 1) - 1 /\ v.d \in 0..(MaxDay + 1) - 1
      /\ v.h \in 0..HoursPerDay - 1 /\ v.mi \in 0..Hour - 1
  BY <1>0, WallFields
<1>2. /\ w.y \in Nat /\ w.mo \in 0..(Months + 1) - 1 /\ w.d \in 0..(MaxDay + 1) - 1
      /\ w.h \in 0..HoursPerDay - 1 /\ w.mi \in 0..Hour - 1
  BY <1>0, WallFields
<1>3. a1 \in Nat /\ b1 \in Nat
  BY <1>0, <1>1, <1>2
<1>4. a1 < b1 <=> v.y < w.y \/ (v.y = w.y /\ v.mo < w.mo)
  BY <1>0, <1>1, <1>2, Digits
<1>5. b1 < a1 <=> w.y < v.y \/ (w.y = v.y /\ w.mo < v.mo)
  BY <1>0, <1>1, <1>2, Digits
<1> HIDE DEF a1, b1
<1>6. a2 \in Nat /\ b2 \in Nat
  BY <1>0, <1>1, <1>2, <1>3
<1>7. a2 < b2 <=> a1 < b1 \/ (a1 = b1 /\ v.d < w.d)
  BY <1>0, <1>1, <1>2, <1>3, Digits
<1>8. b2 < a2 <=> b1 < a1 \/ (b1 = a1 /\ w.d < v.d)
  BY <1>0, <1>1, <1>2, <1>3, Digits
<1>9. WallOrdinal(v) = a3 * Hour + v.mi /\ WallOrdinal(w) = b3 * Hour + w.mi
  BY DEF WallOrdinal, a1, b1
<1> HIDE DEF a2, b2
<1>10. a3 \in Nat /\ b3 \in Nat
  BY <1>0, <1>1, <1>2, <1>6
<1>11. a3 < b3 <=> a2 < b2 \/ (a2 = b2 /\ v.h < w.h)
  BY <1>0, <1>1, <1>2, <1>6, Digits
<1>12. b3 < a3 <=> b2 < a2 \/ (b2 = a2 /\ w.h < v.h)
  BY <1>0, <1>1, <1>2, <1>6, Digits
<1> HIDE DEF a3, b3
<1>13. WallOrdinal(v) \in Nat /\ WallOrdinal(w) \in Nat
  BY <1>1, <1>2, <1>9, <1>10 DEF Hour
<1>14. WallOrdinal(v) < WallOrdinal(w) <=> a3 < b3 \/ (a3 = b3 /\ v.mi < w.mi)
  BY <1>1, <1>2, <1>9, <1>10, Digits DEF Hour
<1>15. a1 = b1 <=> v.y = w.y /\ v.mo = w.mo
  BY <1>1, <1>2, <1>3, <1>4, <1>5
<1>16. a2 = b2 <=> a1 = b1 /\ v.d = w.d
  BY <1>1, <1>2, <1>3, <1>6, <1>7, <1>8
<1>17. a3 = b3 <=> a2 = b2 /\ v.h = w.h
  BY <1>1, <1>2, <1>6, <1>10, <1>11, <1>12
<1>18. QED  BY <1>13, <1>14, <1>4, <1>7, <1>11, <1>15, <1>16, <1>17 DEF Before

-----------------------------------------------------------------------------
(* Where a jump can land: the first minute of an hour, or behind the last  *)
(* year.                                                                   *)
Starts == {w \in WallPoints : w.mi = 0} \cup {At(Years + 1, 1, 1, 0)}

(* x lies no later than w's month; w's day; w's hour.                      *)
ByMonth(x, w) == x.y < w.y \/ (x.y = w.y /\ x.mo <= w.mo)
ByDay(x, w)   == x.y < w.y \/ (x.y = w.y /\ (x.mo < w.mo \/ (x.mo = w.mo /\ x.d <= w.d)))
ByHour(x, w)  ==
    ByDay(x, w) /\ (x.y = w.y /\ x.mo = w.mo /\ x.d = w.d => x.h <= w.h)

(* On an earlier day.                                                      *)
Sooner(v, w) ==
    \/ v.y < w.y
    \/ v.y = w.y /\ v.mo < w.mo
    \/ v.y = w.y /\ v.mo = w.mo /\ v.d < w.d

(* The fields of the first minute of an hour, and of a later one.          *)
LEMMA AtFields ==
    \A y, mo, d, h : /\ At(y, mo, d, h).y = y /\ At(y, mo, d, h).mo = mo /\ At(y, mo, d, h).d = d
                     /\ At(y, mo, d, h).h = h /\ At(y, mo, d, h).mi = 0
BY DEF At

(* Another minute of that hour.                                            *)
LEMMA AtTimes ==
    ASSUME NEW y, NEW mo, NEW d, NEW h, NEW k
    PROVE  [At(y, mo, d, h) EXCEPT !.mi = k] = [y |-> y, mo |-> mo, d |-> d, h |-> h, mi |-> k]
BY DEF At

(* Where a jump lands the fields are numbers.                              *)
LEMMA StartsAreClocks == Starts \subseteq Clock
<1>1. At(Years + 1, 1, 1, 0) \in Clock
  BY CalendarAssumption DEF At, Clock
<1>2. QED  BY <1>1, WallFields DEF Starts

(* The first minute of an hour of a day there is.                          *)
LEMMA StartAt ==
    ASSUME NEW y \in 1..Years, NEW mo \in 1..Months, NEW d \in 1..LastDay[y][mo],
           NEW h \in 0..HoursPerDay - 1
    PROVE  At(y, mo, d, h) \in Starts /\ At(y, mo, d, h) \in WallPoints
<1>1. 0 \in 0..Hour - 1
  BY DEF Hour
<1>2. QED  BY <1>1, IsWallPoint DEF At, Starts

(* Every month has a first and a last day.                                 *)
LEMMA FirstDays ==
    \A y \in 1..Years, mo \in 1..Months :
        1 \in 1..LastDay[y][mo] /\ LastDay[y][mo] \in 1..LastDay[y][mo] /\ LastDay[y][mo] \in 1..MaxDay
BY CalendarAssumption

(* The carries: each goes to the first hour behind the month, the day or   *)
(* the hour it leaves.                                                     *)
LEMMA NextMonthIs ==
    ASSUME NEW w \in WallPoints
    PROVE  /\ NextMonth(w) \in Starts /\ Before(w, NextMonth(w)) /\ Sooner(w, NextMonth(w))
           /\ \A x \in WallPoints : Before(x, NextMonth(w)) <=> ByMonth(x, w)
<1>0. /\ Months \in Nat \ {0} /\ Years \in Nat \ {0} /\ HoursPerDay \in Nat \ {0}
      /\ 0 \in 0..HoursPerDay - 1 /\ 1 \in 1..Months
  BY CalendarAssumption
<1>1. w.y \in 1..Years /\ w.mo \in 1..Months
  BY WallFields
<1>2. CASE w.mo < Months
  <2>1. NextMonth(w) = At(w.y, w.mo + 1, 1, 0) /\ w.mo + 1 \in 1..Months
    BY <1>0, <1>1, <1>2 DEF NextMonth
  <2>2. NextMonth(w) \in Starts
    BY <1>0, <1>1, <2>1, FirstDays, StartAt
  <2>3. QED  BY <1>1, <2>1, <2>2, WallFields, AtFields DEF Before, Sooner, ByMonth, Clock
<1>3. CASE w.mo = Months
  <2>1. NextMonth(w) = At(w.y + 1, 1, 1, 0)
    BY <1>0, <1>1, <1>3 DEF NextMonth
  <2>2. NextMonth(w) \in Starts
    <3>1. CASE w.y = Years
      BY <2>1, <3>1 DEF Starts
    <3>2. CASE w.y # Years
      <4>1. w.y + 1 \in 1..Years
        BY <1>0, <1>1, <3>2
      <4>2. QED  BY <1>0, <2>1, <4>1, FirstDays, StartAt
    <3>3. QED  BY <3>1, <3>2
  <2>3. QED  BY <1>0, <1>1, <1>3, <2>1, <2>2, WallFields, AtFields DEF Before, Sooner, ByMonth, Clock
<1>4. QED  BY <1>0, <1>1, <1>2, <1>3

(* The carry to the next day.                                              *)
LEMMA NextDayIs ==
    ASSUME NEW w \in WallPoints
    PROVE  /\ NextDay(w) \in Starts /\ Before(w, NextDay(w)) /\ Sooner(w, NextDay(w))
           /\ \A x \in WallPoints : Before(x, NextDay(w)) <=> ByDay(x, w)
<1>0. HoursPerDay \in Nat \ {0} /\ 0 \in 0..HoursPerDay - 1
  BY CalendarAssumption
<1>1. /\ w.y \in 1..Years /\ w.mo \in 1..Months /\ w.d \in 1..MaxDay /\ w.d <= LastDay[w.y][w.mo]
      /\ LastDay[w.y][w.mo] \in 1..MaxDay
  BY WallFields, FirstDays
<1>2. CASE w.d < LastDay[w.y][w.mo]
  <2>1. NextDay(w) = At(w.y, w.mo, w.d + 1, 0) /\ w.d + 1 \in 1..LastDay[w.y][w.mo]
    BY <1>1, <1>2 DEF NextDay
  <2>2. NextDay(w) \in Starts
    BY <1>0, <1>1, <2>1, StartAt
  <2>3. QED  BY <1>1, <2>1, <2>2, WallFields, AtFields DEF Before, Sooner, ByDay, Clock
<1>3. CASE w.d = LastDay[w.y][w.mo]
  <2>1. NextDay(w) = NextMonth(w)
    BY <1>1, <1>3 DEF NextDay
  <2>2. ASSUME NEW x \in WallPoints
        PROVE  ByMonth(x, w) <=> ByDay(x, w)
    BY <1>1, <1>3, WallFields DEF ByMonth, ByDay, Clock
  <2>3. QED  BY <2>1, <2>2, NextMonthIs
<1>4. QED  BY <1>1, <1>2, <1>3

(* The carry to the next hour.                                             *)
LEMMA NextHourIs ==
    ASSUME NEW w \in WallPoints
    PROVE  /\ NextHour(w) \in Starts /\ Before(w, NextHour(w))
           /\ \A x \in WallPoints : Before(x, NextHour(w)) => ByHour(x, w)
<1>0. HoursPerDay \in Nat \ {0}
  BY CalendarAssumption
<1>1. /\ w.y \in 1..Years /\ w.mo \in 1..Months /\ w.d \in 1..LastDay[w.y][w.mo]
      /\ w.h \in 0..HoursPerDay - 1
  BY WallFields, FirstDays
<1>2. CASE w.h < HoursPerDay - 1
  <2>1. NextHour(w) = At(w.y, w.mo, w.d, w.h + 1) /\ w.h + 1 \in 0..HoursPerDay - 1
    BY <1>0, <1>1, <1>2 DEF NextHour
  <2>2. NextHour(w) \in Starts
    BY <1>1, <2>1, StartAt
  <2>3. QED  BY <1>1, <2>1, <2>2, WallFields, AtFields DEF Before, ByDay, ByHour, Clock
<1>3. CASE w.h = HoursPerDay - 1
  <2>1. NextHour(w) = NextDay(w)
    BY <1>0, <1>1, <1>3 DEF NextHour
  <2>2. ASSUME NEW x \in WallPoints, ByDay(x, w)
        PROVE  ByHour(x, w)
    BY <1>0, <1>1, <1>3, <2>2, WallFields DEF ByHour, Clock
  <2>3. QED  BY <2>1, <2>2, NextDayIs
<1>4. QED  BY <1>0, <1>1, <1>2, <1>3

-----------------------------------------------------------------------------
(* Forwards                                                                *)

(* Compiled fields hold numbers of their fields, the minutes at least one. *)
FieldsFit ==
    /\ compiled.hours \subseteq 0..HoursPerDay - 1
    /\ compiled.minutes \subseteq 0..Hour - 1 /\ compiled.minutes # {}

Awaited(x, from) == x \in WallPoints /\ Matches(x) /\ Before(from, x) /\ x.y <= LastYear(from)

(* The walk has skipped nothing that is awaited.                           *)
OnTheWay(p, from) ==
    p \in Starts /\ Before(from, p) /\ \A x \in WallPoints : Awaited(x, from) => ~Before(x, p)

Arrived(p, from) ==
    \/ Awaited(p, from) /\ \A x \in WallPoints : Awaited(x, from) => ~Before(x, p)
    \/ p = Nothing /\ \A x \in WallPoints : ~Awaited(x, from)

Going(from) ==
    {Onward(p) : p \in {q \in Starts : OnTheWay(q, from)}}
        \cup {Landed(p) : p \in {q \in WallPoints \cup {Nothing} : Arrived(q, from)}}

(* The day of a match is one the day fields name.                          *)
LEMMA DayOfMatch ==
    ASSUME NEW x \in WallPoints
    PROVE  DayMatches(x) <=> DayMatches(At(x.y, x.mo, x.d, 0))
<1> DEFINE a == At(x.y, x.mo, x.d, 0)
<1>1. a.y = x.y /\ a.mo = x.mo /\ a.d = x.d
  BY AtFields
<1> HIDE DEF a
<1>2. DayNumber(x) = DayNumber(a)
  BY <1>1 DEF DayNumber
<1>3. Weekday(x) = Weekday(a)
  BY <1>2 DEF Weekday
<1>4. QED  BY <1>1, <1>3 DEF DayMatches, a

(* How a match stands to a place that it does not come before.             *)
LEMMA NotBefore ==
    ASSUME NEW p \in WallPoints, p.mi = 0, NEW x \in WallPoints
    PROVE  ~Before(x, p) <=> \/ x.y > p.y
                             \/ x.y = p.y /\ x.mo > p.mo
                             \/ x.y = p.y /\ x.mo = p.mo /\ x.d > p.d
                             \/ x.y = p.y /\ x.mo = p.mo /\ x.d = p.d /\ x.h >= p.h
BY WallFields DEF Before, Clock

(* The order is transitive past a clock that is no earlier.                *)
LEMMA BeforeGoesOn ==
    ASSUME NEW a \in Clock, NEW b \in Clock, NEW c \in Clock, Before(a, b), ~Before(c, b)
    PROVE  Before(a, c)
BY DEF Before, Clock

(* A month that does not fit, or has no day left that does, holds nothing  *)
(* that is awaited.                                                        *)
LEMMA MonthIsPassed ==
    ASSUME NEW from \in WallPoints, NEW p \in WallPoints, OnTheWay(p, from), p.mi = 0,
           p.mo \notin compiled.months \/ NextDayIn(p) = {}
    PROVE  OnTheWay(NextMonth(p), from)
<1>1. ASSUME NEW x \in WallPoints, Awaited(x, from), Before(x, NextMonth(p))
      PROVE  FALSE
  <2>1. ~Before(x, p) /\ ByMonth(x, p)
    BY <1>1, NextMonthIs DEF OnTheWay
  <2>2. x.y = p.y /\ x.mo = p.mo /\ x.d >= p.d
    BY <2>1, WallFields, NotBefore DEF ByMonth, Clock
  <2>3. x.mo \in compiled.months /\ DayMatches(At(x.y, x.mo, x.d, 0))
    BY <1>1, DayOfMatch DEF Awaited, Matches
  <2>4. x.d \in p.d..LastDay[p.y][p.mo]
    BY <2>2, WallFields, FirstDays
  <2>5. x.d \in NextDayIn(p)
    BY <2>2, <2>3, <2>4 DEF NextDayIn
  <2>6. QED  BY <2>2, <2>3, <2>5
<1>2. Before(from, NextMonth(p)) /\ NextMonth(p) \in Starts
  <2>1. NextMonth(p) \in Starts /\ Before(p, NextMonth(p)) /\ Before(from, p)
    BY NextMonthIs DEF OnTheWay
  <2>2. NextMonth(p) \in Clock
    BY <2>1, StartsAreClocks
  <2>3. QED  BY <2>1, <2>2, WallFields DEF Before, Clock
<1>3. QED  BY <1>1, <1>2 DEF OnTheWay

(* The first day that fits and the hour to look from: what is awaited is   *)
(* not before them.                                                        *)
LEMMA DayIsFound ==
    ASSUME NEW from \in WallPoints, NEW p \in WallPoints, OnTheWay(p, from), p.mi = 0,
           p.mo \in compiled.months, NextDayIn(p) # {},
           NEW d, d = Min(NextDayIn(p)), NEW begin, begin = IF d # p.d THEN 0 ELSE p.h
    PROVE  /\ d \in 1..LastDay[p.y][p.mo] /\ d >= p.d /\ DayMatches(At(p.y, p.mo, d, 0))
           /\ begin \in 0..HoursPerDay - 1
           /\ \A h \in 0..HoursPerDay - 1, mi \in 0..Hour - 1 : h >= begin =>
                 ~Before([y |-> p.y, mo |-> p.mo, d |-> d, h |-> h, mi |-> mi], p)
           /\ \A x \in WallPoints : Awaited(x, from) /\ ByDay(x, At(p.y, p.mo, d, 0)) =>
                 x.y = p.y /\ x.mo = p.mo /\ x.d = d /\ x.h >= begin
<1>1. NextDayIn(p) \in SUBSET Nat
  BY WallFields, FirstDays DEF NextDayIn
<1>2. d \in NextDayIn(p) /\ \A e \in NextDayIn(p) : d <= e
  BY <1>1, MinIsIn
<1>3. d \in 1..LastDay[p.y][p.mo] /\ d >= p.d /\ DayMatches(At(p.y, p.mo, d, 0))
  BY <1>2, WallFields, FirstDays DEF NextDayIn
<1>4. begin \in 0..HoursPerDay - 1
  <2>1. HoursPerDay \in Nat \ {0}
    BY CalendarAssumption
  <2>2. p.h \in 0..HoursPerDay - 1
    BY WallFields
  <2>3. QED  BY <2>1, <2>2
<1>5. ASSUME NEW h \in 0..HoursPerDay - 1, NEW mi \in 0..Hour - 1, h >= begin
      PROVE  ~Before([y |-> p.y, mo |-> p.mo, d |-> d, h |-> h, mi |-> mi], p)
  <2>1. d \in Nat /\ p.d \in Nat /\ p.h \in Nat /\ h \in Nat /\ mi \in Nat
    BY <1>3, WallFields, FirstDays DEF Hour
  <2>2. d > p.d \/ (d = p.d /\ h >= p.h)
    BY <1>3, <1>5, <2>1
  <2>3. QED  BY <2>1, <2>2, WallFields DEF Before, Clock
<1>6. ASSUME NEW x \in WallPoints, Awaited(x, from), ByDay(x, At(p.y, p.mo, d, 0))
      PROVE  x.y = p.y /\ x.mo = p.mo /\ x.d = d /\ x.h >= begin
  <2>1. ~Before(x, p) /\ DayMatches(At(x.y, x.mo, x.d, 0))
    BY <1>6, DayOfMatch DEF OnTheWay, Awaited, Matches
  <2>2. x.y = p.y /\ x.mo = p.mo /\ x.d >= p.d /\ x.d <= d
    BY <1>3, <1>6, <2>1, WallFields, NotBefore, AtFields DEF ByDay, Clock
  <2>3. x.d \in NextDayIn(p)
    BY <2>1, <2>2, WallFields, FirstDays DEF NextDayIn
  <2>4. x.d = d
    BY <1>2, <1>3, <2>2, <2>3, WallFields
  <2>5. QED  BY <2>1, <2>2, <2>4, WallFields, NotBefore
<1>7. QED  BY <1>3, <1>4, <1>5, <1>6

(* A day without an hour left is passed.                                   *)
LEMMA DayIsPassed ==
    ASSUME NEW from \in WallPoints, NEW p \in WallPoints, OnTheWay(p, from), p.mi = 0, FieldsFit,
           p.mo \in compiled.months, NextDayIn(p) # {},
           NEW d, d = Min(NextDayIn(p)), NEW begin, begin = IF d # p.d THEN 0 ELSE p.h,
           {h \in compiled.hours : h >= begin} = {}
    PROVE  /\ OnTheWay(NextDay(At(p.y, p.mo, d, 0)), from)
           /\ Sooner(p, NextDay(At(p.y, p.mo, d, 0)))
<1> DEFINE a == At(p.y, p.mo, d, 0)
           n == NextDay(a)
<1>1. /\ d \in 1..LastDay[p.y][p.mo] /\ d >= p.d
      /\ \A x \in WallPoints : Awaited(x, from) /\ ByDay(x, a) => x.h >= begin
  BY DayIsFound
<1>2. a \in WallPoints
  <2>1. 0 \in 0..HoursPerDay - 1
    BY CalendarAssumption
  <2>2. QED  BY <1>1, <2>1, WallFields, StartAt
<1>3. n \in Starts /\ Before(a, n) /\ Sooner(a, n) /\ \A x \in WallPoints : Before(x, n) => ByDay(x, a)
  BY <1>2, NextDayIs
<1>4. ASSUME NEW x \in WallPoints, Awaited(x, from), Before(x, n)
      PROVE  FALSE
  <2>1. x.h >= begin /\ x.h \in compiled.hours
    BY <1>1, <1>3, <1>4 DEF Awaited, Matches
  <2>2. QED  BY <2>1
<1>5. Before(from, n) /\ Sooner(p, n)
  <2>1. n \in Clock /\ p \in Clock /\ from \in Clock /\ a \in Clock
    BY <1>2, <1>3, WallFields, StartsAreClocks
  <2>2. Before(p, n)
    <3>1. ByDay(p, a)
      BY <1>1, <2>1, AtFields DEF ByDay, Clock
    <3>2. QED  BY <1>2, <3>1, NextDayIs
  <2>3. Sooner(p, n)
    <3>1. d \in Nat
      BY <1>1, WallFields, FirstDays
    <3>2. QED  BY <1>1, <1>3, <2>1, <3>1, AtFields DEF Sooner, Clock
  <2>4. QED  BY <2>1, <2>2, <2>3 DEF OnTheWay, Before, Clock
<1>6. QED  BY <1>3, <1>4, <1>5 DEF OnTheWay

(* The first hour that fits, and its first minute that does, are the match *)
(* looked for.                                                             *)
LEMMA HourIsFound ==
    ASSUME NEW from \in WallPoints, NEW p \in WallPoints, OnTheWay(p, from), p.mi = 0, FieldsFit,
           p.y <= LastYear(from),
           p.mo \in compiled.months, NextDayIn(p) # {},
           NEW d, d = Min(NextDayIn(p)), NEW begin, begin = IF d # p.d THEN 0 ELSE p.h,
           NEW later, later = {h \in compiled.hours : h >= begin}, later # {}
    PROVE  LET r == [At(p.y, p.mo, d, Min(later)) EXCEPT !.mi = Min(compiled.minutes)]
           IN  r \in WallPoints /\ Arrived(r, from)
<1> DEFINE h == Min(later)
           mi == Min(compiled.minutes)
           r == [y |-> p.y, mo |-> p.mo, d |-> d, h |-> h, mi |-> mi]
<1>1. h \in later /\ \A k \in later : h <= k
  <2>1. later \in SUBSET Nat
    BY DEF FieldsFit
  <2>2. QED  BY <2>1, MinIsIn
<1>2. mi \in compiled.minutes /\ \A k \in compiled.minutes : mi <= k
  BY MinIsIn DEF FieldsFit, Hour
<1> HIDE DEF h, mi
<1>3. /\ d \in 1..LastDay[p.y][p.mo] /\ d >= p.d /\ DayMatches(At(p.y, p.mo, d, 0))
      /\ begin \in 0..HoursPerDay - 1
      /\ \A k \in 0..HoursPerDay - 1, m \in 0..Hour - 1 : k >= begin =>
            ~Before([y |-> p.y, mo |-> p.mo, d |-> d, h |-> k, mi |-> m], p)
      /\ \A x \in WallPoints : Awaited(x, from) /\ ByDay(x, At(p.y, p.mo, d, 0)) =>
            x.y = p.y /\ x.mo = p.mo /\ x.d = d /\ x.h >= begin
  BY DayIsFound
<1>4. h \in 0..HoursPerDay - 1 /\ mi \in 0..Hour - 1 /\ h >= begin /\ h \in compiled.hours
  BY <1>1, <1>2 DEF FieldsFit
<1>5. r \in WallPoints
  BY <1>3, <1>4, WallFields, IsWallPoint
<1>6. r.y = p.y /\ r.mo = p.mo /\ r.d = d /\ r.h = h /\ r.mi = mi
  OBVIOUS
<1> HIDE DEF r
<1>7. Matches(r)
  BY <1>2, <1>3, <1>4, <1>5, <1>6, DayOfMatch DEF Matches
<1>8. Before(from, r)
  <2>1. ~Before(r, p) /\ Before(from, p)
    BY <1>3, <1>4 DEF OnTheWay, r
  <2>2. QED  BY <1>5, <2>1, WallFields, BeforeGoesOn
<1>9. ASSUME NEW x \in WallPoints, Awaited(x, from), Before(x, r)
      PROVE  FALSE
  <2>1. ByDay(x, At(p.y, p.mo, d, 0))
    BY <1>5, <1>6, <1>9, WallFields, AtFields DEF Before, ByDay, Clock
  <2>2. x.y = p.y /\ x.mo = p.mo /\ x.d = d /\ x.h >= begin
    BY <1>3, <1>9, <2>1
  <2>3. x.h \in later /\ x.mi \in compiled.minutes
    BY <1>9, <2>2 DEF Awaited, Matches
  <2>4. h <= x.h /\ mi <= x.mi
    BY <1>1, <1>2, <2>3
  <2>5. QED  BY <1>5, <1>6, <1>9, <2>2, <2>4, WallFields DEF Before, Clock
<1>10. [At(p.y, p.mo, d, Min(later)) EXCEPT !.mi = Min(compiled.minutes)] = r
  BY AtTimes DEF h, mi, r
<1>11. QED  BY <1>5, <1>6, <1>7, <1>8, <1>9, <1>10 DEF Arrived, Awaited

(* Days are counted by a rank that an earlier day has less of.             *)
Rank(p)  == ((p.y - 1) * Months + (p.mo - 1)) * MaxDay + (p.d - 1)
Ranks    == Years * Months * MaxDay

(* An earlier day has the lower rank.                                      *)
LEMMA RankGrows ==
    ASSUME NEW p \in Clock, NEW q \in Clock, p.y >= 1, q.y >= 1, p.mo \in 1..Months, q.mo \in 1..Months,
           p.d \in 1..MaxDay, q.d \in 1..MaxDay, Sooner(p, q)
    PROVE  Rank(p) \in Nat /\ Rank(q) \in Nat /\ Rank(p) < Rank(q)
<1>0. Months \in Nat \ {0} /\ MaxDay \in Nat \ {0}
  BY CalendarAssumption
<1> DEFINE a == p.y - 1
           b == p.mo - 1
           c == q.y - 1
           e == q.mo - 1
           f == p.d - 1
           g == q.d - 1
           s == a * Months + b
           t == c * Months + e
<1>1. a \in Nat /\ c \in Nat /\ b \in 0..Months - 1 /\ e \in 0..Months - 1
      /\ f \in 0..MaxDay - 1 /\ g \in 0..MaxDay - 1
  BY <1>0 DEF Clock
<1>2. a < c \/ (a = c /\ b < e) \/ (a = c /\ b = e /\ f < g)
  BY <1>0 DEF Sooner, Clock
<1>3. Rank(p) = s * MaxDay + f /\ Rank(q) = t * MaxDay + g
  BY DEF Rank
<1> HIDE DEF a, b, c, e, f, g
<1>4. s \in Nat /\ t \in Nat /\ (s < t <=> a < c \/ (a = c /\ b < e))
  BY <1>0, <1>1, Digits
<1>5. a = c /\ b = e => s = t
  OBVIOUS
<1> HIDE DEF s, t
<1>6. s * MaxDay + f < t * MaxDay + g <=> s < t \/ (s = t /\ f < g)
  BY <1>0, <1>1, <1>4, Digits
<1>7. s * MaxDay + f \in Nat /\ t * MaxDay + g \in Nat
  BY <1>0, <1>1, <1>4
<1>8. QED  BY <1>2, <1>3, <1>4, <1>5, <1>6, <1>7

(* The loop has more turns than the calendar has days.                     *)
LEMMA HopsSuffice == Hops \in Nat /\ Ranks \in Nat /\ Ranks + 1 < Hops
<1>1. Years \in Nat \ {0} /\ Months \in Nat \ {0} /\ MaxDay \in Nat \ {0}
  BY CalendarAssumption
<1>2. Years * (Months + 1) = Years * Months + Years /\ Years * Months \in Nat
  BY <1>1
<1>3. Hops = (Years * Months + Years) * (MaxDay + 1)
  BY <1>2 DEF Hops
<1>4. (Years * Months + Years) * (MaxDay + 1)
        = Years * Months * MaxDay + Years * MaxDay + (Years * Months + Years)
      /\ Years * Months * MaxDay \in Nat /\ Years * MaxDay \in Nat
  BY <1>1, <1>2
<1>5. QED  BY <1>1, <1>2, <1>3, <1>4 DEF Ranks

(* No start ranks above the end of the calendar.                           *)
LEMMA RankIsBounded ==
    ASSUME NEW p \in Starts
    PROVE  /\ p \in Clock /\ p.y >= 1 /\ p.mo \in 1..Months /\ p.d \in 1..MaxDay
           /\ Rank(p) \in Nat /\ Rank(p) <= Ranks /\ (p \in WallPoints => Rank(p) < Ranks)
<1> DEFINE e == At(Years + 1, 1, 1, 0)
<1>0. Years \in Nat \ {0} /\ Months \in Nat \ {0} /\ MaxDay \in Nat \ {0}
  BY CalendarAssumption
<1>1. e \in Starts /\ e \in Clock /\ e.y = Years + 1 /\ e.mo = 1 /\ e.d = 1
  BY StartsAreClocks, AtFields DEF Starts
<1>2. Rank(e) = Ranks
  <2>1. (Years + 1) - 1 = Years /\ 1 - 1 = 0
    BY <1>0
  <2>2. Years * Months + 0 = Years * Months /\ Years * Months \in Nat
    BY <1>0
  <2>3. Rank(e) = (Years * Months + 0) * MaxDay + 0
    BY <1>1, <2>1 DEF Rank
  <2>4. Years * Months * MaxDay \in Nat
    BY <1>0, <2>2
  <2>5. QED  BY <2>2, <2>3, <2>4 DEF Ranks
<1> HIDE DEF e
<1>3. CASE p = e
  <2>1. p \notin WallPoints
    BY <1>0, <1>1, <1>3, WallFields
  <2>2. QED  BY <1>0, <1>1, <1>2, <1>3, <2>1, HopsSuffice
<1>4. CASE p \in WallPoints
  <2>1. p \in Clock /\ p.y >= 1 /\ p.mo \in 1..Months /\ p.d \in 1..MaxDay /\ p.y < e.y
    BY <1>0, <1>1, <1>4, WallFields
  <2>2. Sooner(p, e)
    BY <2>1 DEF Sooner
  <2>3. Rank(p) \in Nat /\ Rank(p) < Rank(e)
    BY <1>0, <1>1, <2>1, <2>2, RankGrows
  <2>4. QED  BY <1>2, <2>1, <2>3, HopsSuffice
<1>5. QED  BY <1>3, <1>4 DEF Starts, e

(* The loop is under way at a start that skipped nothing, or has arrived.  *)
LEMMA Turns ==
    ASSUME NEW from
    PROVE  /\ \A p : Onward(p).done = FALSE /\ Onward(p).w = p /\ Landed(p).done = TRUE /\ Landed(p).w = p
           /\ \A p \in Starts : OnTheWay(p, from) => Onward(p) \in Going(from)
           /\ \A p \in WallPoints \cup {Nothing} : Arrived(p, from) => Landed(p) \in Going(from)
           /\ \A acc \in Going(from) : acc.done \in BOOLEAN
           /\ \A acc \in Going(from) : ~acc.done => acc.done = FALSE /\ acc.w \in Starts
           /\ \A acc \in Going(from) : acc.done =>
                 acc.w \in WallPoints \cup {Nothing} /\ Arrived(acc.w, from)
<1>1. \A p : Onward(p).done = FALSE /\ Onward(p).w = p /\ Landed(p).done = TRUE /\ Landed(p).w = p
  BY DEF Onward, Landed
<1>2. QED  BY <1>1 DEF Going

(* The years a search looks at are years of the calendar.                  *)
LEMMA SearchedYears ==
    ASSUME NEW from \in WallPoints
    PROVE  /\ LastYear(from) \in Nat /\ LastYear(from) <= Years /\ from.y <= LastYear(from)
           /\ FirstYear(from) \in Nat /\ 1 <= FirstYear(from) /\ FirstYear(from) <= from.y
           /\ \A x \in WallPoints : x.y <= LastYear(from) <=> x.y <= from.y + Reach
           /\ \A x \in WallPoints : FirstYear(from) <= x.y <=> from.y - Reach <= x.y
<1>1. Reach \in Nat /\ Years \in Nat
  BY CalendarAssumption
<1>2. \A x \in WallPoints : x.y \in 1..Years
  BY WallFields
<1>3. QED  BY <1>1, <1>2 DEF LastYear, FirstYear

(* One turn of the loop goes on to a later day or has arrived.             *)
LEMMA TurnGoesOn ==
    ASSUME NEW from \in WallPoints, FieldsFit, NEW acc \in Going(from)
    PROVE  /\ Turn(acc, LastYear(from)) \in Going(from)
           /\ acc.done \in BOOLEAN
           /\ ~Turn(acc, LastYear(from)).done => ~acc.done /\ acc.w \in Starts /\ Turn(acc, LastYear(from)).w \in Starts
                                 /\ Sooner(acc.w, Turn(acc, LastYear(from)).w)
<1>1. CASE acc.done
  BY <1>1 DEF Turn, Going, Onward, Landed
<1>2. CASE ~acc.done
  <2>1. PICK p \in Starts : OnTheWay(p, from) /\ acc = Onward(p)
    BY <1>2 DEF Going, Landed
  <2>2. Turn(acc, LastYear(from)) = Hop(p, LastYear(from)) /\ acc.w = p /\ acc.done = FALSE
    BY <2>1 DEF Turn, Onward
  <2>0. /\ LastYear(from) \in Nat /\ LastYear(from) <= Years
        /\ p \in Clock /\ (p \notin WallPoints => p.y > LastYear(from))
    <3>1. LastYear(from) \in Nat /\ LastYear(from) <= Years
      BY SearchedYears
    <3>2. p \in Clock
      BY <2>1, StartsAreClocks
    <3>3. p \notin WallPoints => p.y = Years + 1
      BY AtFields DEF Starts
    <3>4. QED  BY <3>1, <3>2, <3>3, CalendarAssumption
  <2>3. CASE p.y > LastYear(from)
    <3>2. Hop(p, LastYear(from)) = Landed(Nothing)
      BY <2>3 DEF Hop
    <3>3. Arrived(Nothing, from)
      <4>1. \A x \in WallPoints : Awaited(x, from) => Before(x, p)
        <5> SUFFICES ASSUME NEW x \in WallPoints, x.y <= LastYear(from) PROVE x.y < p.y
          BY DEF Before, Awaited
        <5>1. x.y \in Nat /\ p.y \in Nat
          BY <2>0, WallFields DEF Clock
        <5>2. QED  BY <2>0, <2>3, <5>1
      <4>2. QED  BY <2>1, <4>1 DEF Arrived, OnTheWay
    <3>4. Landed(Nothing) \in Going(from) /\ Landed(Nothing).done = TRUE
      BY <3>3, Turns
    <3>5. Turn(acc, LastYear(from)).done = TRUE /\ Turn(acc, LastYear(from)) \in Going(from) /\ acc.done = FALSE
      BY <2>2, <3>2, <3>4
    <3>6. QED  BY <3>5
  <2>4. CASE ~(p.y > LastYear(from))
    <3>0. p \in WallPoints /\ p.mi = 0 /\ p.y <= LastYear(from)
      <4>1. p \in WallPoints /\ p.y <= LastYear(from)
        BY <2>0, <2>4 DEF Clock
      <4>2. p # At(Years + 1, 1, 1, 0)
        BY <4>1, WallFields, AtFields, CalendarAssumption
      <4>3. QED  BY <2>1, <4>1, <4>2 DEF Starts
    <3>1. CASE p.mo \notin compiled.months \/ NextDayIn(p) = {}
      <4>1. Hop(p, LastYear(from)) = Onward(NextMonth(p))
        BY <2>4, <3>1 DEF Hop
      <4>2. OnTheWay(NextMonth(p), from) /\ Sooner(p, NextMonth(p))
        BY <2>1, <3>0, <3>1, MonthIsPassed, NextMonthIs
      <4>3. NextMonth(p) \in Starts
        BY <4>2 DEF OnTheWay
      <4>4. /\ Onward(NextMonth(p)) \in Going(from) /\ Onward(NextMonth(p)).done = FALSE
            /\ Onward(NextMonth(p)).w = NextMonth(p)
        BY <4>2, <4>3, Turns
      <4>5. QED  BY <2>1, <2>2, <4>1, <4>2, <4>3, <4>4
    <3>2. CASE p.mo \in compiled.months /\ NextDayIn(p) # {}
      <4> DEFINE d == Min(NextDayIn(p))
                 begin == IF d # p.d THEN 0 ELSE p.h
                 later == {h \in compiled.hours : h >= begin}
                 r == [At(p.y, p.mo, d, Min(later)) EXCEPT !.mi = Min(compiled.minutes)]
                 n == NextDay(At(p.y, p.mo, d, 0))
      <4>1. Hop(p, LastYear(from)) = IF later = {} THEN Onward(n) ELSE Landed(r)
        BY <2>4, <3>2 DEF Hop
      <4>2. CASE later = {}
        <5>1. OnTheWay(n, from) /\ Sooner(p, n)
          BY <2>1, <3>0, <3>2, <4>2, DayIsPassed
        <5> HIDE DEF n, later
        <5>2. n \in Starts
          BY <5>1 DEF OnTheWay
        <5>3. Onward(n) \in Going(from) /\ Onward(n).done = FALSE /\ Onward(n).w = n
          BY <5>1, <5>2, Turns
        <5>4. QED  BY <2>1, <2>2, <4>1, <4>2, <5>1, <5>2, <5>3
      <4>3. CASE later # {}
        <5>1. r \in WallPoints /\ Arrived(r, from)
          BY <2>1, <3>0, <3>2, <4>3, HourIsFound
        <5> HIDE DEF r, later
        <5>2. QED  BY <2>2, <4>1, <4>3, <5>1, Turns
      <4>4. QED  BY <4>2, <4>3
    <3>3. QED  BY <3>1, <3>2
  <2>5. QED  BY <2>3, <2>4
<1>3. QED  BY <1>1, <1>2

(* A turn can be taken any number of times.                                *)
IsTurn(F, Y) == F \in [Y -> Y]

Taken(g, Y, b, F, n) ==
    g \in [0..n -> Y] /\ g[0] = b /\ \A k \in 1..n : g[k] = F[g[k - 1]]

(* The turns one after another are a function of their number.             *)
LEMMA TurnsExist ==
    ASSUME NEW Y, NEW b \in Y, NEW F, IsTurn(F, Y), NEW n \in Nat
    PROVE  \E g : Taken(g, Y, b, F, n)
<1> DEFINE Some(g, m) == g[0] = b /\ \A k \in 1..m : g[k] = F[g[k - 1]]
           T == {m \in 0..n : \E g \in [0..m -> Y] : Some(g, m)}
<1>1. 0 \in T
  <2> DEFINE h == [i \in 0..0 |-> b]
  <2>1. h \in [0..0 -> Y] /\ Some(h, 0)
    OBVIOUS
  <2>2. \E g \in [0..0 -> Y] : Some(g, 0)
    <3> HIDE DEF h, Some
    <3>1. QED  BY <2>1
  <2>3. QED  BY <2>2
<1>2. ASSUME NEW i \in 0..n, i \in T, i < n
      PROVE  i + 1 \in T
  <2>1. PICK g \in [0..i -> Y] : Some(g, i)
    BY <1>2
  <2> DEFINE next == F[g[i]]
             h == [k \in 0..(i + 1) |-> IF k = i + 1 THEN next ELSE g[k]]
  <2>2. next \in Y /\ i \in Nat
    BY DEF IsTurn
  <2>3. Some(h, i + 1)
    <3>1. h[0] = b
      BY <2>1, <2>2
    <3>2. ASSUME NEW k \in 1..(i + 1)
          PROVE  h[k] = F[h[k - 1]]
      <4>1. h[k - 1] = g[k - 1] /\ k \in 0..(i + 1)
        BY <2>2
      <4>2. CASE k = i + 1
        <5>1. h[k] = next /\ k - 1 = i
          BY <4>1, <4>2
        <5> HIDE DEF h
        <5>2. QED  BY <4>1, <4>2, <5>1
      <4>3. CASE k # i + 1
        <5>1. k \in 1..i
          BY <2>2, <4>3
        <5>2. QED  BY <2>1, <4>1, <4>3, <5>1
      <4>4. QED  BY <4>2, <4>3
    <3>3. QED  BY <3>1, <3>2
  <2>4. h \in [0..(i + 1) -> Y]
    <3> HIDE DEF next
    <3>1. QED  BY <2>2
  <2>5. \E f \in [0..(i + 1) -> Y] : Some(f, i + 1)
    <3> HIDE DEF h, Some
    <3>1. QED  BY <2>3, <2>4
  <2>6. i + 1 \in 0..n
    BY <1>2
  <2>7. QED
    <3> HIDE DEF Some
    <3>1. QED  BY <2>5, <2>6
<1>3. n \in T
  <2> HIDE DEF T
  <2>1. 0..n \subseteq T
    BY <1>1, <1>2, AllUpTo
  <2>2. QED  BY <2>1
<1>4. QED  BY <1>3 DEF Taken

(* A loop whose turns raise a rank that ends below n is done after n.      *)
Climbs(R, Y, F, D, m) ==
    /\ R \in [Y -> Nat]
    /\ \A y \in Y : y \notin D => R[y] <= m
    /\ \A y \in Y : F[y] \notin D => y \notin D /\ R[y] < R[F[y]]

Follows(f, Y, b, F, n) == f[0] = b /\ \A k \in 1..n : f[k - 1] \in Y => f[k] = F[f[k - 1]]

(* Counting the turns: a loop under way has climbed as often as it turned. *)
LEMMA LoopArrives ==
    ASSUME NEW Y, NEW b \in Y, NEW F, IsTurn(F, Y), NEW D, NEW R, NEW m \in Nat, Climbs(R, Y, F, D, m),
           NEW n \in Nat, m < n, NEW f, Follows(f, Y, b, F, n)
    PROVE  f[n] \in D
<1> USE DEF Follows, IsTurn, Climbs
<1> DEFINE T == {k \in 0..n : f[k] \in Y /\ (f[k] \notin D => R[f[k]] >= k)}
<1>1. 0 \in T
  OBVIOUS
<1>2. ASSUME NEW i \in 0..n, i \in T, i < n
      PROVE  i + 1 \in T
  <2>1. i + 1 \in 1..n /\ i + 1 \in 0..n /\ (i + 1) - 1 = i
    BY <1>2
  <2>2. f[i + 1] = F[f[i]] /\ f[i] \in Y
    BY <1>2, <2>1
  <2>3. f[i + 1] \in Y
    BY <2>2
  <2>4. ASSUME f[i + 1] \notin D
        PROVE  R[f[i + 1]] >= i + 1
    <3>1. f[i] \notin D /\ R[f[i]] < R[f[i + 1]]
      BY <2>2, <2>4
    <3>2. R[f[i]] >= i
      BY <1>2, <3>1
    <3>3. R[f[i]] \in Nat /\ R[f[i + 1]] \in Nat
      BY <2>2, <2>3
    <3>4. QED  BY <3>1, <3>2, <3>3
  <2>5. QED  BY <2>1, <2>3, <2>4
<1>3. n \in T
  <2> HIDE DEF T
  <2>1. 0..n \subseteq T
    BY <1>1, <1>2, AllUpTo
  <2>2. QED  BY <2>1
<1>4. QED  BY <1>3

(* nextAfter is the first match after w.                                   *)
LEMMA NextArrives ==
    ASSUME NEW w \in WallPoints, FieldsFit
    PROVE  NextAfter(w) \in WallPoints \cup {Nothing} /\ Arrived(NextAfter(w), w)
<1> DEFINE minutes == {m \in compiled.minutes : m > w.mi}
           atOnce  == w.mo \in compiled.months /\ DayMatches(w) /\ w.h \in compiled.hours /\ minutes # {}
           r    == [w EXCEPT !.mi = Min(minutes)]
           b    == Onward(NextHour(w))
           IsAfter(f) == f = [k \in 0..Hops |-> IF k = 0 THEN b ELSE Turn(f[k - 1], LastYear(w))]
           f    == CHOOSE f : IsAfter(f)
<1>1. NextAfter(w) = IF atOnce THEN r ELSE f[Hops].w
  BY DEF NextAfter
<1>2. CASE atOnce
  <2>1. Min(minutes) \in minutes /\ \A m \in minutes : Min(minutes) <= m
    <3>1. minutes \in SUBSET Nat
      BY DEF FieldsFit, Hour
    <3>2. QED  BY <1>2, <3>1, MinIsIn
  <2>2. Min(minutes) \in 0..Hour - 1
    BY <2>1 DEF FieldsFit
  <2>3. r = [y |-> w.y, mo |-> w.mo, d |-> w.d, h |-> w.h, mi |-> Min(minutes)]
    BY <2>2, WallFields DEF Clock, Hour
  <2>4. r.y = w.y /\ r.mo = w.mo /\ r.d = w.d /\ r.h = w.h /\ r.mi = Min(minutes)
    BY <2>3
  <2>5. r \in WallPoints
    BY <2>2, <2>3, WallFields, FirstDays, IsWallPoint
  <2> HIDE DEF r
  <2>6. Awaited(r, w)
    <3>1. Matches(r)
      BY <1>2, <2>1, <2>4, <2>5, DayOfMatch DEF Matches
    <3>2. Before(w, r)
      BY <2>1, <2>4, <2>5, WallFields DEF Before
    <3>3. QED  BY <2>4, <2>5, <3>1, <3>2, SearchedYears DEF Awaited
  <2>7. ASSUME NEW x \in WallPoints, Awaited(x, w), Before(x, r)
        PROVE  FALSE
    <3>1. x.mi \in compiled.minutes /\ x.mi > w.mi /\ x.mi < Min(minutes)
      BY <2>4, <2>5, <2>7, WallFields DEF Awaited, Matches, Before, Clock
    <3>2. Min(minutes) <= x.mi
      BY <2>1, <3>1
    <3>3. QED  BY <2>4, <2>5, <3>1, <3>2, WallFields DEF Clock
  <2>8. QED  BY <1>1, <1>2, <2>5, <2>6, <2>7 DEF Arrived
<1>3. CASE ~atOnce
  <2> DEFINE Y == Going(w)
             F == [acc \in Y |-> Turn(acc, LastYear(w))]
             D == {acc \in Y : acc.done}
             R == [acc \in Y |-> IF acc.done THEN 0 ELSE Rank(acc.w)]
  <2>1. b \in Y
    <3>1. NextHour(w) \in Starts /\ Before(w, NextHour(w))
      BY NextHourIs
    <3>2. ASSUME NEW x \in WallPoints, Awaited(x, w), Before(x, NextHour(w))
          PROVE  FALSE
      <4>1. ByHour(x, w) /\ Before(w, x) /\ Matches(x)
        BY <3>2, NextHourIs DEF Awaited
      <4>2. x.y = w.y /\ x.mo = w.mo /\ x.d = w.d /\ x.h = w.h /\ x.mi > w.mi
        BY <4>1, WallFields DEF ByHour, ByDay, Before, Clock
      <4>3. DayMatches(w)
        BY <4>1, <4>2, DayOfMatch DEF Matches
      <4>4. QED  BY <1>3, <4>1, <4>2, <4>3 DEF Matches
    <3>3. QED  BY <3>1, <3>2, Turns DEF OnTheWay
  <2>2. F \in [Y -> Y]
    BY TurnGoesOn
  <2>3. \A acc \in Y : acc \notin D => acc.w \in Starts /\ acc.done = FALSE
    BY Turns
  <2>4. R \in [Y -> Nat]
    BY <2>3, RankIsBounded
  <2>5. \A acc \in Y : acc \notin D => R[acc] <= Ranks
    BY <2>3, RankIsBounded
  <2>6. \A acc \in Y : F[acc] \notin D => acc \notin D /\ R[acc] < R[F[acc]]
    <3> SUFFICES ASSUME NEW acc \in Y, F[acc] \notin D
                 PROVE  acc \notin D /\ R[acc] < R[F[acc]]
      OBVIOUS
    <3>1. F[acc] = Turn(acc, LastYear(w)) /\ Turn(acc, LastYear(w)) \in Y /\ ~Turn(acc, LastYear(w)).done
      BY TurnGoesOn
    <3>2. ~acc.done /\ acc.w \in Starts /\ Turn(acc, LastYear(w)).w \in Starts /\ Sooner(acc.w, Turn(acc, LastYear(w)).w)
      BY <3>1, TurnGoesOn
    <3>3. Rank(acc.w) < Rank(Turn(acc, LastYear(w)).w)
      BY <3>2, RankIsBounded, RankGrows
    <3>4. QED  BY <3>1, <3>2, <3>3
  <2>7. Hops \in Nat /\ Ranks \in Nat /\ Ranks < Hops
    <3>1. Hops \in Nat /\ Ranks \in Nat /\ Ranks + 1 < Hops
      BY HopsSuffice
    <3>2. QED  BY <3>1
  <2>8. f[0] = b /\ \A k \in 1..Hops : f[k] = Turn(f[k - 1], LastYear(w))
    <3>1. PICK g : Taken(g, Y, b, F, Hops)
      <4>1. IsTurn(F, Y)
        BY <2>2 DEF IsTurn
      <4> HIDE DEF Y, b, F
      <4>2. QED  BY <2>1, <2>7, <4>1, TurnsExist
    <3>2. \A k \in 1..Hops : k - 1 \in 0..Hops
      BY <2>7
    <3> HIDE DEF Y, b
    <3>6. g \in [0..Hops -> Y] /\ g[0] = b /\ \A k \in 1..Hops : g[k] = Turn(g[k - 1], LastYear(w))
      BY <3>1, <3>2 DEF Taken
    <3> HIDE DEF F
    <3>3. IsAfter(g)
      BY <2>7, <3>6
    <3>4. IsAfter(f)
      <4> HIDE DEF IsAfter
      <4>1. QED  BY <3>3
    <3> HIDE DEF f
    <3>5. QED  BY <2>7, <3>4
  <2> HIDE DEF f
  <2>9. f[Hops] \in D
    <3>1. Follows(f, Y, b, F, Hops)
      BY <2>8 DEF Follows
    <3>2. Climbs(R, Y, F, D, Ranks)
      <4> HIDE DEF Y, F, D, R
      <4>1. QED  BY <2>4, <2>5, <2>6 DEF Climbs
    <3>3. IsTurn(F, Y)
      BY <2>2 DEF IsTurn
    <3> HIDE DEF Y, b, F, D, R
    <3>4. QED  BY <2>1, <2>7, <3>1, <3>2, <3>3, LoopArrives
  <2>10. f[Hops].w \in WallPoints \cup {Nothing} /\ Arrived(f[Hops].w, w)
    BY <2>9, Turns
  <2>11. QED  BY <1>1, <1>3, <2>10
<1>4. QED  BY <1>2, <1>3

-----------------------------------------------------------------------------
(* Backwards: the same with the last minutes of hours, down to the first   *)
(* year.                                                                   *)
Ends == {w \in WallPoints : w.mi = Hour - 1} \cup {Nothing}

(* x lies in w's month or later; on w's day or later; in w's hour or later.*)
FromMonth(x, w) == x.y > w.y \/ (x.y = w.y /\ x.mo >= w.mo)
FromDay(x, w)   == x.y > w.y \/ (x.y = w.y /\ (x.mo > w.mo \/ (x.mo = w.mo /\ x.d >= w.d)))
FromHour(x, w)  ==
    FromDay(x, w) /\ (x.y = w.y /\ x.mo = w.mo /\ x.d = w.d => x.h >= w.h)

(* The fields of the last minute of an hour.                               *)
LEMMA EndFields ==
    \A y, mo, d, h : /\ EndOf(y, mo, d, h).y = y /\ EndOf(y, mo, d, h).mo = mo /\ EndOf(y, mo, d, h).d = d
                     /\ EndOf(y, mo, d, h).h = h /\ EndOf(y, mo, d, h).mi = Hour - 1
BY DEF EndOf

(* Before the first year lies nothing.                                     *)
LEMMA NothingFields ==
    /\ Nothing \in Clock /\ Nothing.y = 0 /\ Nothing \notin WallPoints
    /\ \A w \in WallPoints : Before(Nothing, w) /\ Sooner(Nothing, w)
<1>1. Nothing \in Clock /\ Nothing.y = 0
  BY DEF Nothing, Clock
<1>2. \A w \in WallPoints : w.y \in Nat /\ w.y > 0
  BY WallFields, CalendarAssumption
<1>3. QED  BY <1>1, <1>2 DEF Before, Sooner

(* Where a jump back lands the fields are numbers.                         *)
LEMMA EndsAreClocks == Ends \subseteq Clock
BY NothingFields, WallFields DEF Ends

(* The last minute of an hour of a day there is.                           *)
LEMMA EndAt ==
    ASSUME NEW y \in 1..Years, NEW mo \in 1..Months, NEW d \in 1..LastDay[y][mo],
           NEW h \in 0..HoursPerDay - 1
    PROVE  EndOf(y, mo, d, h) \in Ends /\ EndOf(y, mo, d, h) \in WallPoints
<1>1. Hour - 1 \in 0..Hour - 1
  BY DEF Hour
<1>2. EndOf(y, mo, d, h) \in WallPoints
  BY <1>1, IsWallPoint DEF EndOf
<1>3. QED  BY <1>2, EndFields DEF Ends

(* Earlier the last minute of an hour lies what has a later hour.           *)
LEMMA BehindAnEnd ==
    ASSUME NEW e \in WallPoints, e.mi = Hour - 1, NEW x \in WallPoints
    PROVE  /\ Before(e, x) <=> \/ x.y > e.y
                               \/ x.y = e.y /\ x.mo > e.mo
                               \/ x.y = e.y /\ x.mo = e.mo /\ x.d > e.d
                               \/ x.y = e.y /\ x.mo = e.mo /\ x.d = e.d /\ x.h > e.h
           /\ e.d = LastDay[e.y][e.mo] /\ e.h = HoursPerDay - 1 =>
                 (Before(e, x) <=> x.y > e.y \/ (x.y = e.y /\ x.mo > e.mo))
           /\ e.h = HoursPerDay - 1 =>
                 (Before(e, x) <=> \/ x.y > e.y
                                   \/ x.y = e.y /\ x.mo > e.mo
                                   \/ x.y = e.y /\ x.mo = e.mo /\ x.d > e.d)
<1>1. /\ x.mi \in Nat /\ x.h \in Nat /\ x.d \in Nat /\ x.mo \in Nat /\ x.y \in Nat
      /\ e.h \in Nat /\ e.d \in Nat /\ e.mo \in Nat /\ e.y \in Nat
      /\ x.h <= HoursPerDay - 1 /\ x.mi <= Hour - 1 /\ Hour - 1 \in Nat
  BY WallFields DEF Clock, Hour
<1>2. Before(e, x) <=> \/ x.y > e.y
                       \/ x.y = e.y /\ x.mo > e.mo
                       \/ x.y = e.y /\ x.mo = e.mo /\ x.d > e.d
                       \/ x.y = e.y /\ x.mo = e.mo /\ x.d = e.d /\ x.h > e.h
  BY <1>1 DEF Before
<1>3. x.y = e.y /\ x.mo = e.mo => x.d <= LastDay[e.y][e.mo]
  BY WallFields
<1>4. LastDay[e.y][e.mo] \in Nat /\ HoursPerDay \in Nat
  <2>1. e.y \in 1..Years /\ e.mo \in 1..Months
    BY WallFields
  <2>2. LastDay[e.y][e.mo] \in 1..MaxDay
    BY <2>1, FirstDays
  <2>3. HoursPerDay \in Nat
    BY CalendarAssumption
  <2>4. QED  BY <2>2, <2>3
<1>5. QED  BY <1>1, <1>2, <1>3, <1>4

(* The borrow from the month before, to its last moment.                   *)
LEMMA PrevMonthIs ==
    ASSUME NEW w \in WallPoints
    PROVE  /\ PrevMonth(w) \in Ends /\ Before(PrevMonth(w), w) /\ Sooner(PrevMonth(w), w)
           /\ \A x \in WallPoints : Before(PrevMonth(w), x) <=> FromMonth(x, w)
<1>0. /\ Months \in Nat \ {0} /\ HoursPerDay \in Nat \ {0} /\ HoursPerDay - 1 \in 0..HoursPerDay - 1
      /\ Months \in 1..Months
  BY CalendarAssumption
<1>1. w.y \in 1..Years /\ w.mo \in 1..Months /\ w \in Clock
  BY WallFields
<1>2. ASSUME NEW y \in 1..Years, NEW mo \in 1..Months, PrevMonth(w) = LastMoment(y, mo),
             \/ y = w.y /\ mo = w.mo - 1
             \/ y = w.y - 1 /\ mo = Months /\ w.mo = 1
      PROVE  /\ PrevMonth(w) \in Ends /\ Before(PrevMonth(w), w) /\ Sooner(PrevMonth(w), w)
             /\ \A x \in WallPoints : Before(PrevMonth(w), x) <=> FromMonth(x, w)
  <2> DEFINE e == PrevMonth(w)
  <2>1. e = EndOf(y, mo, LastDay[y][mo], HoursPerDay - 1)
    BY <1>2 DEF LastMoment
  <2>2. e \in Ends /\ e \in WallPoints
    BY <1>0, <2>1, FirstDays, EndAt
  <2>3. e.y = y /\ e.mo = mo /\ e.d = LastDay[e.y][e.mo] /\ e.h = HoursPerDay - 1 /\ e.mi = Hour - 1
    BY <2>1, EndFields
  <2> HIDE DEF e
  <2>4. ASSUME NEW x \in WallPoints
        PROVE  Before(e, x) <=> FromMonth(x, w)
    <3>1. Before(e, x) <=> x.y > e.y \/ (x.y = e.y /\ x.mo > e.mo)
      BY <2>2, <2>3, BehindAnEnd
    <3>2. x.y \in Nat /\ x.mo \in 1..Months
      BY WallFields DEF Clock
    <3>3. QED  BY <1>0, <1>1, <1>2, <2>3, <3>1, <3>2 DEF FromMonth
  <2>5. Sooner(e, w)
    BY <1>1, <1>2, <2>3 DEF Sooner
  <2>6. QED  BY <1>1, <2>2, <2>4, <2>5 DEF e, FromMonth, Clock
<1>3. CASE w.mo > 1
  <2>1. PrevMonth(w) = LastMoment(w.y, w.mo - 1)
    BY <1>3 DEF PrevMonth
  <2>2. w.mo - 1 \in 1..Months
    BY <1>0, <1>1, <1>3
  <2>3. QED  BY <1>1, <1>2, <2>1, <2>2
<1>4. CASE w.mo = 1 /\ w.y > 1
  <2>1. PrevMonth(w) = LastMoment(w.y - 1, Months) /\ w.y - 1 \in 1..Years
    BY <1>1, <1>4, CalendarAssumption DEF PrevMonth
  <2>2. QED  BY <1>0, <1>2, <1>4, <2>1
<1>5. CASE w.mo = 1 /\ w.y = 1
  <2>1. PrevMonth(w) = Nothing
    BY <1>5 DEF PrevMonth
  <2>2. \A x \in WallPoints : FromMonth(x, w)
    BY <1>0, <1>5, WallFields DEF FromMonth, Clock
  <2>3. QED  BY <2>1, <2>2, NothingFields DEF Ends
<1>6. QED  BY <1>1, <1>3, <1>4, <1>5, CalendarAssumption

(* The borrow from the day before.                                         *)
LEMMA PrevDayIs ==
    ASSUME NEW w \in WallPoints
    PROVE  /\ PrevDay(w) \in Ends /\ Before(PrevDay(w), w) /\ Sooner(PrevDay(w), w)
           /\ \A x \in WallPoints : Before(PrevDay(w), x) <=> FromDay(x, w)
<1>0. HoursPerDay \in Nat \ {0} /\ HoursPerDay - 1 \in 0..HoursPerDay - 1
  BY CalendarAssumption
<1>1. /\ w.y \in 1..Years /\ w.mo \in 1..Months /\ w.d \in 1..MaxDay /\ w.d <= LastDay[w.y][w.mo]
      /\ LastDay[w.y][w.mo] \in 1..MaxDay /\ w \in Clock
  BY WallFields, FirstDays
<1>2. CASE w.d > 1
  <2> DEFINE e == PrevDay(w)
  <2>1. e = EndOf(w.y, w.mo, w.d - 1, HoursPerDay - 1) /\ w.d - 1 \in 1..LastDay[w.y][w.mo]
    BY <1>1, <1>2 DEF PrevDay
  <2>2. e \in Ends /\ e \in WallPoints
    BY <1>0, <1>1, <2>1, EndAt
  <2>3. e.y = w.y /\ e.mo = w.mo /\ e.d = w.d - 1 /\ e.h = HoursPerDay - 1 /\ e.mi = Hour - 1
    BY <2>1, EndFields
  <2> HIDE DEF e
  <2>4. ASSUME NEW x \in WallPoints
        PROVE  Before(e, x) <=> FromDay(x, w)
    <3>1. Before(e, x) <=> \/ x.y > e.y
                           \/ x.y = e.y /\ x.mo > e.mo
                           \/ x.y = e.y /\ x.mo = e.mo /\ x.d > e.d
      BY <2>2, <2>3, BehindAnEnd
    <3>2. x.y \in Nat /\ x.mo \in Nat /\ x.d \in Nat
      BY WallFields DEF Clock
    <3>3. QED  BY <1>1, <2>3, <3>1, <3>2 DEF FromDay
  <2>5. QED  BY <1>1, <2>2, <2>3, <2>4 DEF e, FromDay, Sooner, Clock
<1>3. CASE w.d = 1
  <2>1. PrevDay(w) = PrevMonth(w)
    BY <1>3 DEF PrevDay
  <2>2. ASSUME NEW x \in WallPoints
        PROVE  FromMonth(x, w) <=> FromDay(x, w)
    BY <1>1, <1>3, WallFields DEF FromMonth, FromDay, Clock
  <2>3. QED  BY <2>1, <2>2, PrevMonthIs
<1>4. QED  BY <1>1, <1>2, <1>3

(* The borrow from the hour before.                                        *)
LEMMA PrevHourIs ==
    ASSUME NEW w \in WallPoints
    PROVE  /\ PrevHour(w) \in Ends /\ Before(PrevHour(w), w)
           /\ \A x \in WallPoints : Before(PrevHour(w), x) => FromHour(x, w)
<1>0. HoursPerDay \in Nat \ {0}
  BY CalendarAssumption
<1>1. /\ w.y \in 1..Years /\ w.mo \in 1..Months /\ w.d \in 1..LastDay[w.y][w.mo]
      /\ w.h \in 0..HoursPerDay - 1 /\ w \in Clock
  BY WallFields, FirstDays
<1>2. CASE w.h > 0
  <2> DEFINE e == PrevHour(w)
  <2>1. e = EndOf(w.y, w.mo, w.d, w.h - 1) /\ w.h - 1 \in 0..HoursPerDay - 1
    BY <1>0, <1>1, <1>2 DEF PrevHour
  <2>2. e \in Ends /\ e \in WallPoints
    BY <1>1, <2>1, EndAt
  <2>3. e.y = w.y /\ e.mo = w.mo /\ e.d = w.d /\ e.h = w.h - 1 /\ e.mi = Hour - 1
    BY <2>1, EndFields
  <2> HIDE DEF e
  <2>4. ASSUME NEW x \in WallPoints, Before(e, x)
        PROVE  FromHour(x, w)
    <3>1. \/ x.y > e.y
          \/ x.y = e.y /\ x.mo > e.mo
          \/ x.y = e.y /\ x.mo = e.mo /\ x.d > e.d
          \/ x.y = e.y /\ x.mo = e.mo /\ x.d = e.d /\ x.h > e.h
      BY <2>2, <2>3, <2>4, BehindAnEnd
    <3>2. x.y \in Nat /\ x.mo \in Nat /\ x.d \in Nat /\ x.h \in Nat
      BY WallFields DEF Clock
    <3>3. QED  BY <1>1, <2>3, <3>1, <3>2 DEF FromHour, FromDay, Clock
  <2>5. Before(e, w)
    BY <1>1, <2>3 DEF Before, Clock
  <2>6. QED  BY <2>2, <2>4, <2>5 DEF e
<1>3. CASE w.h = 0
  <2>1. PrevHour(w) = PrevDay(w)
    BY <1>3 DEF PrevHour
  <2>2. ASSUME NEW x \in WallPoints, FromDay(x, w)
        PROVE  FromHour(x, w)
    BY <1>3, <2>2, WallFields DEF FromHour, Clock
  <2>3. QED  BY <2>1, <2>2, PrevDayIs
<1>4. QED  BY <1>1, <1>2, <1>3

AwaitedBack(x, from) == x \in WallPoints /\ Matches(x) /\ Before(x, from) /\ FirstYear(from) <= x.y

OnTheWayBack(p, from) ==
    p \in Ends /\ Before(p, from) /\ \A x \in WallPoints : AwaitedBack(x, from) => ~Before(p, x)

ArrivedBack(p, from) ==
    \/ AwaitedBack(p, from) /\ \A x \in WallPoints : AwaitedBack(x, from) => ~Before(p, x)
    \/ p = Nothing /\ \A x \in WallPoints : ~AwaitedBack(x, from)

GoingBack(from) ==
    {Onward(p) : p \in {q \in Ends : OnTheWayBack(q, from)}}
        \cup {Landed(p) : p \in {q \in WallPoints \cup {Nothing} : ArrivedBack(q, from)}}

(* How a match stands to a place that it does not come behind.             *)
LEMMA NotBehind ==
    ASSUME NEW p \in WallPoints, p.mi = Hour - 1, NEW x \in WallPoints
    PROVE  ~Before(p, x) <=> \/ x.y < p.y
                             \/ x.y = p.y /\ x.mo < p.mo
                             \/ x.y = p.y /\ x.mo = p.mo /\ x.d < p.d
                             \/ x.y = p.y /\ x.mo = p.mo /\ x.d = p.d /\ x.h <= p.h
<1>1. Before(p, x) <=> \/ x.y > p.y
                       \/ x.y = p.y /\ x.mo > p.mo
                       \/ x.y = p.y /\ x.mo = p.mo /\ x.d > p.d
                       \/ x.y = p.y /\ x.mo = p.mo /\ x.d = p.d /\ x.h > p.h
  BY BehindAnEnd
<1>2. QED  BY <1>1, WallFields DEF Clock

(* Going back, a month that does not fit, or has no day left that does,    *)
(* holds nothing that is awaited.                                          *)
LEMMA MonthIsPassedBack ==
    ASSUME NEW from \in WallPoints, NEW p \in WallPoints, OnTheWayBack(p, from), p.mi = Hour - 1,
           p.mo \notin compiled.months \/ PrevDayIn(p) = {}
    PROVE  OnTheWayBack(PrevMonth(p), from)
<1>1. ASSUME NEW x \in WallPoints, AwaitedBack(x, from), Before(PrevMonth(p), x)
      PROVE  FALSE
  <2>1. ~Before(p, x) /\ FromMonth(x, p)
    BY <1>1, PrevMonthIs DEF OnTheWayBack
  <2>2. x.y = p.y /\ x.mo = p.mo /\ x.d <= p.d
    BY <2>1, WallFields, NotBehind DEF FromMonth, Clock
  <2>3. x.mo \in compiled.months /\ DayMatches(At(x.y, x.mo, x.d, 0))
    BY <1>1, DayOfMatch DEF AwaitedBack, Matches
  <2>4. x.d \in 1..p.d
    <3>1. x.d \in 1..MaxDay /\ p.d \in 1..MaxDay /\ MaxDay \in Nat
      BY WallFields, CalendarAssumption
    <3>2. QED  BY <2>2, <3>1
  <2>5. x.d \in PrevDayIn(p)
    BY <2>2, <2>3, <2>4 DEF PrevDayIn
  <2>6. QED  BY <2>2, <2>3, <2>5
<1>2. Before(PrevMonth(p), from) /\ PrevMonth(p) \in Ends
  <2>1. PrevMonth(p) \in Ends /\ Before(PrevMonth(p), p) /\ Before(p, from)
    BY PrevMonthIs DEF OnTheWayBack
  <2>2. PrevMonth(p) \in Clock
    BY <2>1, EndsAreClocks
  <2>3. QED  BY <2>1, <2>2, WallFields DEF Before, Clock
<1>3. QED  BY <1>1, <1>2 DEF OnTheWayBack

(* The last day that fits and the hour to look back from: what is awaited  *)
(* is not behind them.                                                     *)
LEMMA DayIsFoundBack ==
    ASSUME NEW from \in WallPoints, NEW p \in WallPoints, OnTheWayBack(p, from), p.mi = Hour - 1,
           p.mo \in compiled.months, PrevDayIn(p) # {},
           NEW d, d = Max(PrevDayIn(p)), NEW upto, upto = IF d # p.d THEN HoursPerDay - 1 ELSE p.h
    PROVE  /\ d \in 1..LastDay[p.y][p.mo] /\ d <= p.d /\ DayMatches(At(p.y, p.mo, d, 0))
           /\ upto \in 0..HoursPerDay - 1
           /\ \A h \in 0..HoursPerDay - 1, mi \in 0..Hour - 1 : h <= upto =>
                 ~Before(p, [y |-> p.y, mo |-> p.mo, d |-> d, h |-> h, mi |-> mi])
           /\ \A x \in WallPoints : AwaitedBack(x, from) /\ FromDay(x, At(p.y, p.mo, d, 0)) =>
                 x.y = p.y /\ x.mo = p.mo /\ x.d = d /\ x.h <= upto
<1>0. p.d \in 1..MaxDay /\ MaxDay \in Nat \ {0} /\ p.d \in Nat /\ HoursPerDay \in Nat \ {0}
  BY WallFields, CalendarAssumption
<1>1. PrevDayIn(p) \in SUBSET (0..p.d)
  BY <1>0 DEF PrevDayIn
<1>2. d \in PrevDayIn(p) /\ \A e \in PrevDayIn(p) : e <= d
  BY <1>0, <1>1, MaxIsIn
<1>3. d \in 1..LastDay[p.y][p.mo] /\ d <= p.d /\ DayMatches(At(p.y, p.mo, d, 0))
  <2>1. d \in 1..p.d /\ DayMatches(At(p.y, p.mo, d, 0))
    BY <1>2 DEF PrevDayIn
  <2>2. p.d <= LastDay[p.y][p.mo] /\ LastDay[p.y][p.mo] \in 1..MaxDay
    BY WallFields, FirstDays
  <2>3. QED  BY <1>0, <2>1, <2>2
<1>4. upto \in 0..HoursPerDay - 1
  BY <1>0, WallFields
<1>5. ASSUME NEW h \in 0..HoursPerDay - 1, NEW mi \in 0..Hour - 1, h <= upto
      PROVE  ~Before(p, [y |-> p.y, mo |-> p.mo, d |-> d, h |-> h, mi |-> mi])
  <2> DEFINE x == [y |-> p.y, mo |-> p.mo, d |-> d, h |-> h, mi |-> mi]
  <2>1. x \in WallPoints
    BY <1>3, WallFields, IsWallPoint
  <2>2. x.y = p.y /\ x.mo = p.mo /\ x.d = d /\ x.h = h
    OBVIOUS
  <2> HIDE DEF x
  <2>3. d < p.d \/ (d = p.d /\ h <= p.h)
    BY <1>0, <1>3, <1>5, WallFields, FirstDays
  <2>4. ~Before(p, x)
    BY <2>1, <2>2, <2>3, NotBehind
  <2>5. QED  BY <2>4 DEF x
<1>6. ASSUME NEW x \in WallPoints, AwaitedBack(x, from), FromDay(x, At(p.y, p.mo, d, 0))
      PROVE  x.y = p.y /\ x.mo = p.mo /\ x.d = d /\ x.h <= upto
  <2>1. ~Before(p, x) /\ DayMatches(At(x.y, x.mo, x.d, 0))
    BY <1>6, DayOfMatch DEF OnTheWayBack, AwaitedBack, Matches
  <2>2. x.y = p.y /\ x.mo = p.mo /\ x.d <= p.d /\ x.d >= d
    <3>1. \/ x.y > p.y
          \/ x.y = p.y /\ x.mo > p.mo
          \/ x.y = p.y /\ x.mo = p.mo /\ x.d >= d
      BY <1>6, AtFields DEF FromDay
    <3>2. \/ x.y < p.y
          \/ x.y = p.y /\ x.mo < p.mo
          \/ x.y = p.y /\ x.mo = p.mo /\ x.d <= p.d
      BY <2>1, WallFields, NotBehind DEF Clock
    <3>3. x.y \in Nat /\ p.y \in Nat /\ x.mo \in Nat /\ p.mo \in Nat
      BY WallFields DEF Clock
    <3>4. QED  BY <3>1, <3>2, <3>3
  <2>3. x.d \in PrevDayIn(p)
    <3>1. x.d \in 1..p.d
      BY <1>0, <2>2, WallFields
    <3>2. QED  BY <2>1, <2>2, <3>1 DEF PrevDayIn
  <2>4. x.d = d
    BY <1>2, <1>3, <2>2, <2>3, WallFields
  <2>5. QED  BY <1>0, <2>1, <2>2, <2>4, WallFields, NotBehind
<1>7. QED  BY <1>3, <1>4, <1>5, <1>6

(* A day without an hour left is passed.                                   *)
LEMMA DayIsPassedBack ==
    ASSUME NEW from \in WallPoints, NEW p \in WallPoints, OnTheWayBack(p, from), p.mi = Hour - 1, FieldsFit,
           p.mo \in compiled.months, PrevDayIn(p) # {},
           NEW d, d = Max(PrevDayIn(p)), NEW upto, upto = IF d # p.d THEN HoursPerDay - 1 ELSE p.h,
           {h \in compiled.hours : h <= upto} = {}
    PROVE  /\ OnTheWayBack(PrevDay(At(p.y, p.mo, d, 0)), from)
           /\ Sooner(PrevDay(At(p.y, p.mo, d, 0)), p)
<1> DEFINE a == At(p.y, p.mo, d, 0)
           n == PrevDay(a)
<1>1. /\ d \in 1..LastDay[p.y][p.mo] /\ d <= p.d
      /\ \A x \in WallPoints : AwaitedBack(x, from) /\ FromDay(x, a) => x.h <= upto
  BY DayIsFoundBack
<1>2. a \in WallPoints /\ a.y = p.y /\ a.mo = p.mo /\ a.d = d
  <2>1. 0 \in 0..HoursPerDay - 1
    BY CalendarAssumption
  <2>2. QED  BY <1>1, <2>1, WallFields, StartAt, AtFields
<1> HIDE DEF a
<1>3. n \in Ends /\ Before(n, a) /\ Sooner(n, a) /\ \A x \in WallPoints : Before(n, x) <=> FromDay(x, a)
  BY <1>2, PrevDayIs
<1>4. ASSUME NEW x \in WallPoints, AwaitedBack(x, from), Before(n, x)
      PROVE  FALSE
  <2>1. x.h <= upto /\ x.h \in compiled.hours
    BY <1>1, <1>3, <1>4 DEF AwaitedBack, Matches
  <2>2. QED  BY <2>1
<1> HIDE DEF n
<1>5. Before(n, from) /\ Sooner(n, p)
  <2>1. n \in Clock /\ p \in Clock /\ from \in Clock /\ a \in Clock
    BY <1>2, <1>3, WallFields, EndsAreClocks
  <2>0. d \in Nat
    BY <1>1, WallFields, FirstDays
  <2>2. FromDay(p, a)
    BY <1>1, <1>2, <2>0, <2>1 DEF FromDay, Clock
  <2>3. Before(n, p)
    BY <1>3, <2>2
  <2>4. Sooner(n, p)
    BY <1>1, <1>2, <1>3, <2>0, <2>1 DEF Sooner, Clock
  <2>5. Before(p, from)
    BY DEF OnTheWayBack
  <2>6. QED  BY <2>1, <2>3, <2>4, <2>5 DEF Before, Clock
<1>6. QED  BY <1>3, <1>4, <1>5 DEF OnTheWayBack, n, a

(* The same order, backwards.                                              *)
LEMMA BeforeGoesBack ==
    ASSUME NEW a \in Clock, NEW b \in Clock, NEW c \in Clock, Before(b, a), ~Before(b, c)
    PROVE  Before(c, a)
BY DEF Before, Clock

(* The last hour that fits, and its last minute, are the match looked for. *)
LEMMA HourIsFoundBack ==
    ASSUME NEW from \in WallPoints, NEW p \in WallPoints, OnTheWayBack(p, from), p.mi = Hour - 1, FieldsFit,
           FirstYear(from) <= p.y,
           p.mo \in compiled.months, PrevDayIn(p) # {},
           NEW d, d = Max(PrevDayIn(p)), NEW upto, upto = IF d # p.d THEN HoursPerDay - 1 ELSE p.h,
           NEW earlier, earlier = {h \in compiled.hours : h <= upto}, earlier # {}
    PROVE  LET r == [At(p.y, p.mo, d, Max(earlier)) EXCEPT !.mi = Max(compiled.minutes)]
           IN  r \in WallPoints /\ ArrivedBack(r, from)
<1> DEFINE h == Max(earlier)
           mi == Max(compiled.minutes)
           r == [y |-> p.y, mo |-> p.mo, d |-> d, h |-> h, mi |-> mi]
<1>0. HoursPerDay - 1 \in Nat /\ Hour - 1 \in Nat
  BY CalendarAssumption DEF Hour
<1>1. h \in earlier /\ \A k \in earlier : k <= h
  <2>1. earlier \in SUBSET (0..HoursPerDay - 1)
    BY DEF FieldsFit
  <2>2. QED  BY <1>0, <2>1, MaxIsIn
<1>2. mi \in compiled.minutes /\ \A k \in compiled.minutes : k <= mi
  BY <1>0, MaxIsIn DEF FieldsFit
<1> HIDE DEF h, mi
<1>3. /\ d \in 1..LastDay[p.y][p.mo] /\ d <= p.d /\ DayMatches(At(p.y, p.mo, d, 0))
      /\ upto \in 0..HoursPerDay - 1
      /\ \A k \in 0..HoursPerDay - 1, m \in 0..Hour - 1 : k <= upto =>
            ~Before(p, [y |-> p.y, mo |-> p.mo, d |-> d, h |-> k, mi |-> m])
      /\ \A x \in WallPoints : AwaitedBack(x, from) /\ FromDay(x, At(p.y, p.mo, d, 0)) =>
            x.y = p.y /\ x.mo = p.mo /\ x.d = d /\ x.h <= upto
  BY DayIsFoundBack
<1>4. h \in 0..HoursPerDay - 1 /\ mi \in 0..Hour - 1 /\ h <= upto /\ h \in compiled.hours
  BY <1>1, <1>2 DEF FieldsFit
<1>5. r \in WallPoints
  BY <1>3, <1>4, WallFields, IsWallPoint
<1>6. r.y = p.y /\ r.mo = p.mo /\ r.d = d /\ r.h = h /\ r.mi = mi
  OBVIOUS
<1> HIDE DEF r
<1>7. Matches(r)
  BY <1>2, <1>3, <1>4, <1>5, <1>6, DayOfMatch DEF Matches
<1>8. Before(r, from)
  <2>1. ~Before(p, r) /\ Before(p, from)
    BY <1>3, <1>4 DEF OnTheWayBack, r
  <2>2. QED  BY <1>5, <2>1, WallFields, BeforeGoesBack
<1>9. ASSUME NEW x \in WallPoints, AwaitedBack(x, from), Before(r, x)
      PROVE  FALSE
  <2>1. FromDay(x, At(p.y, p.mo, d, 0))
    BY <1>5, <1>6, <1>9, WallFields, AtFields DEF Before, FromDay, Clock
  <2>2. x.y = p.y /\ x.mo = p.mo /\ x.d = d /\ x.h <= upto
    BY <1>3, <1>9, <2>1
  <2>3. x.h \in earlier /\ x.mi \in compiled.minutes
    BY <1>9, <2>2 DEF AwaitedBack, Matches
  <2>4. x.h <= h /\ x.mi <= mi
    BY <1>1, <1>2, <2>3
  <2>5. QED  BY <1>5, <1>6, <1>9, <2>2, <2>4, WallFields DEF Before, Clock
<1>10. [At(p.y, p.mo, d, Max(earlier)) EXCEPT !.mi = Max(compiled.minutes)] = r
  BY AtTimes DEF h, mi, r
<1>11. QED  BY <1>5, <1>6, <1>7, <1>8, <1>9, <1>10 DEF ArrivedBack, AwaitedBack

(* Going back the rank counts from the end; nothing is left at its top.    *)
RankBack(p) == IF p = Nothing THEN Ranks ELSE Ranks - 1 - Rank(p)

(* Going to an earlier day raises it.                                      *)
LEMMA RankBackGrows ==
    ASSUME NEW p \in Ends
    PROVE  /\ RankBack(p) \in Nat /\ RankBack(p) <= Ranks
           /\ \A q \in Ends : p \in WallPoints /\ Sooner(q, p) => RankBack(p) < RankBack(q)
<1>0. Ranks \in Nat /\ HoursPerDay \in Nat \ {0}
  BY HopsSuffice, CalendarAssumption
<1>1. ASSUME NEW w \in WallPoints
      PROVE  w \in Clock /\ w.y >= 1 /\ w.mo \in 1..Months /\ w.d \in 1..MaxDay
             /\ Rank(w) \in Nat /\ Rank(w) < Ranks /\ RankBack(w) = Ranks - 1 - Rank(w)
  <2> DEFINE a == At(w.y, w.mo, w.d, 0)
  <2>1. a \in Starts /\ a \in WallPoints /\ a.y = w.y /\ a.mo = w.mo /\ a.d = w.d
    <3>1. w.d \in 1..LastDay[w.y][w.mo] /\ 0 \in 0..HoursPerDay - 1
      BY <1>0, WallFields, FirstDays
    <3>2. QED  BY <3>1, WallFields, StartAt, AtFields
  <2> HIDE DEF a
  <2>2. Rank(a) \in Nat /\ Rank(a) < Ranks /\ Rank(a) = Rank(w)
    BY <2>1, RankIsBounded DEF Rank
  <2>3. w # Nothing
    BY NothingFields
  <2>4. w.y >= 1
    BY WallFields, CalendarAssumption
  <2>5. QED  BY <2>2, <2>3, <2>4, WallFields DEF RankBack
<1>2. p = Nothing \/ p \in WallPoints
  BY DEF Ends
<1>3. RankBack(Nothing) = Ranks
  BY DEF RankBack
<1>4. RankBack(p) \in Nat /\ RankBack(p) <= Ranks
  BY <1>0, <1>1, <1>2, <1>3
<1>5. ASSUME NEW q \in Ends, p \in WallPoints, Sooner(q, p)
      PROVE  RankBack(p) < RankBack(q)
  <2>1. CASE q = Nothing
    BY <1>0, <1>1, <1>3, <1>5, <2>1
  <2>2. CASE q \in WallPoints
    <3>1. Rank(q) < Rank(p)
      BY <1>1, <1>5, <2>2, RankGrows
    <3>2. QED  BY <1>0, <1>1, <1>5, <2>2, <3>1
  <2>3. QED  BY <2>1, <2>2 DEF Ends
<1>6. QED  BY <1>4, <1>5

(* The loop back is under way or has arrived.                              *)
LEMMA TurnsBack ==
    ASSUME NEW from
    PROVE  /\ \A p : Onward(p).done = FALSE /\ Onward(p).w = p /\ Landed(p).done = TRUE /\ Landed(p).w = p
           /\ \A p \in Ends : OnTheWayBack(p, from) => Onward(p) \in GoingBack(from)
           /\ \A p \in WallPoints \cup {Nothing} : ArrivedBack(p, from) => Landed(p) \in GoingBack(from)
           /\ \A acc \in GoingBack(from) : acc.done \in BOOLEAN
           /\ \A acc \in GoingBack(from) : ~acc.done => acc.done = FALSE /\ acc.w \in Ends
           /\ \A acc \in GoingBack(from) : acc.done =>
                 acc.w \in WallPoints \cup {Nothing} /\ ArrivedBack(acc.w, from)
<1>1. \A p : Onward(p).done = FALSE /\ Onward(p).w = p /\ Landed(p).done = TRUE /\ Landed(p).w = p
  BY DEF Onward, Landed
<1>2. QED  BY <1>1 DEF GoingBack

(* One turn of the loop back goes to an earlier day or has arrived.        *)
LEMMA TurnGoesBack ==
    ASSUME NEW from \in WallPoints, FieldsFit, NEW acc \in GoingBack(from)
    PROVE  /\ TurnBack(acc, FirstYear(from)) \in GoingBack(from)
           /\ acc.done \in BOOLEAN
           /\ ~TurnBack(acc, FirstYear(from)).done => ~acc.done /\ acc.w \in Ends /\ acc.w \in WallPoints
                                     /\ TurnBack(acc, FirstYear(from)).w \in Ends /\ Sooner(TurnBack(acc, FirstYear(from)).w, acc.w)
<1>1. CASE acc.done
  BY <1>1 DEF TurnBack, GoingBack, Onward, Landed
<1>2. CASE ~acc.done
  <2>1. PICK p \in Ends : OnTheWayBack(p, from) /\ acc = Onward(p)
    BY <1>2 DEF GoingBack, Landed
  <2>2. TurnBack(acc, FirstYear(from)) = HopBack(p, FirstYear(from)) /\ acc.w = p /\ acc.done = FALSE
    BY <2>1 DEF TurnBack, Onward
  <2>0. FirstYear(from) \in Nat /\ 1 <= FirstYear(from) /\ p \in Clock
    BY <2>1, SearchedYears, EndsAreClocks
  <2>3. CASE p.y < FirstYear(from)
    <3>2. HopBack(p, FirstYear(from)) = Landed(Nothing)
      BY <2>3 DEF HopBack
    <3>3. ArrivedBack(Nothing, from)
      <4>1. \A x \in WallPoints : AwaitedBack(x, from) => Before(p, x)
        <5> SUFFICES ASSUME NEW x \in WallPoints, FirstYear(from) <= x.y PROVE p.y < x.y
          BY DEF Before, AwaitedBack
        <5>1. x.y \in Nat /\ p.y \in Nat
          BY <2>0, WallFields DEF Clock
        <5>2. QED  BY <2>0, <2>3, <5>1
      <4>2. QED  BY <2>1, <4>1 DEF ArrivedBack, OnTheWayBack
    <3>4. Landed(Nothing) \in GoingBack(from) /\ Landed(Nothing).done = TRUE
      BY <3>3, TurnsBack
    <3>5. TurnBack(acc, FirstYear(from)).done = TRUE /\ TurnBack(acc, FirstYear(from)) \in GoingBack(from) /\ acc.done = FALSE
      BY <2>2, <3>2, <3>4
    <3>6. QED  BY <3>5
  <2>4. CASE ~(p.y < FirstYear(from))
    <3>0. p \in WallPoints /\ p.mi = Hour - 1 /\ FirstYear(from) <= p.y
      <4>1. FirstYear(from) <= p.y /\ p # Nothing
        BY <2>0, <2>4, NothingFields DEF Clock
      <4>2. QED  BY <2>1, <4>1 DEF Ends
    <3>1. CASE p.mo \notin compiled.months \/ PrevDayIn(p) = {}
      <4>1. HopBack(p, FirstYear(from)) = Onward(PrevMonth(p))
        BY <2>4, <3>1 DEF HopBack
      <4>2. OnTheWayBack(PrevMonth(p), from) /\ Sooner(PrevMonth(p), p)
        BY <2>1, <3>0, <3>1, MonthIsPassedBack, PrevMonthIs
      <4>3. PrevMonth(p) \in Ends
        BY <4>2 DEF OnTheWayBack
      <4>4. /\ Onward(PrevMonth(p)) \in GoingBack(from) /\ Onward(PrevMonth(p)).done = FALSE
            /\ Onward(PrevMonth(p)).w = PrevMonth(p)
        BY <4>2, <4>3, TurnsBack
      <4>5. QED  BY <2>1, <2>2, <3>0, <4>1, <4>2, <4>3, <4>4
    <3>2. CASE p.mo \in compiled.months /\ PrevDayIn(p) # {}
      <4> DEFINE d == Max(PrevDayIn(p))
                 upto == IF d # p.d THEN HoursPerDay - 1 ELSE p.h
                 earlier == {h \in compiled.hours : h <= upto}
                 r == [At(p.y, p.mo, d, Max(earlier)) EXCEPT !.mi = Max(compiled.minutes)]
                 n == PrevDay(At(p.y, p.mo, d, 0))
      <4>1. HopBack(p, FirstYear(from)) = IF earlier = {} THEN Onward(n) ELSE Landed(r)
        BY <2>4, <3>2 DEF HopBack
      <4>2. CASE earlier = {}
        <5>1. OnTheWayBack(n, from) /\ Sooner(n, p)
          BY <2>1, <3>0, <3>2, <4>2, DayIsPassedBack
        <5> HIDE DEF n, earlier
        <5>2. n \in Ends
          BY <5>1 DEF OnTheWayBack
        <5>3. Onward(n) \in GoingBack(from) /\ Onward(n).done = FALSE /\ Onward(n).w = n
          BY <5>1, <5>2, TurnsBack
        <5>4. QED  BY <2>1, <2>2, <3>0, <4>1, <4>2, <5>1, <5>2, <5>3
      <4>3. CASE earlier # {}
        <5>1. r \in WallPoints /\ ArrivedBack(r, from)
          BY <2>1, <3>0, <3>2, <4>3, HourIsFoundBack
        <5> HIDE DEF r, earlier
        <5>2. QED  BY <2>2, <4>1, <4>3, <5>1, TurnsBack
      <4>4. QED  BY <4>2, <4>3
    <3>3. QED  BY <3>1, <3>2
  <2>5. QED  BY <2>3, <2>4
<1>3. QED  BY <1>1, <1>2

(* prevBefore is the last match before w.                                  *)
LEMMA PrevArrives ==
    ASSUME NEW w \in WallPoints, FieldsFit
    PROVE  PrevBefore(w) \in WallPoints \cup {Nothing} /\ ArrivedBack(PrevBefore(w), w)
<1> DEFINE minutes == {m \in compiled.minutes : m < w.mi}
           atOnce  == w.mo \in compiled.months /\ DayMatches(w) /\ w.h \in compiled.hours /\ minutes # {}
           r    == [w EXCEPT !.mi = Max(minutes)]
           b    == Onward(PrevHour(w))
           IsAfter(f) == f = [k \in 0..Hops |-> IF k = 0 THEN b ELSE TurnBack(f[k - 1], FirstYear(w))]
           f    == CHOOSE f : IsAfter(f)
<1>1. PrevBefore(w) = IF atOnce THEN r ELSE f[Hops].w
  BY DEF PrevBefore
<1>2. CASE atOnce
  <2>1. Max(minutes) \in minutes /\ \A m \in minutes : m <= Max(minutes)
    <3>1. minutes \in SUBSET (0..Hour - 1) /\ Hour - 1 \in Nat
      BY DEF FieldsFit, Hour
    <3>2. QED  BY <1>2, <3>1, MaxIsIn
  <2>2. Max(minutes) \in 0..Hour - 1
    BY <2>1 DEF FieldsFit
  <2>3. r = [y |-> w.y, mo |-> w.mo, d |-> w.d, h |-> w.h, mi |-> Max(minutes)]
    BY <2>2, WallFields DEF Clock, Hour
  <2>4. r.y = w.y /\ r.mo = w.mo /\ r.d = w.d /\ r.h = w.h /\ r.mi = Max(minutes)
    BY <2>3
  <2>5. r \in WallPoints
    BY <2>2, <2>3, WallFields, FirstDays, IsWallPoint
  <2> HIDE DEF r
  <2>6. AwaitedBack(r, w)
    <3>1. Matches(r)
      BY <1>2, <2>1, <2>4, <2>5, DayOfMatch DEF Matches
    <3>2. Before(r, w)
      BY <2>1, <2>4, <2>5, WallFields DEF Before
    <3>3. QED  BY <2>4, <2>5, <3>1, <3>2, SearchedYears DEF AwaitedBack
  <2>7. ASSUME NEW x \in WallPoints, AwaitedBack(x, w), Before(r, x)
        PROVE  FALSE
    <3>1. x.mi \in compiled.minutes /\ x.mi < w.mi /\ Max(minutes) < x.mi
      BY <2>4, <2>5, <2>7, WallFields DEF AwaitedBack, Matches, Before, Clock
    <3>2. x.mi <= Max(minutes)
      BY <2>1, <3>1
    <3>3. QED  BY <2>4, <2>5, <3>1, <3>2, WallFields DEF Clock
  <2>8. QED  BY <1>1, <1>2, <2>5, <2>6, <2>7 DEF ArrivedBack
<1>3. CASE ~atOnce
  <2> DEFINE Y == GoingBack(w)
             F == [acc \in Y |-> TurnBack(acc, FirstYear(w))]
             D == {acc \in Y : acc.done}
             R == [acc \in Y |-> IF acc.done THEN 0 ELSE RankBack(acc.w)]
  <2>1. b \in Y
    <3>1. PrevHour(w) \in Ends /\ Before(PrevHour(w), w)
      BY PrevHourIs
    <3>2. ASSUME NEW x \in WallPoints, AwaitedBack(x, w), Before(PrevHour(w), x)
          PROVE  FALSE
      <4>1. FromHour(x, w) /\ Before(x, w) /\ Matches(x)
        BY <3>2, PrevHourIs DEF AwaitedBack
      <4>2. x.y = w.y /\ x.mo = w.mo /\ x.d = w.d /\ x.h = w.h /\ x.mi < w.mi
        BY <4>1, WallFields DEF FromHour, FromDay, Before, Clock
      <4>3. DayMatches(w)
        BY <4>1, <4>2, DayOfMatch DEF Matches
      <4>4. QED  BY <1>3, <4>1, <4>2, <4>3 DEF Matches
    <3>3. QED  BY <3>1, <3>2, TurnsBack DEF OnTheWayBack
  <2>2. F \in [Y -> Y]
    BY TurnGoesBack
  <2>3. \A acc \in Y : acc \notin D => acc.w \in Ends /\ acc.done = FALSE
    BY TurnsBack
  <2>4. R \in [Y -> Nat]
    BY <2>3, RankBackGrows
  <2>5. \A acc \in Y : acc \notin D => R[acc] <= Ranks
    BY <2>3, RankBackGrows
  <2>6. \A acc \in Y : F[acc] \notin D => acc \notin D /\ R[acc] < R[F[acc]]
    <3> SUFFICES ASSUME NEW acc \in Y, F[acc] \notin D
                 PROVE  acc \notin D /\ R[acc] < R[F[acc]]
      OBVIOUS
    <3>1. F[acc] = TurnBack(acc, FirstYear(w)) /\ TurnBack(acc, FirstYear(w)) \in Y /\ ~TurnBack(acc, FirstYear(w)).done
      BY TurnGoesBack
    <3>2. /\ ~acc.done /\ acc.w \in Ends /\ acc.w \in WallPoints
          /\ TurnBack(acc, FirstYear(w)).w \in Ends /\ Sooner(TurnBack(acc, FirstYear(w)).w, acc.w)
      BY <3>1, TurnGoesBack
    <3>3. RankBack(acc.w) < RankBack(TurnBack(acc, FirstYear(w)).w)
      BY <3>2, RankBackGrows
    <3>4. QED  BY <3>1, <3>2, <3>3
  <2>7. Hops \in Nat /\ Ranks \in Nat /\ Ranks < Hops
    <3>1. Hops \in Nat /\ Ranks \in Nat /\ Ranks + 1 < Hops
      BY HopsSuffice
    <3>2. QED  BY <3>1
  <2>8. f[0] = b /\ \A k \in 1..Hops : f[k] = TurnBack(f[k - 1], FirstYear(w))
    <3>1. PICK g : Taken(g, Y, b, F, Hops)
      <4>1. IsTurn(F, Y)
        BY <2>2 DEF IsTurn
      <4> HIDE DEF Y, b, F
      <4>2. QED  BY <2>1, <2>7, <4>1, TurnsExist
    <3>2. \A k \in 1..Hops : k - 1 \in 0..Hops
      BY <2>7
    <3> HIDE DEF Y, b
    <3>6. g \in [0..Hops -> Y] /\ g[0] = b /\ \A k \in 1..Hops : g[k] = TurnBack(g[k - 1], FirstYear(w))
      BY <3>1, <3>2 DEF Taken
    <3> HIDE DEF F
    <3>3. IsAfter(g)
      BY <2>7, <3>6
    <3>4. IsAfter(f)
      <4> HIDE DEF IsAfter
      <4>1. QED  BY <3>3
    <3> HIDE DEF f
    <3>5. QED  BY <2>7, <3>4
  <2> HIDE DEF f
  <2>9. f[Hops] \in D
    <3>1. Follows(f, Y, b, F, Hops)
      BY <2>8 DEF Follows
    <3>2. Climbs(R, Y, F, D, Ranks)
      <4> HIDE DEF Y, F, D, R
      <4>1. QED  BY <2>4, <2>5, <2>6 DEF Climbs
    <3>3. IsTurn(F, Y)
      BY <2>2 DEF IsTurn
    <3> HIDE DEF Y, b, F, D, R
    <3>4. QED  BY <2>1, <2>7, <3>1, <3>2, <3>3, LoopArrives
  <2>10. f[Hops].w \in WallPoints \cup {Nothing} /\ ArrivedBack(f[Hops].w, w)
    BY <2>9, TurnsBack
  <2>11. QED  BY <1>1, <1>3, <2>10
<1>4. QED  BY <1>2, <1>3

(* Where the fields fit, the jumps are exact.                              *)
LEMMA JumpsArrive ==
    ASSUME FieldsFit
    PROVE  JumpsFindTheMatches
<1> SUFFICES ASSUME NEW w \in WallPoints
    PROVE  /\ IsLeast(NextAfter(w), {x \in WallPoints :
                 Matches(x) /\ WallOrdinal(w) < WallOrdinal(x) /\ x.y <= w.y + Reach})
           /\ IsGreatest(PrevBefore(w), {x \in WallPoints :
                 Matches(x) /\ WallOrdinal(x) < WallOrdinal(w) /\ w.y - Reach <= x.y})
  BY DEF JumpsFindTheMatches
<1> DEFINE Later  == {x \in WallPoints : Matches(x) /\ WallOrdinal(w) < WallOrdinal(x) /\ x.y <= w.y + Reach}
           Earlier == {x \in WallPoints : Matches(x) /\ WallOrdinal(x) < WallOrdinal(w) /\ w.y - Reach <= x.y}
           n == NextAfter(w)
           p == PrevBefore(w)
<1>1. \A x : x \in Later <=> Awaited(x, w)
  BY OrdinalOrder, SearchedYears DEF Awaited
<1>2. \A x : x \in Earlier <=> AwaitedBack(x, w)
  BY OrdinalOrder, SearchedYears DEF AwaitedBack
<1>3. Later \subseteq WallPoints /\ Earlier \subseteq WallPoints
  OBVIOUS
<1> HIDE DEF Later, Earlier
<1>4. Arrived(n, w)
  BY NextArrives
<1>5. ArrivedBack(p, w)
  BY PrevArrives
<1> HIDE DEF n, p
<1>6. IsLeast(n, Later)
  <2>1. CASE n \in Later
    <3>1. \A x \in Later : ~Before(x, n)
      <4>1. ~(n = Nothing /\ \A x \in WallPoints : ~Awaited(x, w))
        BY <1>1, <1>3, <2>1
      <4>2. QED  BY <1>1, <1>3, <1>4, <4>1 DEF Arrived
    <3>2. \A x \in Later : WallOrdinal(n) <= WallOrdinal(x)
      BY <1>3, <2>1, <3>1, OrdinalOrder
    <3>3. QED  BY <2>1, <3>2 DEF IsLeast
  <2>2. CASE n \notin Later
    <3>1. n = Nothing /\ Later = {}
      BY <1>1, <1>3, <1>4, <2>2 DEF Arrived
    <3>2. QED  BY <3>1 DEF IsLeast
  <2>3. QED  BY <2>1, <2>2
<1>7. IsGreatest(p, Earlier)
  <2>1. CASE p \in Earlier
    <3>1. \A x \in Earlier : ~Before(p, x)
      <4>1. ~(p = Nothing /\ \A x \in WallPoints : ~AwaitedBack(x, w))
        BY <1>2, <1>3, <2>1
      <4>2. QED  BY <1>2, <1>3, <1>5, <4>1 DEF ArrivedBack
    <3>2. \A x \in Earlier : WallOrdinal(x) <= WallOrdinal(p)
      BY <1>3, <2>1, <3>1, OrdinalOrder
    <3>3. QED  BY <2>1, <3>2 DEF IsGreatest
  <2>2. CASE p \notin Earlier
    <3>1. p = Nothing /\ Earlier = {}
      BY <1>2, <1>3, <1>5, <2>2 DEF ArrivedBack
    <3>2. QED  BY <3>1 DEF IsGreatest
  <2>3. QED  BY <2>1, <2>2
<1>8. QED  BY <1>6, <1>7 DEF Later, Earlier, n, p

-----------------------------------------------------------------------------
(* What is compiled                                                        *)

(* Every field has a lowest and a highest number.                          *)
LEMMA FieldRange ==
    ASSUME NEW f \in DOMAIN Fields
    PROVE  /\ Fields[f].min \in Nat /\ Fields[f].max \in Nat /\ EffMax(f) \in Nat
           /\ Fields[f].min <= EffMax(f) /\ EffMax(f) <= Fields[f].max
           /\ f # "dows" => EffMax(f) = Fields[f].max
           /\ f = "dows" => EffMax(f) = Fields[f].max - 1
<1>1. f \in {"minutes", "hours", "doms", "months", "dows"}
  BY DEF Fields
<1>2. /\ HoursPerDay - 1 \in Nat /\ Hour - 1 \in Nat /\ MaxDay \in Nat /\ MaxDay >= 1
      /\ Months \in Nat /\ Months >= 1 /\ WeekLen \in Nat /\ WeekLen >= 1
  BY CalendarAssumption DEF Hour
<1>3. CASE f = "minutes"
  <2>1. Fields[f].min = 0 /\ Fields[f].max = Hour - 1
    BY <1>3 DEF Fields
  <2>2. QED  BY <1>2, <1>3, <2>1 DEF EffMax
<1>4. CASE f = "hours"
  <2>1. Fields[f].min = 0 /\ Fields[f].max = HoursPerDay - 1
    BY <1>4 DEF Fields
  <2>2. QED  BY <1>2, <1>4, <2>1 DEF EffMax
<1>5. CASE f = "doms"
  <2>1. Fields[f].min = 1 /\ Fields[f].max = MaxDay
    BY <1>5 DEF Fields
  <2>2. QED  BY <1>2, <1>5, <2>1 DEF EffMax
<1>6. CASE f = "months"
  <2>1. Fields[f].min = 1 /\ Fields[f].max = Months
    BY <1>6 DEF Fields
  <2>2. QED  BY <1>2, <1>6, <2>1 DEF EffMax
<1>7. CASE f = "dows"
  <2>1. Fields[f].min = 0 /\ Fields[f].max = WeekLen
    BY <1>7 DEF Fields
  <2>2. QED  BY <1>2, <1>7, <2>1 DEF EffMax
<1>8. QED  BY <1>1, <1>3, <1>4, <1>5, <1>6, <1>7

(* An atom without a step walks one by one.                                *)
LEMMA StepOfOne == Max({0, 1}) = 1
<1>1. {0, 1} \in SUBSET (0..1) /\ {0, 1} # {}
  OBVIOUS
<1>2. Max({0, 1}) \in {0, 1} /\ \A x \in {0, 1} : x <= Max({0, 1})
  BY <1>1, MaxIsIn
<1>3. QED  BY <1>2

(* What an atom of the stored form names.                                  *)
LEMMA AtomsWalked ==
    ASSUME NEW f \in DOMAIN Fields
    PROVE  /\ Walked(f, Atom("any", 0)) = Fields[f].min..Fields[f].max
           /\ \A v \in Nat : Walked(f, Atom("value", v)) = {v}
<1>1. \A body, v : Atom(body, v).body = body /\ Atom(body, v).lo = v /\ Atom(body, v).step = 0
  BY DEF Atom
<1>2. Fields[f].min \in Nat /\ Fields[f].max \in Nat
  BY FieldRange
<1>3. Walked(f, Atom("any", 0)) = Fields[f].min..Fields[f].max
  <2> DEFINE lo == Fields[f].min
             hi == Fields[f].max
  <2>1. Bounds(f, Atom("any", 0)) = <<lo, hi>> /\ Max({Atom("any", 0).step, 1}) = 1
    BY <1>1, StepOfOne DEF Bounds
  <2>2. Walked(f, Atom("any", 0)) = {v \in lo..hi : (v - lo) % 1 = 0}
    BY <2>1 DEF Walked
  <2> HIDE DEF lo, hi
  <2>3. \A v \in lo..hi : (v - lo) % 1 = 0
    BY <1>2 DEF lo, hi
  <2>4. QED  BY <2>2, <2>3 DEF lo, hi
<1>4. ASSUME NEW v \in Nat
      PROVE  Walked(f, Atom("value", v)) = {v}
  <2> DEFINE a == Atom("value", v)
  <2>0. a.body = "value" /\ a.lo = v /\ a.step = 0
    BY <1>1
  <2> HIDE DEF a
  <2>1. Bounds(f, a) = <<v, v>> /\ Max({a.step, 1}) = 1
    BY <2>0, StepOfOne DEF Bounds
  <2>2. Walked(f, a) = {x \in v..v : (x - v) % 1 = 0}
    BY <2>1 DEF Walked
  <2>3. v..v = {v} /\ (v - v) % 1 = 0
    OBVIOUS
  <2>4. QED  BY <2>2, <2>3 DEF a
<1>5. QED  BY <1>3, <1>4

(* The stored form of a set of values reads back as that set: every field, *)
(* the whole of its range written "*", Sunday's second name folded.        *)
THEOREM CanonicalReadsBack ==
    ASSUME NEW f \in DOMAIN Fields, NEW S \in SUBSET (Fields[f].min..EffMax(f))
    PROVE  ParseFieldSet(f, Canonical(f, S)) = S
<1> DEFINE lo == Fields[f].min
           hi == Fields[f].max
           top == EffMax(f)
           N(v) == Normalize(f, v)
<1>1. /\ lo \in Nat /\ hi \in Nat /\ top \in Nat /\ lo <= top /\ top <= hi
      /\ f # "dows" => top = hi
      /\ f = "dows" => top = hi - 1
  BY FieldRange
<1>2. \A v : N(v) = IF f = "dows" /\ v = hi THEN lo ELSE v
  BY DEF Normalize
<1>3. /\ Walked(f, Atom("any", 0)) = lo..hi
      /\ \A v \in Nat : Walked(f, Atom("value", v)) = {v}
  BY AtomsWalked
<1>4. \A atoms : ParseFieldSet(f, atoms) = {N(v) : v \in UNION {Walked(f, a) : a \in atoms}}
  BY DEF ParseFieldSet
<1>5. Canonical(f, S) = IF S = lo..top THEN {Atom("any", 0)} ELSE {Atom("value", v) : v \in S}
  BY DEF Canonical
<1>6. S \subseteq lo..top
  OBVIOUS
<1> HIDE DEF lo, hi, top, N
<1>7. \A v \in lo..top : N(v) = v
  BY <1>1, <1>2
<1>8. CASE S = lo..top
  <2>0. Canonical(f, S) = {Atom("any", 0)}
    BY <1>5, <1>8
  <2>1. UNION {Walked(f, a) : a \in Canonical(f, S)} = lo..hi
    <3> DEFINE star == Atom("any", 0)
               all  == lo..hi
    <3>1. Walked(f, star) = all /\ Canonical(f, S) = {star}
      BY <1>3, <2>0
    <3> HIDE DEF star, all
    <3>2. UNION {Walked(f, a) : a \in {star}} = all
      BY <3>1
    <3>3. QED  BY <3>1, <3>2 DEF all
  <2>2. ParseFieldSet(f, Canonical(f, S)) = {N(v) : v \in lo..hi}
    BY <1>4, <2>1
  <2>3. \A v \in lo..hi : N(v) \in lo..top
    BY <1>1, <1>2
  <2>4. \A v \in lo..top : v \in lo..hi
    BY <1>1
  <2>5. QED  BY <1>7, <1>8, <2>2, <2>3, <2>4
<1>9. CASE S # lo..top
  <2>1. S \subseteq Nat
    BY <1>1, <1>6
  <2>2. UNION {Walked(f, a) : a \in Canonical(f, S)} = S
    BY <1>3, <1>5, <1>9, <2>1
  <2>3. ParseFieldSet(f, Canonical(f, S)) = {N(v) : v \in S}
    BY <1>4, <2>2
  <2>4. QED  BY <1>6, <1>7, <2>3
<1>10. QED  BY <1>8, <1>9

(* A field that is not refused names a number of it at least.              *)
LEMMA WrittenFits ==
    ASSUME NEW f \in DOMAIN Fields, NEW atoms \in SUBSET Atoms, ~Refused(f, atoms)
    PROVE  ParseFieldSet(f, atoms) \subseteq Fields[f].min..EffMax(f) /\ ParseFieldSet(f, atoms) # {}
<1> DEFINE lo == Fields[f].min
           hi == Fields[f].max
           top == EffMax(f)
<1>1. /\ lo \in Nat /\ hi \in Nat /\ top \in Nat /\ lo <= top /\ top <= hi
      /\ f # "dows" => top = hi
      /\ f = "dows" => top = hi - 1
  BY FieldRange
<1>2. \A v : Normalize(f, v) = IF f = "dows" /\ v = hi THEN lo ELSE v
  BY DEF Normalize
<1>3. ASSUME NEW a \in atoms, NEW v \in Walked(f, a)
      PROVE  v \in lo..hi
  <2>1. ~(v < lo) /\ ~(v > hi)
    BY DEF Refused
  <2>2. v \in Int
    <3>1. a.lo \in Nat /\ a.hi \in Nat
      BY DEF Atoms
    <3>2. Bounds(f, a) \in {<<lo, hi>>, <<a.lo, a.lo>>, <<a.lo, top>>, <<a.lo, a.hi>>}
      BY DEF Bounds
    <3> HIDE DEF lo, hi, top
    <3>3. Bounds(f, a)[1] \in Int /\ Bounds(f, a)[2] \in Int
      BY <1>1, <3>1, <3>2
    <3>4. v \in Bounds(f, a)[1]..Bounds(f, a)[2]
      BY DEF Walked
    <3>5. QED  BY <3>3, <3>4
  <2>3. QED  BY <1>1, <2>1, <2>2
<1>4. \E a \in atoms : Walked(f, a) # {}
  BY DEF Refused
<1> HIDE DEF lo, hi, top
<1>5. \A v \in lo..hi : Normalize(f, v) \in lo..top
  BY <1>1, <1>2
<1>6. ParseFieldSet(f, atoms) \subseteq lo..top
  BY <1>3, <1>5 DEF ParseFieldSet
<1>7. ParseFieldSet(f, atoms) # {}
  BY <1>4 DEF ParseFieldSet
<1>8. QED  BY <1>6, <1>7 DEF lo, top

(* What is compiled is what was written, and within its field.             *)
LEMMA CompiledFits ==
    ASSUME NEW expr \in Expressions, Parsed(expr), NEW f \in DOMAIN Fields
    PROVE  /\ Compile(expr)[f] = Written(expr, f)
           /\ Compile(expr)[f] \subseteq Fields[f].min..EffMax(f) /\ Compile(expr)[f] # {}
<1>1. expr[f] \in Seq(Atoms)
  BY ExpressionsAssumption
<1>2. ToSet(expr[f]) \in SUBSET Atoms
  BY <1>1 DEF ToSet
<1>3. ~Refused(f, ToSet(expr[f]))
  BY DEF Parsed
<1>4. Written(expr, f) \subseteq Fields[f].min..EffMax(f) /\ Written(expr, f) # {}
  BY <1>2, <1>3, WrittenFits DEF Written
<1>5. Compile(expr)[f] = ParseFieldSet(f, Canonical(f, Written(expr, f)))
  BY DEF Compile
<1>6. QED  BY <1>4, <1>5, CanonicalReadsBack

(* The compiled fields fit in every state: they are read from the stored   *)
(* form of an expression that was not refused, and nothing changes them.   *)
LEMMA FieldsFitAlways == CronSpec => []FieldsFit
<1>1. ASSUME CronInit
      PROVE  FieldsFit
  <2>1. PICK expr \in Expressions : Parsed(expr) /\ compiled = Compile(expr)
    BY <1>1 DEF CronInit
  <2>2. "hours" \in DOMAIN Fields /\ Fields["hours"].min = 0 /\ EffMax("hours") = HoursPerDay - 1
    BY DEF Fields, EffMax
  <2>3. "minutes" \in DOMAIN Fields /\ Fields["minutes"].min = 0 /\ EffMax("minutes") = Hour - 1
    BY DEF Fields, EffMax
  <2>4. compiled["hours"] \subseteq 0..HoursPerDay - 1
    BY <2>1, <2>2, CompiledFits
  <2>5. compiled["minutes"] \subseteq 0..Hour - 1 /\ compiled["minutes"] # {}
    BY <2>1, <2>3, CompiledFits
  <2>6. QED  BY <2>4, <2>5 DEF FieldsFit
<1>2. FieldsFit /\ [TakeNext]_cronVars => FieldsFit'
  BY DEF FieldsFit, TakeNext, Take, cronVars
<1>3. QED  BY <1>1, <1>2, PTL DEF CronSpec

(* Safety (jumps): in every calendar, for every expression, the iterator's *)
(* next is the least match after a wall clock and its last the greatest    *)
(* before it.                                                              *)
THEOREM JumpsAreExactAlways == CronSpec => []JumpsFindTheMatches /\ []JumpsAreExact
<1>1. FieldsFit => JumpsFindTheMatches
  BY JumpsArrive
<1>2. JumpsFindTheMatches => JumpsAreExact
  BY DEF JumpsAreExact
<1>3. QED  BY <1>1, <1>2, FieldsFitAlways, PTL


=============================================================================
