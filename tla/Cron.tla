-------------------------------- MODULE Cron --------------------------------
(***************************************************************************)
(* internal/cronx: the occurrences of a cron expression in a time zone,    *)
(* with one change of offset in reach, and a caller that walks a window in *)
(* pieces, as the scheduler does from its cursor.                          *)
(*                                                                         *)
(* Instants and wall clocks count half hours, the finest step a change of  *)
(* offset has here.  The calendar is small: LastDay gives the days of      *)
(* every month there is.  An expression is five fields of atoms, read as   *)
(* the parser reads them; their spelling is left out.                      *)
(***************************************************************************)
EXTENDS Integers, FiniteSets, SequencesExt

CONSTANTS
    Years, Months, HoursPerDay, WeekLen,
    LastDay,        \* LastDay[y][mo]
    MaxDay,         \* the longest month
    Reach,          \* how many years a search looks ahead or back
    Expressions,    \* the five fields as written
    Zones,          \* [at, old, new]: the offset is old before at and new from then on
    SpringForward, FallBack,    \* policies to try
    End             \* bound: the last instant

ASSUME CalendarAssumption ==
    /\ {Years, Months, HoursPerDay, WeekLen, MaxDay, End} \subseteq Nat \ {0}
    /\ Reach \in Nat
    /\ LastDay \in [1..Years -> [1..Months -> 1..MaxDay]]
ASSUME PolicyAssumption ==
    SpringForward \subseteq {"skip", "shift"} /\ FallBack \subseteq {"first", "both"}

Hour    == 2
DayLen  == HoursPerDay * Hour
Nothing == [y |-> 0, mo |-> 0, d |-> 0, h |-> 0, mi |-> 0]

(* The first and the last minute of an hour.                               *)
At(y, mo, d, h)    == [y |-> y, mo |-> mo, d |-> d, h |-> h, mi |-> 0]
EndOf(y, mo, d, h) == [y |-> y, mo |-> mo, d |-> d, h |-> h, mi |-> Hour - 1]

WallPoints ==
    {w \in [y : 1..Years, mo : 1..Months, d : 1..MaxDay, h : 0..HoursPerDay - 1, mi : 0..Hour - 1] :
        w.d <= LastDay[w.y][w.mo]}

(* wallOrdinal: months and days have more slots than any calendar fills.   *)
WallOrdinal(w) ==
    ((((w.y * (Months + 1)) + w.mo) * (MaxDay + 1) + w.d) * HoursPerDay + w.h) * Hour + w.mi

(* The same wall clocks without the holes, as a zone counts them.          *)
Dates == {w \in WallPoints : w.h = 0 /\ w.mi = 0}
DateOrder == [w \in Dates |-> Cardinality({e \in Dates : WallOrdinal(e) < WallOrdinal(w)})]
DateAt == [n \in 0..Cardinality(Dates) - 1 |-> CHOOSE w \in Dates : DateOrder[w] = n]

DayNumber(w) == DateOrder[At(w.y, w.mo, w.d, 0)]
Index(w)     == DayNumber(w) * DayLen + w.h * Hour + w.mi
Wall(i)      == [DateAt[i \div DayLen] EXCEPT !.h = (i % DayLen) \div Hour, !.mi = i % Hour]
Weekday(w)   == DayNumber(w) % WeekLen

VARIABLES
    compiled, tz, policy,   \* the expression, its zone and its policy
    cursor,                 \* the caller's cursor
    got,                    \* what the windows walked so far returned
    seam                    \* a window was cut beside the change of offset (observation only)

cronVars == <<compiled, tz, policy, cursor, got, seam>>

-----------------------------------------------------------------------------
(* Zones                                                                   *)

Offset(u) == IF u < tz.at THEN tz.old ELSE tz.new
WallOf(u) == u + Offset(u)

(* time.Date: the offset that holds at the wall clock read as UTC, checked *)
(* once against the instant it gives.                                      *)
Date(i) == i - Offset(i - Offset(i))

SameClock(u, i) == WallOf(u) % DayLen = i % DayLen

Emission(at, skipped, requested) == [at |-> at, skipped |-> skipped, requested |-> requested]

FallBackEmissions(first, second) ==
    <<Emission(first, FALSE, FALSE), Emission(second, policy.fall = "first", FALSE)>>

(* The instants a matched wall clock stands for: one, two when it is       *)
(* doubled, and the landing behind the gap when it does not exist.         *)
Gap(i) ==
    LET t == Date(i)
        preJump == IF WallOf(t) >= i THEN i - t ELSE Offset(t)
    IN  <<Emission(i - preJump, policy.spring = "skip", policy.spring = "skip")>>

(* Mutant: only full hours are looked at.                                  *)
TwinFullHour(i) ==
    LET t == Date(i)
    IN  {d \in {-Hour, Hour} : SameClock(t + d, i)}

Twin(i) ==
    LET t == Date(i)
        by(delta) == {d \in {-delta, delta} : SameClock(t + d, i)}
    IN  IF by(Hour) # {} THEN by(Hour) ELSE by(Hour \div 2)

ClassifyEmissions(i) ==
    LET t == Date(i)
        twins == Twin(i)
    IN  IF ~SameClock(t, i) THEN Gap(i)
        ELSE IF twins = {} THEN <<Emission(t, FALSE, FALSE)>>
        ELSE IF Min(twins) < 0 THEN FallBackEmissions(t + Min(twins), t)
        ELSE FallBackEmissions(t, t + Min(twins))

-----------------------------------------------------------------------------
(* Fields                                                                  *)

(* cronFields.  The weekday's highest number is another name of its lowest.*)
Fields == [minutes |-> [min |-> 0, max |-> Hour - 1],
           hours   |-> [min |-> 0, max |-> HoursPerDay - 1],
           doms    |-> [min |-> 1, max |-> MaxDay],
           months  |-> [min |-> 1, max |-> Months],
           dows    |-> [min |-> 0, max |-> WeekLen]]

Normalize(f, v) == IF f = "dows" /\ v = Fields[f].max THEN Fields[f].min ELSE v
EffMax(f)       == IF f = "dows" THEN Fields[f].max - 1 ELSE Fields[f].max

(* One atom of a field: "*", a value or a range, and a step (0: none       *)
(* written).  A step on a value walks from it to the field's ceiling.      *)
Bounds(f, atom) ==
    CASE atom.body = "any"                     -> <<Fields[f].min, Fields[f].max>>
      [] atom.body = "value" /\ atom.step = 0  -> <<atom.lo, atom.lo>>
      [] atom.body = "value" /\ atom.step # 0  -> <<atom.lo, EffMax(f)>>
      [] OTHER                                 -> <<atom.lo, atom.hi>>

Walked(f, atom) ==
    LET b == Bounds(f, atom)
    IN  {v \in b[1]..b[2] : (v - b[1]) % Max({atom.step, 1}) = 0}

(* parseFieldSet, and what it refuses: a range that runs backwards, a value*)
(* out of range, a field that matches nothing.                             *)
Refused(f, atoms) ==
    \/ \E a \in atoms :
          \/ a.body = "range" /\ a.lo > a.hi
          \/ \E v \in Walked(f, a) : v < Fields[f].min \/ v > Fields[f].max
    \/ \A a \in atoms : Walked(f, a) = {}

ParseFieldSet(f, atoms) ==
    {Normalize(f, v) : v \in UNION {Walked(f, a) : a \in atoms}}

(* canonicalFields: the values one by one, or "*" for all there are.  It is*)
(* what is stored, and what compile reads again.                           *)
Atom(body, v)     == [body |-> body, lo |-> v, hi |-> 0, step |-> 0]
Canonical(f, set) == IF set = Fields[f].min..EffMax(f) THEN {Atom("any", 0)}
                     ELSE {Atom("value", v) : v \in set}

(* Every atom is digits and marks: its numbers are naturals.               *)
Atoms == [body : {"any", "value", "range"}, lo : Nat, hi : Nat, step : Nat]
ASSUME ExpressionsAssumption ==
    \A expr \in Expressions : \A f \in DOMAIN Fields : expr[f] \in Seq(Atoms)

Written(expr, f) == ParseFieldSet(f, ToSet(expr[f]))
Parsed(expr)     == \A f \in DOMAIN Fields : ~Refused(f, ToSet(expr[f]))
Compile(expr)    == [f \in DOMAIN Fields |-> ParseFieldSet(f, Canonical(f, Written(expr, f)))]

DomWild == compiled.doms = 1..MaxDay
DowWild == compiled.dows = 0..WeekLen - 1

(* The Vixie rule: when both day fields are restricted, either will do.    *)
DayMatches(w) ==
    CASE DomWild /\ DowWild  -> TRUE
      [] DomWild /\ ~DowWild -> Weekday(w) \in compiled.dows
      [] ~DomWild /\ DowWild -> w.d \in compiled.doms
      [] OTHER               -> w.d \in compiled.doms \/ Weekday(w) \in compiled.dows

Matches(w) ==
    w.mo \in compiled.months /\ w.h \in compiled.hours /\ w.mi \in compiled.minutes /\ DayMatches(w)

(* carryFromHour, carryDay: to the first hour of the next day, month, year.*)
NextMonth(w) ==
    IF w.mo < Months THEN At(w.y, w.mo + 1, 1, 0) ELSE At(w.y + 1, 1, 1, 0)
NextDay(w) ==
    IF w.d < LastDay[w.y][w.mo] THEN At(w.y, w.mo, w.d + 1, 0) ELSE NextMonth(w)
NextHour(w) ==
    IF w.h < HoursPerDay - 1 THEN At(w.y, w.mo, w.d, w.h + 1) ELSE NextDay(w)

NextDayIn(w) == {d \in w.d..LastDay[w.y][w.mo] : DayMatches(At(w.y, w.mo, d, 0))}

Landed(w) == [done |-> TRUE, w |-> w]
Onward(w) == [done |-> FALSE, w |-> w]

(* Mutant: the year the reach ends in is no longer looked at.              *)
LastYearExclusive(w) == IF w.y + Reach - 1 < Years THEN w.y + Reach - 1 ELSE Years

(* The years a search from w looks at.                                     *)
LastYear(w)  == IF w.y + Reach < Years THEN w.y + Reach ELSE Years
FirstYear(w) == IF w.y - Reach > 1 THEN w.y - Reach ELSE 1

(* Mutant: a new day keeps the hour of the old one.                        *)
HopKeepsTheHour(w, last) ==
    IF w.y > last THEN Landed(Nothing)
    ELSE IF w.mo \notin compiled.months \/ NextDayIn(w) = {} THEN Onward(NextMonth(w))
    ELSE LET d     == Min(NextDayIn(w))
             later == {h \in compiled.hours : h >= w.h}
         IN  IF later = {} THEN Onward(NextDay(At(w.y, w.mo, d, 0)))
             ELSE Landed([At(w.y, w.mo, d, Min(later)) EXCEPT !.mi = Min(compiled.minutes)])

(* One turn of nextAfter's loop: the coarsest field that does not fit is   *)
(* moved on, and the finer ones start afresh.                              *)
Hop(w, last) ==
    IF w.y > last THEN Landed(Nothing)
    ELSE IF w.mo \notin compiled.months \/ NextDayIn(w) = {} THEN Onward(NextMonth(w))
    ELSE LET d     == Min(NextDayIn(w))
             from  == IF d # w.d THEN 0 ELSE w.h
             later == {h \in compiled.hours : h >= from}
         IN  IF later = {} THEN Onward(NextDay(At(w.y, w.mo, d, 0)))
             ELSE Landed([At(w.y, w.mo, d, Min(later)) EXCEPT !.mi = Min(compiled.minutes)])

Hops == Years * (Months + 1) * (MaxDay + 1)
Turn(acc, last) == IF acc.done THEN acc ELSE Hop(acc.w, last)

(* nextAfter: a later minute of the hour, or the next hour that fits.      *)
NextAfter(w) ==
    LET minutes == {m \in compiled.minutes : m > w.mi}
        after[k \in 0..Hops] == IF k = 0 THEN Onward(NextHour(w)) ELSE Turn(after[k - 1], LastYear(w))
    IN  IF w.mo \in compiled.months /\ DayMatches(w) /\ w.h \in compiled.hours /\ minutes # {}
        THEN [w EXCEPT !.mi = Min(minutes)]
        ELSE after[Hops].w

(* borrowToHour, retreatMonth, prevDayIn, prevBefore: the same, backwards. *)
LastMoment(y, mo) == EndOf(y, mo, LastDay[y][mo], HoursPerDay - 1)
PrevMonth(w) ==
    IF w.mo > 1 THEN LastMoment(w.y, w.mo - 1)
    ELSE IF w.y > 1 THEN LastMoment(w.y - 1, Months) ELSE Nothing
PrevDay(w) ==
    IF w.d > 1 THEN EndOf(w.y, w.mo, w.d - 1, HoursPerDay - 1) ELSE PrevMonth(w)
PrevHour(w) ==
    IF w.h > 0 THEN EndOf(w.y, w.mo, w.d, w.h - 1) ELSE PrevDay(w)

PrevDayIn(w) == {d \in 1..w.d : DayMatches(At(w.y, w.mo, d, 0))}

(* Mutant: going back, an hour starts at its first minute again.           *)
HopBackToFirst(w, first) ==
    IF w.y < first THEN Landed(Nothing)
    ELSE IF w.mo \notin compiled.months \/ PrevDayIn(w) = {} THEN Onward(PrevMonth(w))
    ELSE LET d       == Max(PrevDayIn(w))
             to      == IF d # w.d THEN HoursPerDay - 1 ELSE w.h
             earlier == {h \in compiled.hours : h <= to}
         IN  IF earlier = {} THEN Onward(PrevDay(At(w.y, w.mo, d, 0)))
             ELSE Landed([At(w.y, w.mo, d, Max(earlier)) EXCEPT !.mi = Min(compiled.minutes)])

HopBack(w, first) ==
    IF w.y < first THEN Landed(Nothing)
    ELSE IF w.mo \notin compiled.months \/ PrevDayIn(w) = {} THEN Onward(PrevMonth(w))
    ELSE LET d       == Max(PrevDayIn(w))
             to      == IF d # w.d THEN HoursPerDay - 1 ELSE w.h
             earlier == {h \in compiled.hours : h <= to}
         IN  IF earlier = {} THEN Onward(PrevDay(At(w.y, w.mo, d, 0)))
             ELSE Landed([At(w.y, w.mo, d, Max(earlier)) EXCEPT !.mi = Max(compiled.minutes)])

TurnBack(acc, first) == IF acc.done THEN acc ELSE HopBack(acc.w, first)

PrevBefore(w) ==
    LET minutes == {m \in compiled.minutes : m < w.mi}
        after[k \in 0..Hops] == IF k = 0 THEN Onward(PrevHour(w)) ELSE TurnBack(after[k - 1], FirstYear(w))
    IN  IF w.mo \in compiled.months /\ DayMatches(w) /\ w.h \in compiled.hours /\ minutes # {}
        THEN [w EXCEPT !.mi = Max(minutes)]
        ELSE after[Hops].w

FirstAtOrAfter(w) == IF Matches(w) THEN w ELSE NextAfter(w)

-----------------------------------------------------------------------------
(* Windows                                                                 *)

Less(k, m) == k.pos < m.pos \/ (k.pos = m.pos /\ k.at < m.at)
Key(w, at) == [pos |-> WallOrdinal(w), at |-> at]
Occurrence(w, e) == [wall |-> w, at |-> e.at, skipped |-> e.skipped]

Emitted(w) ==
    LET es == ClassifyEmissions(Index(w))
    IN  [k \in DOMAIN es |-> Occurrence(w, es[k])]

Lookahead == DayLen

(* Between: the emissions in (from, to], in the order of the timetable.    *)
Between(from, to) ==
    LET start == Wall(WallOf(from))
        kFrom == Key(start, from)
        stop  == WallOrdinal(Wall(WallOf(to))) + Lookahead
        emitted(w) ==
            SelectSeq(Emitted(w), LAMBDA o : Less(kFrom, Key(w, o.at)) /\ o.at <= to)
        turn(acc, k) ==
            IF acc.w = Nothing \/ acc.w.y > start.y + Reach \/ WallOrdinal(acc.w) > stop THEN acc
            ELSE [w |-> NextAfter(acc.w), out |-> acc.out \o emitted(acc.w)]
    IN  FoldLeft(turn, [w |-> FirstAtOrAfter(start), out |-> <<>>],
                 [k \in 1..Cardinality(WallPoints) |-> k]).out

(* cronNext and cronPrev: the nearest emission on either side of an        *)
(* instant, in the order of the timetable.                                 *)
Nearest(from, step(_), beyond(_, _), pick(_)) ==
    LET start == Wall(WallOf(from))
        found(w) ==
            IF ~Matches(w) THEN <<>>
            ELSE SelectSeq(Emitted(w), LAMBDA o : beyond(Key(start, from), Key(w, o.at)))
        turn(acc, k) ==
            IF acc.w = Nothing \/ acc.out # <<>> THEN acc
            ELSE IF found(acc.w) # <<>> THEN [acc EXCEPT !.out = found(acc.w)]
            ELSE [acc EXCEPT !.w = step(acc.w)]
    IN  pick(FoldLeft(turn, [w |-> start, out |-> <<>>],
                      [k \in 1..Cardinality(WallPoints) |-> k]).out)

CronNext(from) == Nearest(from, NextAfter, LAMBDA a, b : Less(a, b), LAMBDA s : IF s = <<>> THEN s ELSE <<Head(s)>>)
CronPrev(from) == Nearest(from, PrevBefore, LAMBDA a, b : Less(b, a), LAMBDA s : IF s = <<>> THEN s ELSE <<Last(s)>>)

-----------------------------------------------------------------------------
CronInit ==
    /\ compiled \in {Compile(e) : e \in {x \in Expressions : Parsed(x)}} /\ tz \in Zones
    /\ policy \in [spring : SpringForward, fall : FallBack]
    /\ cursor = 0 /\ got = <<>> /\ seam = FALSE

(* Within reach of the change: the doubled half hours, first and second    *)
(* pass, and the landings behind a gap.                                    *)
BesideTheChange(u) ==
    IF tz.new < tz.old THEN tz.at - (tz.old - tz.new) <= u /\ u < tz.at + (tz.old - tz.new)
    ELSE tz.at <= u /\ u < tz.at + (tz.new - tz.old)

(* The caller takes the window up to an instant and moves its cursor there.*)
Take(to) ==
    /\ cursor < to /\ to <= End
    /\ got' = got \o Between(cursor, to) /\ cursor' = to
    /\ seam' = (seam \/ (to < End /\ BesideTheChange(to)))
    /\ UNCHANGED <<compiled, tz, policy>>

TakeNext == \E to \in 1..End : Take(to)
CronSpec == CronInit /\ [][TakeNext]_cronVars

-----------------------------------------------------------------------------
(* What a timetable means: every wall clock of the expression, at every    *)
(* instant that shows it; a doubled one twice, of which the policy decides;*)
(* a missing one once, where the old offset puts it.                       *)
Meant ==
    LET shows(w) == {u \in 0..End + DayLen : WallOf(u) = Index(w)}
        occs(w) == IF shows(w) = {}
                   THEN {Occurrence(w, Emission(Index(w) - tz.old, policy.spring = "skip", FALSE))}
                   ELSE {Occurrence(w, Emission(u, u # Min(shows(w)) /\ policy.fall = "first", FALSE)) :
                            u \in shows(w)}
    IN  {o \in UNION {occs(w) : w \in {x \in WallPoints : Matches(x)}} :
            0 < o.at /\ o.at <= End}

(* The field jumps miss nothing and stop nowhere else: from every wall     *)
(* clock the iterator's next is the least matching one after it, its last  *)
(* the greatest before it, and each gives up only when there is none       *)
(* within its reach.                                                       *)
IsLeast(w, set) ==
    IF set = {} THEN w = Nothing
    ELSE w \in set /\ \A x \in set : WallOrdinal(w) <= WallOrdinal(x)
IsGreatest(w, set) ==
    IF set = {} THEN w = Nothing
    ELSE w \in set /\ \A x \in set : WallOrdinal(x) <= WallOrdinal(w)

JumpsFindTheMatches ==
    \A w \in WallPoints :
        /\ IsLeast(NextAfter(w), {x \in WallPoints :
              Matches(x) /\ WallOrdinal(w) < WallOrdinal(x) /\ x.y <= w.y + Reach})
        /\ IsGreatest(PrevBefore(w), {x \in WallPoints :
              Matches(x) /\ WallOrdinal(x) < WallOrdinal(w) /\ w.y - Reach <= x.y})

(* TLC looks once per expression: nothing in it moves with the cursor.     *)
JumpsAreExact == cursor = 0 => JumpsFindTheMatches

(* The field jumps and the read-back of the zone find exactly what the     *)
(* expression means, once each and in the order of the timetable.          *)
BetweenIsTheTimetable ==
    cursor = 0 =>
        LET all == Between(0, End)
            meant == Meant
        IN  /\ ToSet(all) = meant /\ Len(all) = Cardinality(meant)
            /\ \A i \in 1..Len(all) - 1 :
                  Less(Key(all[i].wall, all[i].at), Key(all[i + 1].wall, all[i + 1].at))

(* Next and Prev find the neighbours of any instant in that order: nothing *)
(* that is meant lies between the instant and what they return.            *)
Neighbours ==
    LET meant == Meant
        key(o) == Key(o.wall, o.at)
    IN  cursor = 0 =>
        \A u \in 1..End :
            LET here   == Key(Wall(WallOf(u)), u)
                behind == {o \in meant : Less(key(o), here)}
                ahead  == {o \in meant : Less(here, key(o))}
                prev   == CronPrev(u)
                next   == CronNext(u)
            IN  /\ prev = <<>> => behind = {}
                /\ \A o \in ToSet(prev) : o.at > 0 =>
                       o \in behind /\ \A x \in behind : ~Less(key(o), key(x))
                /\ next = <<>> => ahead = {}
                /\ \A o \in ToSet(next) : o.at <= End =>
                       o \in ahead /\ \A x \in ahead : ~Less(key(x), key(o))

(* The timetable is one, whether it is read as a window or asked for the   *)
(* neighbours of an instant: neither skips or repeats what a change of     *)
(* offset moves.                                                           *)
TimetableIsExact == BetweenIsTheTimetable /\ Neighbours

(* G9: the answer does not depend on where the caller cuts, as long as no  *)
(* cut falls beside a change of offset.                                    *)
CutsDoNotShow ==
    cursor = End /\ ~seam => got = Between(0, End)

=============================================================================
