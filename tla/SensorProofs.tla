---------------------------- MODULE SensorProofs ----------------------------
(* What a sensor promises, proved for every feed, batch limit and breaker   *)
(* threshold, and any number of operator moves, errors and crashes.         *)
EXTENDS Sensor, TLAPS

(* An operator's moves and the errors reported bound what they change.      *)
CountsAreBounded ==
    /\ row.epoch <= moves
    /\ row.failures + (IF ev.stage = "answered" /\ ev.verdict = "failed" THEN 1 ELSE 0) <= errors

(* An answer with triggers covers exactly what lies between the cursor the  *)
(* sensor was given and the one it returns.                                 *)
AnswerIsTheGap ==
    ev.stage = "answered" /\ ev.verdict = "triggered" => ev.batch = (ev.cursor + 1)..ev.after

(* While the version has not moved on, the cursor the evaluation was given  *)
(* is the row's.                                                            *)
OpenTickIsCurrent ==
    Open /\ ev.match /\ ~tainted => row.there /\ ev.cursor = row.cursor

(* A run key is registered exactly while it accounts for one run.           *)
KeysCountRuns ==
    \A x \in Epochs \X Events : runs[x] = IF x \in keys THEN 1 ELSE 0

Inv ==
    /\ TypeOK /\ CountsAreBounded
    /\ AnswerIsTheGap /\ OpenTickIsCurrent /\ NothingBehindTheCursor
    /\ KeysCountRuns
    /\ BreakerIsOneStory

-----------------------------------------------------------------------------
(* The evaluation.                                                         *)

(* What is known of the evaluation at each stage.                          *)
LEMMA Stages ==
    ASSUME TypeOK
    PROVE  /\ ev.stage \in {"none", "claimed", "begun", "answered"}
           /\ ev.stage = "none" <=> ev = Nothing
           /\ ev.stage = "claimed" => ev \in [stage : {"claimed"}, cursor : Cursors]
           /\ ev.stage = "begun" => ev \in [stage : {"begun"}, cursor : Cursors, match : BOOLEAN]
           /\ ev.stage = "answered" =>
                ev \in [stage : {"answered"}, cursor : Cursors, match : BOOLEAN,
                        verdict : Verdicts, batch : SUBSET Events, after : Cursors]
BY DEF TypeOK, Nothing

(* The sensor answers the gap up to its limit, or beyond it, or nothing.   *)
LEMMA EvaluateStep ==
    ASSUME Inv, Evaluate
    PROVE  /\ ev' \in [stage : {"answered"}, cursor : {ev.cursor}, match : {ev.match},
                       verdict : Verdicts, batch : SUBSET Events, after : Cursors]
           /\ ev'.verdict = "triggered" => ev'.batch = (ev.cursor + 1)..ev'.after
           /\ errors' \in 0..MaxErrors /\ errors' >= errors
           /\ ev'.verdict = "failed" => errors' = errors + 1
<1> USE SensorAssumption
<1>0. /\ ev.stage = "begun" /\ ev.cursor \in Cursors /\ arrived \in Cursors
      /\ errors \in 0..MaxErrors
  BY Stages DEF Evaluate, Inv, TypeOK
<1>1. ASSUME NEW last \in Cursors
      PROVE  (ev.cursor + 1)..last \in SUBSET Events
  BY <1>0 DEF Cursors, Events
<1> USE DEF Answered, Verdicts
<1>2. CASE /\ ev.cursor < arrived
           /\ LET most == ev.cursor + MaxTriggers
                  last == IF most < arrived THEN most ELSE arrived
              IN  Answered("triggered", (ev.cursor + 1)..last, last)
           /\ UNCHANGED errors
  <2>1. PICK last \in Cursors : Answered("triggered", (ev.cursor + 1)..last, last)
    <3>1. CASE ev.cursor + MaxTriggers < arrived
      BY <1>0, <1>2, <3>1 DEF Cursors
    <3>2. CASE ~(ev.cursor + MaxTriggers < arrived)
      BY <1>0, <1>2, <3>2 DEF Cursors
    <3>3. QED  BY <3>1, <3>2
  <2>2. QED  BY <1>0, <1>1, <1>2, <2>1
<1>3. CASE /\ ev.cursor + MaxTriggers < arrived
           /\ errors < MaxErrors /\ errors' = errors + 1
           /\ Answered("triggered", (ev.cursor + 1)..arrived, arrived)
  BY <1>0, <1>1, <1>3
<1>4. CASE /\ ev.cursor >= arrived
           /\ \E w \in {ev.cursor, MaxEvents} : Answered("skipped", {}, w)
           /\ UNCHANGED errors
  BY <1>0, <1>4 DEF Cursors
<1>5. CASE /\ errors < MaxErrors /\ errors' = errors + 1
           /\ \E v \in {"failed", "exempt"} : Answered(v, {}, ev.cursor)
  BY <1>0, <1>5
<1>6. QED  BY <1>2, <1>3, <1>4, <1>5 DEF Evaluate

-----------------------------------------------------------------------------
(* The invariant over one step.                                            *)

(* Reading a due row, claiming it and opening the tick.                    *)
LEMMA OpenStep ==
    ASSUME Inv, Due \/ Dispatch \/ Begin
    PROVE  Inv'
<1> USE DEF Inv, bounds, feedVars
<1>1. CASE Due
  BY <1>1 DEF Due, TypeOK, CountsAreBounded, AnswerIsTheGap, OpenTickIsCurrent, Open,
     NothingBehindTheCursor, KeysCountRuns, BreakerIsOneStory
<1>2. CASE Dispatch
  <2>1. \/ ev' = ev
        \/ ev' \in [stage : {"claimed"}, cursor : Cursors] /\ ev = Nothing
    <3>1. spec.cursor \in Cursors
      BY <1>2 DEF Dispatch, TypeOK
    <3>2. CASE Admits /\ ev = Nothing
      BY <1>2, <3>1, <3>2 DEF Dispatch
    <3>3. CASE ~(Admits /\ ev = Nothing)
      BY <1>2, <3>3, Zenon DEF Dispatch
    <3>4. QED  BY <3>2, <3>3
  <2>2. CASE ev' = ev
    BY <1>2, <2>2 DEF Dispatch, TypeOK, CountsAreBounded, AnswerIsTheGap, OpenTickIsCurrent, Open,
       NothingBehindTheCursor, KeysCountRuns, BreakerIsOneStory
  <2>3. CASE ev' \in [stage : {"claimed"}, cursor : Cursors] /\ ev = Nothing
    BY <1>2, <2>3 DEF Dispatch, TypeOK, CountsAreBounded, AnswerIsTheGap, OpenTickIsCurrent, Open,
       NothingBehindTheCursor, KeysCountRuns, BreakerIsOneStory, Nothing
  <2>4. QED  BY <2>1, <2>2, <2>3
<1>3. CASE Begin
  <2>1. ev.stage = "claimed" /\ ev \in [stage : {"claimed"}, cursor : Cursors]
    BY <1>3, Stages DEF Begin
  <2>2. CASE row.there
    BY <1>3, <2>1, <2>2 DEF Begin, TypeOK, CountsAreBounded, AnswerIsTheGap, OpenTickIsCurrent, Open,
       NothingBehindTheCursor, KeysCountRuns, BreakerIsOneStory
  <2>3. CASE ~row.there
    BY <1>3, <2>1, <2>3 DEF Begin, TypeOK, CountsAreBounded, AnswerIsTheGap, OpenTickIsCurrent, Open,
       NothingBehindTheCursor, KeysCountRuns, BreakerIsOneStory, Nothing
  <2>4. QED  BY <2>2, <2>3
<1>4. QED  BY <1>1, <1>2, <1>3

(* The sensor answers.                                                     *)
LEMMA AnswerStep ==
    ASSUME Inv, Evaluate
    PROVE  Inv'
<1>1. /\ ev' \in [stage : {"answered"}, cursor : {ev.cursor}, match : {ev.match},
                   verdict : Verdicts, batch : SUBSET Events, after : Cursors]
      /\ ev'.verdict = "triggered" => ev'.batch = (ev.cursor + 1)..ev'.after
      /\ errors' \in 0..MaxErrors /\ errors' >= errors
      /\ ev'.verdict = "failed" => errors' = errors + 1
  BY EvaluateStep
<1>2. ev.stage = "begun" /\ ev \in [stage : {"begun"}, cursor : Cursors, match : BOOLEAN]
  BY Stages DEF Evaluate, Inv
<1>3. UNCHANGED <<row, feedVars, spec, up, hung, tainted, crashes, moves>>
  BY DEF Evaluate
<1> USE DEF Inv, feedVars
<1>4. TypeOK'
  BY <1>1, <1>2, <1>3 DEF TypeOK
<1>5. CountsAreBounded'
  BY <1>1, <1>2, <1>3, SensorAssumption DEF TypeOK, CountsAreBounded
<1>6. AnswerIsTheGap' /\ OpenTickIsCurrent'
  BY <1>1, <1>2, <1>3 DEF AnswerIsTheGap, OpenTickIsCurrent, Open
<1>7. NothingBehindTheCursor' /\ KeysCountRuns' /\ BreakerIsOneStory'
  BY <1>3 DEF NothingBehindTheCursor, KeysCountRuns, BreakerIsOneStory
<1>8. QED  BY <1>4, <1>5, <1>6, <1>7

(* The counter and the stamp of the breaker as the commit sets them.       *)
LEMMA BreakerArithmetic ==
    ASSUME Inv, ev.stage = "answered"
    PROVE  /\ FailuresAfter \in 0..errors
           /\ BreakerAfter \in {"shut", "cooling", "cooled"}
           /\ FailuresAfter >= Threshold <=> BreakerAfter # "shut"
<1>1. /\ row.failures \in Nat /\ errors \in Nat /\ row.breaker \in {"shut", "cooling", "cooled"}
      /\ row.failures <= errors
      /\ ev.verdict = "failed" => row.failures + 1 <= errors
      /\ row.failures >= Threshold <=> row.breaker # "shut"
  BY SensorAssumption DEF Inv, TypeOK, CountsAreBounded, BreakerIsOneStory
<1>2. FailuresAfter \in 0..errors
  BY <1>1 DEF FailuresAfter
<1>3. FailuresAfter > row.failures \/ FailuresAfter = row.failures \/ FailuresAfter = 0
  BY <1>1 DEF FailuresAfter
<1> HIDE DEF FailuresAfter
<1>4. CASE FailuresAfter < Threshold
  BY <1>2, <1>4, SensorAssumption DEF BreakerAfter
<1>5. CASE FailuresAfter >= Threshold /\ FailuresAfter > row.failures
  BY <1>1, <1>2, <1>5, SensorAssumption DEF BreakerAfter
<1>6. CASE FailuresAfter >= Threshold /\ ~(FailuresAfter > row.failures)
  <2>1. FailuresAfter = row.failures
    BY <1>2, <1>3, <1>6, SensorAssumption
  <2>2. BreakerAfter = row.breaker
    BY <1>1, <1>6, <2>1, SensorAssumption DEF BreakerAfter
  <2>3. QED  BY <1>1, <1>2, <1>6, <2>1, <2>2
<1>7. QED  BY <1>2, <1>4, <1>5, <1>6, SensorAssumption

(* What is inserted is a batch of the row's epoch, and the cursor stays    *)
(* where it was unless the whole gap was inserted.                         *)
LEMMA WhatIsKept ==
    ASSUME Inv, ev.stage = "answered"
    PROVE  /\ Kept \subseteq Events
           /\ Advance \in Cursors
           /\ Advance = row.cursor \/ (Advance = ev.after /\ Kept = (ev.cursor + 1)..ev.after)
BY Stages DEF Inv, TypeOK, AnswerIsTheGap, Kept, Advance

(* The commit of an evaluation.                                            *)
LEMMA CommitStep ==
    ASSUME Inv, Commit
    PROVE  Inv'
<1> USE DEF Inv
<1>1. ev.stage = "answered" /\ ev' = Nothing
  BY DEF Commit
<1>2. UNCHANGED <<jumped, arrived, spec, up, hung, tainted, bounds>>
  BY DEF Commit
<1>3. AnswerIsTheGap' /\ OpenTickIsCurrent'
  BY <1>1 DEF AnswerIsTheGap, OpenTickIsCurrent, Open, Nothing
<1>4. CASE UNCHANGED <<row, keys, runs, offered>>
  <2>1. TypeOK'
    BY <1>1, <1>2, <1>4 DEF TypeOK, bounds
  <2>2. CountsAreBounded'
    BY <1>1, <1>2, <1>4, SensorAssumption DEF TypeOK, CountsAreBounded, bounds, Nothing
  <2>3. NothingBehindTheCursor' /\ KeysCountRuns' /\ BreakerIsOneStory'
    BY <1>2, <1>4 DEF NothingBehindTheCursor, KeysCountRuns, BreakerIsOneStory
  <2>4. QED  BY <1>3, <2>1, <2>2, <2>3
<1>5. CASE ~(UNCHANGED <<row, keys, runs, offered>>)
  <2>1. PICK rejected \in SUBSET Fresh :
          /\ ~Fenced
          /\ row' = [row EXCEPT !.cursor = Advance, !.due = FALSE,
                                !.failures = FailuresAfter, !.breaker = BreakerAfter]
          /\ Materialise(rejected)
    BY <1>5 DEF Commit, CommitSensorTick
  <2>2. /\ FailuresAfter \in 0..errors
        /\ BreakerAfter \in {"shut", "cooling", "cooled"}
        /\ FailuresAfter >= Threshold <=> BreakerAfter # "shut"
    BY <1>1, BreakerArithmetic
  <2>3. /\ Kept \subseteq Events
        /\ Advance \in Cursors
        /\ Advance = row.cursor \/ (Advance = ev.after /\ Kept = (ev.cursor + 1)..ev.after)
    BY <1>1, WhatIsKept
  <2> HIDE DEF FailuresAfter, BreakerAfter, Kept, Advance
  <2>4. /\ row \in [there : BOOLEAN, cursor : Cursors, epoch : Epochs,
                    failures : 0..(MaxErrors + MaxMoves), breaker : {"shut", "cooling", "cooled"},
                    due : BOOLEAN, paused : BOOLEAN]
        /\ errors \in 0..MaxErrors /\ moves \in 0..MaxMoves
    BY DEF TypeOK
  <2>5. row' \in [there : BOOLEAN, cursor : Cursors, epoch : Epochs,
                  failures : 0..(MaxErrors + MaxMoves), breaker : {"shut", "cooling", "cooled"},
                  due : BOOLEAN, paused : BOOLEAN]
    <3>1. FailuresAfter \in 0..(MaxErrors + MaxMoves)
      BY <2>2, <2>4, SensorAssumption
    <3>2. QED  BY <2>1, <2>2, <2>3, <2>4, <3>1
  <2>6. Fresh \subseteq Epochs \X Events /\ {<<row.epoch, e>> : e \in Kept} \subseteq Epochs \X Events
    BY <2>3, <2>4 DEF Fresh
  <2>7. runs' \in [Epochs \X Events -> Nat] /\ KeysCountRuns'
    BY <2>1, <2>6 DEF Materialise, Registered, Fresh, KeysCountRuns, TypeOK
  <2>8. TypeOK'
    BY <1>1, <1>2, <2>1, <2>5, <2>6, <2>7 DEF TypeOK, Materialise, Registered, bounds
  <2>9. CountsAreBounded'
    BY <1>1, <1>2, <2>1, <2>2, <2>4, SensorAssumption DEF CountsAreBounded, bounds, Nothing
  <2>10. BreakerIsOneStory'
    BY <2>1, <2>2, <2>4 DEF BreakerIsOneStory
  <2>11. NothingBehindTheCursor'
    <3> SUFFICES ASSUME row'.there, ~tainted', NEW e \in Events, e <= row'.cursor
                 PROVE  <<row'.epoch, e>> \in offered' \cup jumped'
      BY DEF NothingBehindTheCursor
    <3>1. row.there /\ ev.cursor = row.cursor
      BY <1>1, <1>2, <2>1 DEF Fenced, OpenTickIsCurrent, Open
    <3>2. row'.cursor = Advance /\ row'.epoch = row.epoch /\ offered \subseteq offered'
          /\ {<<row.epoch, x>> : x \in Kept} \subseteq offered'
      BY <2>1, <2>4 DEF Materialise
    <3>3. CASE e <= row.cursor
      BY <1>2, <3>1, <3>2, <3>3 DEF NothingBehindTheCursor
    <3>4. CASE ~(e <= row.cursor)
      <4>1. e \in (ev.cursor + 1)..ev.after
        BY <2>3, <2>4, <3>1, <3>2, <3>4, SensorAssumption DEF Events, Cursors
      <4>2. e \in Kept
        BY <2>3, <3>2, <3>4, <4>1
      <4>3. QED  BY <3>2, <4>2
    <3>5. QED  BY <3>3, <3>4
  <2>12. QED  BY <1>3, <2>7, <2>8, <2>9, <2>10, <2>11
<1>6. QED  BY <1>4, <1>5

-----------------------------------------------------------------------------
(* The operator.                                                           *)

(* A move that leaves epoch, cursor and presence alone: pause, resume,     *)
(* force due, and a row an apply drops.                                    *)
LEMMA PlainMove ==
    ASSUME Inv, PauseSensor \/ ResumeSensor \/ SetSensorDue \/ RemoveSensor
    PROVE  Inv'
<1> USE SensorAssumption DEF Inv
<1>1. /\ \/ row' = [row EXCEPT !.paused = TRUE]
         \/ row' = [row EXCEPT !.paused = FALSE, !.failures = 0, !.breaker = "shut"]
         \/ row' = [row EXCEPT !.due = TRUE]
         \/ row' = [row EXCEPT !.there = FALSE] /\ ~up
      /\ up \/ ~Open
      /\ moves < MaxMoves /\ moves' = moves + 1
      /\ jumped' = jumped /\ keys' = keys
      /\ runs' = [x \in DOMAIN runs |-> runs[x]]
      /\ UNCHANGED <<offered, arrived, spec, ev, up, hung, tainted, errors, crashes>>
  BY DEF PauseSensor, ResumeSensor, SetSensorDue, RemoveSensor, Moved
<1>2. /\ row'.epoch = row.epoch /\ row'.cursor = row.cursor
      /\ row'.there => row.there
      /\ row.there => row'.there \/ ~Open
      /\ \/ row'.failures = row.failures /\ row'.breaker = row.breaker
         \/ row'.failures = 0 /\ row'.breaker = "shut"
  BY <1>1 DEF TypeOK
<1>3. runs' = runs
  BY <1>1 DEF TypeOK
<1>4. TypeOK'
  <2>1. row' \in [there : BOOLEAN, cursor : Cursors, epoch : Epochs,
                failures : 0..(MaxErrors + MaxMoves), breaker : {"shut", "cooling", "cooled"},
                due : BOOLEAN, paused : BOOLEAN]
    <3>1. /\ row \in [there : BOOLEAN, cursor : Cursors, epoch : Epochs,
                      failures : 0..(MaxErrors + MaxMoves),
                      breaker : {"shut", "cooling", "cooled"}, due : BOOLEAN, paused : BOOLEAN]
          /\ 0 \in 0..(MaxErrors + MaxMoves)
      BY DEF TypeOK
    <3> DEFINE Fails == 0..(MaxErrors + MaxMoves)
    <3> HIDE DEF Fails
    <3>2. QED  BY <1>1, <3>1 DEF Inv, Fails
  <2>2. moves' \in 0..MaxMoves
    BY <1>1 DEF TypeOK
  <2>3. QED  BY <1>1, <1>3, <2>1, <2>2 DEF TypeOK
<1>5. CountsAreBounded'
  BY <1>1, <1>2 DEF CountsAreBounded, TypeOK, Epochs
<1>6. AnswerIsTheGap' /\ OpenTickIsCurrent'
  BY <1>1, <1>2 DEF AnswerIsTheGap, OpenTickIsCurrent, Open
<1>7. NothingBehindTheCursor' /\ KeysCountRuns'
  BY <1>1, <1>2, <1>3 DEF NothingBehindTheCursor, KeysCountRuns
<1>8. BreakerIsOneStory'
  BY <1>2 DEF BreakerIsOneStory
<1>9. QED  BY <1>4, <1>5, <1>6, <1>7, <1>8

(* A move of the cursor bumps the version, and what it steps over is noted.*)
LEMMA CursorMove ==
    ASSUME Inv, NEW c \in Cursors, NEW n, NEW over, NEW dropped \in SUBSET keys, NEW due,
           \/ n = row.epoch /\ over = {<<n, e>> : e \in (row.cursor + 1)..c}
           \/ n = row.epoch + 1 /\ over = {<<n, e>> : e \in 1..c},
           due \in BOOLEAN,
           Moved([row EXCEPT !.epoch = n, !.cursor = c, !.due = due], over, dropped),
           ev' = Bumped
    PROVE  Inv'
<1> USE SensorAssumption DEF Inv
<1>1. /\ row' = [row EXCEPT !.epoch = n, !.cursor = c, !.due = due]
      /\ moves < MaxMoves /\ moves' = moves + 1
      /\ jumped' = jumped \cup over /\ keys' = keys \ dropped
      /\ runs' = [x \in DOMAIN runs |-> IF x \in dropped THEN 0 ELSE runs[x]]
      /\ row.there
      /\ UNCHANGED <<offered, arrived, spec, up, hung, tainted, errors, crashes>>
  BY DEF Moved
<1>2. row.epoch \in Epochs /\ row.epoch <= moves /\ moves \in 0..MaxMoves /\ row.cursor \in Cursors
  BY DEF TypeOK, CountsAreBounded
<1>3. n \in Epochs /\ n <= moves'
  BY <1>1, <1>2 DEF Epochs
<1>4. over \subseteq Epochs \X Events
  BY <1>2, <1>3 DEF Cursors, Events
<1>5. /\ row' \in [there : BOOLEAN, cursor : Cursors, epoch : Epochs,
                    failures : 0..(MaxErrors + MaxMoves), breaker : {"shut", "cooling", "cooled"},
                    due : BOOLEAN, paused : BOOLEAN]
      /\ row'.epoch = n /\ row'.cursor = c
      /\ row'.failures = row.failures /\ row'.breaker = row.breaker
  BY <1>1, <1>3 DEF TypeOK
<1>6. /\ \/ ev' = ev /\ ~Open
         \/ /\ Open /\ ~ev'.match
            /\ \/ ev' \in [stage : {"begun"}, cursor : Cursors, match : BOOLEAN]
               \/ ev' \in [stage : {"answered"}, cursor : Cursors, match : BOOLEAN,
                           verdict : Verdicts, batch : SUBSET Events, after : Cursors]
            /\ ev'.stage = ev.stage /\ ev'.cursor = ev.cursor
            /\ ev.stage = "answered" =>
                 ev'.verdict = ev.verdict /\ ev'.batch = ev.batch /\ ev'.after = ev.after
  <2>1. CASE ~Open
    BY <2>1 DEF Bumped
  <2>2. CASE ev.stage = "begun"
    BY <2>2, Stages DEF Bumped, Open
  <2>3. CASE ev.stage = "answered"
    BY <2>3, Stages DEF Bumped, Open
  <2>4. QED  BY <2>1, <2>2, <2>3 DEF Open
<1>7. TypeOK'
  <2>1. moves' \in 0..MaxMoves
    BY <1>1, <1>2
  <2>2. runs' \in [Epochs \X Events -> Nat]
    BY <1>1 DEF TypeOK
  <2>3. \/ ev' = Nothing
        \/ ev' \in [stage : {"claimed"}, cursor : Cursors]
        \/ ev' \in [stage : {"begun"}, cursor : Cursors, match : BOOLEAN]
        \/ ev' \in [stage : {"answered"}, cursor : Cursors, match : BOOLEAN,
                    verdict : Verdicts, batch : SUBSET Events, after : Cursors]
    BY <1>6 DEF TypeOK
  <2>4. QED  BY <1>1, <1>4, <1>5, <2>1, <2>2, <2>3 DEF TypeOK
<1>8. CountsAreBounded'
  BY <1>1, <1>3, <1>5, <1>6 DEF CountsAreBounded
<1>9. AnswerIsTheGap' /\ OpenTickIsCurrent'
  BY <1>6 DEF AnswerIsTheGap, OpenTickIsCurrent, Open
<1>10. KeysCountRuns' /\ BreakerIsOneStory'
  BY <1>1, <1>5 DEF KeysCountRuns, BreakerIsOneStory, TypeOK
<1>11. NothingBehindTheCursor'
  <2> SUFFICES ASSUME ~tainted, NEW e \in Events, e <= c
               PROVE  <<n, e>> \in offered \cup jumped \cup over
    BY <1>1, <1>5 DEF NothingBehindTheCursor
  <2>1. CASE n = row.epoch /\ e <= row.cursor
    BY <1>1, <2>1 DEF NothingBehindTheCursor
  <2>2. CASE ~(n = row.epoch /\ e <= row.cursor)
    <3>1. e \in Nat /\ e >= 1 /\ row.cursor \in Nat
      BY <1>2 DEF Events, Cursors
    <3>2. CASE n = row.epoch
      BY <1>2, <2>2, <3>1, <3>2 DEF Cursors, Epochs
    <3>3. CASE n = row.epoch + 1
      BY <1>2, <2>2, <3>1, <3>3 DEF Cursors, Epochs
    <3>4. QED  BY <3>2, <3>3
  <2>3. QED  BY <2>1, <2>2
<1>12. QED  BY <1>7, <1>8, <1>9, <1>10, <1>11

(* The forced tick of a store without a daemon, and a sensor that comes    *)
(* back.                                                                   *)
LEMMA FreshStart ==
    ASSUME Inv, RunSensorsTick \/ AddSensor
    PROVE  Inv'
<1> USE SensorAssumption DEF Inv
<1>1. CASE SetSensorDue
  BY <1>1, PlainMove
<1>2. CASE RunSensorsTick /\ ~SetSensorDue
  <2>1. /\ ev = Nothing /\ row' = row /\ keys' = keys /\ jumped' = jumped
        /\ moves < MaxMoves /\ moves' = moves + 1
        /\ runs' = [x \in DOMAIN runs |-> runs[x]]
        /\ UNCHANGED <<offered, arrived, spec, up, hung, tainted, errors, crashes>>
        /\ ev' = [stage |-> "claimed", cursor |-> row.cursor]
    BY <1>2 DEF RunSensorsTick, Moved
  <2>2. runs' = runs /\ moves' \in 0..MaxMoves
    BY <2>1 DEF TypeOK
  <2>3. ev' \in [stage : {"claimed"}, cursor : Cursors]
    BY <2>1 DEF TypeOK
  <2>4. TypeOK'
    BY <2>1, <2>2, <2>3 DEF TypeOK
  <2>5. CountsAreBounded' /\ AnswerIsTheGap' /\ OpenTickIsCurrent'
    BY <2>1, <2>3 DEF CountsAreBounded, AnswerIsTheGap, OpenTickIsCurrent, Open, Nothing, TypeOK, Epochs
  <2>6. NothingBehindTheCursor' /\ KeysCountRuns' /\ BreakerIsOneStory'
    BY <2>1, <2>2 DEF NothingBehindTheCursor, KeysCountRuns, BreakerIsOneStory
  <2>7. QED  BY <2>4, <2>5, <2>6
<1>3. CASE AddSensor
  <2>1. /\ moves < MaxMoves /\ moves' = moves + 1 /\ ~Open
        /\ row' = [there |-> TRUE, cursor |-> 0, epoch |-> 0, failures |-> 0,
                   breaker |-> "shut", due |-> TRUE, paused |-> FALSE]
        /\ UNCHANGED <<feedVars, spec, ev, up, hung, tainted, errors, crashes>>
    BY <1>3 DEF AddSensor
  <2>2. TypeOK'
    BY <2>1 DEF TypeOK, Cursors, Epochs, feedVars
  <2>3. CountsAreBounded' /\ AnswerIsTheGap' /\ OpenTickIsCurrent'
    BY <2>1 DEF CountsAreBounded, AnswerIsTheGap, OpenTickIsCurrent, Open, TypeOK
  <2>4. NothingBehindTheCursor' /\ KeysCountRuns' /\ BreakerIsOneStory'
    BY <2>1 DEF NothingBehindTheCursor, KeysCountRuns, BreakerIsOneStory, feedVars, Events
  <2>5. QED  BY <2>2, <2>3, <2>4
<1>4. QED  BY <1>1, <1>2, <1>3

(* Every command of the operator keeps the invariant.                      *)
LEMMA OperatorStep ==
    ASSUME Inv, Operator
    PROVE  Inv'
<1>1. ASSUME NEW c \in Targets, NEW forget \in BOOLEAN, ResetSensor(c, forget)
      PROVE  Inv'
  <2> DEFINE over == {<<EpochAfter, e>> : e \in 1..c}
             dropped == IF forget THEN keys ELSE {}
  <2>1. dropped \in SUBSET keys /\ c \in Cursors
    BY SensorAssumption
  <2>2. Moved([row EXCEPT !.epoch = EpochAfter, !.cursor = c, !.due = TRUE], over, dropped) /\ ev' = Bumped
    BY <1>1 DEF ResetSensor
  <2> HIDE DEF dropped
  <2>3. QED  BY <2>1, <2>2, CursorMove DEF EpochAfter
<1>2. ASSUME NEW c \in Targets, SetSensorCursor(c)
      PROVE  Inv'
  <2> DEFINE over == {<<row.epoch, e>> : e \in (row.cursor + 1)..c}
  <2>1. [row EXCEPT !.cursor = c] = [row EXCEPT !.epoch = row.epoch, !.cursor = c, !.due = row.due]
        /\ row.due \in BOOLEAN
    BY DEF Inv, TypeOK
  <2>2. Moved([row EXCEPT !.epoch = row.epoch, !.cursor = c, !.due = row.due], over, {}) /\ ev' = Bumped
    BY <1>2, <2>1 DEF SetSensorCursor
  <2>3. QED  BY <2>1, <2>2, CursorMove, SensorAssumption
<1>3. QED
  BY <1>1, <1>2, PlainMove, FreshStart DEF Operator, RunSensorsReset, RunSensorsCursorSet

-----------------------------------------------------------------------------
(* Time, the feed and the daemon's life.                                   *)

(* The stamp of a tripped breaker only cools.                              *)
LEMMA CoolStep ==
    ASSUME Inv, CoolDown
    PROVE  Inv'
<1>1. /\ row' = [row EXCEPT !.breaker = "cooled"] /\ row.breaker = "cooling"
      /\ UNCHANGED <<feedVars, spec, ev, up, hung, tainted, bounds>>
  BY DEF CoolDown
<1>2. TypeOK'
  BY <1>1 DEF Inv, TypeOK, feedVars, bounds
<1>3. BreakerIsOneStory'
  BY <1>1 DEF Inv, TypeOK, BreakerIsOneStory
<1>4. /\ row'.there = row.there /\ row'.epoch = row.epoch /\ row'.cursor = row.cursor
      /\ row'.failures = row.failures
  BY <1>1 DEF Inv, TypeOK
<1>5. CountsAreBounded'
  BY <1>1, <1>4 DEF Inv, CountsAreBounded, bounds
<1>6. AnswerIsTheGap' /\ OpenTickIsCurrent'
  BY <1>1, <1>4 DEF Inv, AnswerIsTheGap, OpenTickIsCurrent, Open
<1>7. NothingBehindTheCursor' /\ KeysCountRuns'
  BY <1>1, <1>4 DEF Inv, NothingBehindTheCursor, KeysCountRuns, feedVars
<1>8. QED  BY <1>2, <1>3, <1>5, <1>6, <1>7 DEF Inv

(* Nothing else of this touches what the properties are about.             *)
LEMMA LifeStep ==
    ASSUME Inv, BecomeDue \/ CoolDown \/ Arrive \/ Crash \/ Start \/ UNCHANGED vars
    PROVE  Inv'
<1>1. CASE CoolDown
  BY <1>1, CoolStep
<1>2. CASE UNCHANGED vars
  <2>1. TypeOK'
    BY <1>2 DEF Inv, vars, feedVars, bounds, TypeOK
  <2>2. CountsAreBounded' /\ AnswerIsTheGap' /\ OpenTickIsCurrent'
    BY <1>2 DEF Inv, vars, feedVars, bounds, CountsAreBounded, AnswerIsTheGap, OpenTickIsCurrent, Open
  <2>3. NothingBehindTheCursor' /\ KeysCountRuns' /\ BreakerIsOneStory'
    BY <1>2 DEF Inv, vars, feedVars, bounds, NothingBehindTheCursor, KeysCountRuns, BreakerIsOneStory
  <2>4. QED  BY <2>1, <2>2, <2>3 DEF Inv
<1>3. CASE Crash \/ Start
  <2>1. /\ ev' = Nothing /\ spec' \in {spec, Nothing}
        /\ up' \in BOOLEAN /\ hung' \in BOOLEAN
        /\ crashes' \in 0..MaxCrashes
        /\ UNCHANGED <<row, feedVars, tainted, errors, moves>>
    <3>0. /\ hung \in BOOLEAN /\ up \in BOOLEAN /\ crashes \in 0..MaxCrashes
          /\ ev.stage \in {"none", "claimed", "begun", "answered"}
      BY Stages DEF Inv, TypeOK
    <3>1. CASE Crash
      <4>1. (hung \/ Open) \in BOOLEAN
        BY <3>0 DEF Open
      <4>2. hung' \in BOOLEAN
        BY <3>1, <4>1, Zenon DEF Crash
      <4>3. crashes' \in 0..MaxCrashes
        BY <3>0, <3>1, SensorAssumption DEF Crash
      <4>4. /\ up' = FALSE /\ spec' = Nothing /\ ev' = Nothing
            /\ UNCHANGED <<row, feedVars, tainted, errors, moves>>
        BY <3>1 DEF Crash
      <4>5. QED  BY <4>2, <4>3, <4>4
    <3>2. CASE Start
      BY <3>0, <3>2 DEF Start, bounds
    <3>3. QED  BY <1>3, <3>1, <3>2
  <2>2. TypeOK'
    BY <2>1 DEF Inv, TypeOK, feedVars
  <2>3. CountsAreBounded'
    <3>1. row.failures <= errors
      BY SensorAssumption DEF Inv, TypeOK, CountsAreBounded
    <3>2. row.failures \in Nat /\ row.epoch <= moves
      BY SensorAssumption DEF Inv, TypeOK, CountsAreBounded
    <3>3. QED  BY <2>1, <3>1, <3>2 DEF CountsAreBounded, Nothing
  <2>4. AnswerIsTheGap' /\ OpenTickIsCurrent'
    BY <2>1 DEF AnswerIsTheGap, OpenTickIsCurrent, Open, Nothing
  <2>5. NothingBehindTheCursor' /\ KeysCountRuns' /\ BreakerIsOneStory'
    BY <2>1 DEF Inv, feedVars, NothingBehindTheCursor, KeysCountRuns, BreakerIsOneStory
  <2>6. QED  BY <2>2, <2>3, <2>4, <2>5 DEF Inv
<1> USE SensorAssumption DEF Inv, feedVars, bounds, TypeOK, CountsAreBounded, AnswerIsTheGap,
        OpenTickIsCurrent, Open, NothingBehindTheCursor, KeysCountRuns, BreakerIsOneStory
<1>4. CASE BecomeDue
  BY <1>4 DEF BecomeDue
<1>5. CASE Arrive
  BY <1>5 DEF Arrive, Cursors
<1>6. QED  BY <1>1, <1>2, <1>3, <1>4, <1>5

(* At first the feed is empty and the row new.                             *)
LEMMA InitInv == Init => Inv
<1> SUFFICES ASSUME Init PROVE Inv
  OBVIOUS
<1> USE SensorAssumption DEF Init, Nothing
<1>1. TypeOK
  <2>1. row \in [there : BOOLEAN, cursor : Cursors, epoch : Epochs,
                failures : 0..(MaxErrors + MaxMoves), breaker : {"shut", "cooling", "cooled"},
                due : BOOLEAN, paused : BOOLEAN]
    BY DEF Cursors, Epochs
  <2>2. runs \in [Epochs \X Events -> Nat]
    OBVIOUS
  <2>3. /\ arrived \in Cursors /\ errors \in 0..MaxErrors
        /\ crashes \in 0..MaxCrashes /\ moves \in 0..MaxMoves
    BY DEF Cursors
  <2>4. QED  BY <2>1, <2>2, <2>3 DEF TypeOK
<1>2. CountsAreBounded /\ AnswerIsTheGap /\ OpenTickIsCurrent
  BY DEF CountsAreBounded, AnswerIsTheGap, OpenTickIsCurrent, Open
<1>3. NothingBehindTheCursor /\ KeysCountRuns /\ BreakerIsOneStory
  BY DEF NothingBehindTheCursor, KeysCountRuns, BreakerIsOneStory, Events
<1>4. QED  BY <1>1, <1>2, <1>3 DEF Inv

-----------------------------------------------------------------------------
(* The theorems.                                                           *)

(* The inductive invariant: the open tick of a version that still stands   *)
(* works from the row's cursor, its answer covers the gap it closes, and a *)
(* run key is registered exactly while it accounts for a run.              *)
THEOREM SensorInvariant == Spec => []Inv
<1>1. Inv /\ [Next]_vars => Inv'
  BY OpenStep, AnswerStep, CommitStep, OperatorStep, LifeStep DEF Next
<1>2. QED  BY <1>1, InitInv, PTL DEF Spec

(* The row, the run keys and the evaluation keep their types; the count of *)
(* consecutive failures never passes the errors reported.                  *)
THEOREM SensorTypes == Spec => []TypeOK
<1>1. Inv => TypeOK
  BY DEF Inv
<1>2. QED  BY <1>1, SensorInvariant, PTL

(* No event is lost behind the cursor: the commit of CommitSensorTick      *)
(* advances it with the batch, only from the version the tick opened at,   *)
(* and never for a batch ApplyLimit has cut.                               *)
THEOREM CursorFollowsTheWork == Spec => []NothingBehindTheCursor
<1>1. Inv => NothingBehindTheCursor
  BY DEF Inv
<1>2. QED  BY <1>1, SensorInvariant, PTL

(* One event, one run, per epoch: run_keys is asked in the transaction     *)
(* that creates the run, and a rejected trigger gives its key back.        *)
THEOREM RunKeysDeduplicate == Spec => []OneRunPerKey
<1>1. Inv => OneRunPerKey
  <2> SUFFICES ASSUME Inv PROVE OneRunPerKey
    OBVIOUS
  <2>1. DOMAIN runs = Epochs \X Events
    BY DEF Inv, TypeOK
  <2>2. QED  BY <2>1 DEF Inv, KeysCountRuns, OneRunPerKey
<1>2. QED  BY <1>1, SensorInvariant, PTL

(* The failure count and the breaker's stamp agree in every state, so the  *)
(* gate that refuses work and the surface that reports it read one story.  *)
THEOREM BreakerAgrees == Spec => []BreakerIsOneStory
<1>1. Inv => BreakerIsOneStory
  BY DEF Inv
<1>2. QED  BY <1>1, SensorInvariant, PTL

=============================================================================
