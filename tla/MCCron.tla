------------------------------- MODULE MCCron -------------------------------
(* Instances of Cron for TLC: two years of two months, one of each year    *)
(* longer than the other; days of three hours; a week of two days.         *)
EXTENDS Cron

Calendar == <<<<1, 2>>, <<2, 1>>, <<1, 2>>>>

Star     == [body |-> "any", lo |-> 0, hi |-> 0, step |-> 0]
Value(v) == [body |-> "value", lo |-> v, hi |-> 0, step |-> 0]
To(a, b) == [body |-> "range", lo |-> a, hi |-> b, step |-> 0]
By(a, n) == [a EXCEPT !.step = n]

(* Every field once restricted and once not; ranges that run backwards or  *)
(* leave the field are refused, "1-2" is both days of the week.            *)
Some ==
    [minutes : {<<Value(1)>>, <<Star>>, <<Value(2)>>},
     hours   : {<<By(Star, 2)>>, <<Value(2), By(Value(0), 1)>>},
     doms    : {<<Value(2)>>, <<To(1, 2)>>, <<To(2, 1)>>},
     months  : {<<Value(2)>>, <<Value(1), Value(2), Value(1)>>},
     dows    : {<<By(Value(1), 1)>>, <<To(1, 2)>>}]

(* Clocks that jump and fall back by an hour over the end of a month, and  *)
(* by half an hour up to and from a midnight within one.                   *)
Changes == [at : {4}, old : {1}, new : {3}] \cup [at : {4}, old : {3}, new : {1}]
      \cup [at : {10}, old : {1}, new : {2}] \cup [at : {10}, old : {2}, new : {1}]
=============================================================================
