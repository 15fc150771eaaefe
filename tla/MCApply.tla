------------------------------ MODULE MCApply ------------------------------
(* Two jobs whose files contest one sensor name, change one schedule and   *)
(* drop either.                                                            *)
EXTENDS Apply, TLC

CONSTANTS j1, j2, n1, s1, d1, d2, p1, p2

Doc(schedule, sensor) ==
    [schedules |-> [n \in {n1} |-> schedule], sensors |-> [s \in {s1} |-> sensor]]

Few == {Doc(d1, d1), Doc(d2, NoDef), Doc(NoDef, d2)}
(* Jobs and commands are only ever compared.                               *)
Symmetry == {f @@ g : f \in Permutations({j1, j2}), g \in Permutations({p1, p2})}
=============================================================================
