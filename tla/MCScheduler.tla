---------------------------- MODULE MCScheduler ----------------------------
(* One schedule that fires at every instant.                               *)
EXTENDS Scheduler

Every  == [s \in Schedules |-> Times]
NoDst  == [s \in Schedules |-> {}]
Policy(p) == [s \in Schedules |-> p]
Skip == Policy("skip")

(* Wakes, writes, restarts and the clock go on; no wake has to land within *)
(* a millisecond of a fire-time.  A pass is dropped, a transaction fails   *)
(* and an instance crashes only a bounded number of times, so nothing has  *)
(* to be assumed of them.                                                  *)
Fairness ==
    /\ WF_vars(Advance)
    /\ \A h \in Hosts : WF_vars(Wake(h, FALSE)) /\ WF_vars(WriteTick(h) \/ FailTick(h)) /\ WF_vars(Boot(h))
FairSpec == Spec /\ Fairness

(* Every fire-time an active row owes is accounted for in the end.         *)
EveryFireTimeIsAccounted ==
    \A s \in Schedules \ Unreadable : \A t \in Slots(s) :
        (now >= t /\ row[s].id # 0 /\ origin[s] # 0 /\ origin[s] <= t)
            ~> (Accounted(s, t) \/ row[s].paused \/ row[s].id = 0 \/ origin[s] = 0)
=============================================================================
