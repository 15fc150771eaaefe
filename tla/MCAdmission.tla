---------------------------- MODULE MCAdmission ----------------------------
(* The instance TLC checks: a job with a ceiling of two, some of whose     *)
(* runs want the same key.                                                 *)
EXTENDS Admission

CONSTANTS j1, v
MCValues     == [j \in Jobs |-> {v}]
MCCeiling    == [j \in Jobs |-> 2]
MCOverlap    == [j \in Jobs |-> "queue"]
MCOnConflict == [j \in Jobs |-> "defer"]

(* The dispatcher's ticker claims, runs end, backoffs pass (executors.go   *)
(* polls every second; no wake is relied on).                              *)
Fairness ==
    /\ WF_vars(Claim)
    /\ WF_vars(\E r \in RunIds : BecomeDue(r))
    /\ WF_vars(\E r \in RunIds : Finish(r))
FairSpec == Spec /\ Fairness
=============================================================================
