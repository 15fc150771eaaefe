------------------------------ MODULE MCSensor ------------------------------
EXTENDS Sensor

(* The loop keeps waking, an evaluation that was claimed runs to its       *)
(* commit (the evaluator kills a sensor at its timeout), the due instant   *)
(* and the cooldown pass, and a daemon that died is started again.         *)
Fairness ==
    /\ WF_vars(Due) /\ WF_vars(Dispatch) /\ WF_vars(Begin) /\ WF_vars(Evaluate)
    /\ WF_vars(Commit)
    /\ WF_vars(BecomeDue) /\ WF_vars(CoolDown) /\ WF_vars(Start)
FairSpec == Spec /\ Fairness

(* Every event that arrives is handed to a job in the end, unless the      *)
(* operator stops or skips it.                                             *)
EveryEventIsOffered ==
    \A e \in Events :
        (arrived >= e) ~>
            \/ \E n \in Epochs : <<n, e>> \in offered \cup jumped
            \/ row.paused \/ ~row.there \/ tainted
=============================================================================
