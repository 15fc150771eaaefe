-------------------------- MODULE MCRunGuarantees ---------------------------
(* Two guarantees of docs/guarantees.md that need more than the rows: one  *)
(* counts over a history, the other holds under a premise on time.         *)
EXTENDS MCRunLifecycle

VARIABLES late,    \* attempts started since the standing cancellation request
          stalled  \* a holder's lease ran out while its keeper was still renewing

LateStarts == Cardinality({s \in Steps : cancel /\ cancel' /\ attempt'[s] > attempt[s]})
HolderStalls == lease = "live" /\ lease' = "lapsed" /\ \E e \in Executors : held[e] /\ Holds(e)

GuaranteeInit == Init /\ late = 0 /\ stalled = FALSE
GuaranteeSpec ==
    /\ GuaranteeInit
    /\ [][/\ Next
          /\ late' = IF cancel' THEN late + LateStarts ELSE 0
          /\ stalled' = (stalled \/ HolderStalls)]_<<vars, late, stalled>>

(* G8: a run asked to stop starts no new attempt, except the one its       *)
(* executor had already chosen when the request came: the poll and         *)
(* StartStep are two transactions.                                         *)
AtMostOneLateStart == late <= 1

(* G6, given that "the lease TTL exceeds the longest stall": at most one   *)
(* process of a step runs at a time, and in fact of the whole run.  It     *)
(* counts the processes of executors that are driving; the child of a      *)
(* crashed one is left to the start-up sweep.                              *)
OneExecution ==
    ~stalled => \A e, f \in Executors : pc[e] = "exec" /\ pc[f] = "exec" => e = f

=============================================================================
