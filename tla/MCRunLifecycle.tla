--------------------------- MODULE MCRunLifecycle ---------------------------
(* Instances of RunLifecycle for TLC.                                      *)
EXTENDS RunLifecycle, TLC

CONSTANTS e1, e2

(* A chain: the second step needs the first, which may be retried once.    *)
ChainNeeds  == <<{}, {1}>>
ChainBudget == <<2, 1>>

OneExecutor  == {e1}
TwoExecutors == {e1, e2}
Symmetry     == Permutations(TwoExecutors)

=============================================================================
