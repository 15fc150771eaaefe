------------------------------ MODULE MCRepair ------------------------------
(* Instances of Repair for TLC.                                            *)
EXTENDS Repair

CONSTANTS e1

ChainNeeds  == <<{}, {1}>>
ChainBudget == <<2, 1>>
AllOrOne    == {{}, {"I2"}}
OneExecutor == {e1}

=============================================================================
