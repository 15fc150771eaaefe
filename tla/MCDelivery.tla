----------------------------- MODULE MCDelivery -----------------------------
(* Instances of Delivery for TLC.                                          *)
EXTENDS Delivery

(* The failures of all runs share one throttle window.                     *)
OneGroup == [r \in Runs |-> "group"]

=============================================================================
