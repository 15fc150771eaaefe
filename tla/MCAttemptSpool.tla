--------------------------- MODULE MCAttemptSpool ---------------------------
(* The instances of AttemptSpool for TLC take all their constants from the *)
(* configuration.                                                          *)
EXTENDS AttemptSpool
=============================================================================
