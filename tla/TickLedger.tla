----------------------------- MODULE TickLedger -----------------------------
(***************************************************************************)
(* What the ticks table promises about a schedule's fire-times, whoever    *)
(* writes to it: one entry per fire-time, never deleted, and never         *)
(* rewritten except that an entry saying nobody evaluated the fire-time    *)
(* ("missed") may be taken over by the attempt that replays it.  A run is  *)
(* created together with the entry that says so, and by nothing else.      *)
(* Module Scheduler, with its passes, restarts and gap walks, implements   *)
(* this.                                                                   *)
(***************************************************************************)
EXTENDS Integers

CONSTANTS Schedules, Times

VARIABLES
    entry,     \* entry[s][t]: "open", "missed", "run" or "stood"
    runs       \* runs[s][t]: how many runs the fire-time started

ledger == <<entry, runs>>

Init ==
    /\ entry = [s \in Schedules |-> [t \in Times |-> "open"]]
    /\ runs  = [s \in Schedules |-> [t \in Times |-> 0]]

Decide(s, t) ==
    /\ entry[s][t] \in {"open", "missed"}
    /\ \/ /\ entry' = [entry EXCEPT ![s][t] = "run"]
          /\ runs'  = [runs EXCEPT ![s][t] = @ + 1]
       \/ /\ entry' = [entry EXCEPT ![s][t] = "stood"]
          /\ UNCHANGED runs

(* Gap evidence comes in batches and only ever fills open fire-times.      *)
Miss ==
    \E slots \in SUBSET {x \in Schedules \X Times : entry[x[1]][x[2]] = "open"} :
        /\ entry' = [s \in Schedules |-> [t \in Times |->
                        IF <<s, t>> \in slots THEN "missed" ELSE entry[s][t]]]
        /\ UNCHANGED runs

Next == Miss \/ \E s \in Schedules, t \in Times : Decide(s, t)

Spec == Init /\ [][Next]_ledger
=============================================================================
