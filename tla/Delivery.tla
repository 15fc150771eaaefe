------------------------------ MODULE Delivery ------------------------------
(* Notifications: the outbox, its throttle windows, the dispatcher that    *)
(* claims rows and runs notifiers, the disk guard, which writes alerts of  *)
(* its own, and the retention that removes what was delivered.             *)
(*                                                                         *)
(* Time is abstract.  A row is due or not, a window open or not, and       *)
(* Due and WindowCloses may turn either at any moment: visibility, backoff and throttle  *)
(* are only lower bounds on how long something waits.  A row is named by   *)
(* its dedup key.                                                          *)
EXTENDS Naturals, FiniteSets, FiniteSetsExt

CONSTANTS Runs,         \* the runs that end while we watch
          Targets,      \* the notifiers named by on_failure
          Configured,   \* those config.yaml still defines
          GroupOf,      \* Runs -> the group_by value of a run's failure
          MaxAttempts,  \* claims before a row is given up
          Batch,        \* DeliveryBatch
          MaxEpisodes,  \* disk episodes in a history
          MaxTroubles   \* faults, operator retries, notifiers killed after they
                        \* delivered, and rows retention removes, in a history

ASSUME DeliveryAssumption ==
    /\ IsFiniteSet(Targets) /\ Configured \subseteq Targets
    /\ MaxAttempts \in Nat \ {0} /\ Batch \in Nat \ {0}
    /\ MaxEpisodes \in Nat /\ MaxTroubles \in Nat

VARIABLES
    run,        \* [Runs -> state]
    row,        \* [Keys -> "none" | "pending" | "delivered" | "failed"]
    due,        \* the keys whose available_at has come
    attempts,   \* [Keys -> 0..MaxAttempts]: claims of a row not delivered, up to the limit
    window,     \* [Windows -> the keys that opened it]: {} when it is not open
    guard,      \* the disk guard: [state, streak, since]
    batch,      \* what the dispatcher claimed and has not dealt with
    sending,    \* the delivery in progress, once its notifier ended: {} or {[key, ok]}
    sent,       \* history: the keys whose alert was ever sent
    repeats,    \* history: sends of what had been sent
    faults,     \* stops, crashes and failed writes so far
    retries,    \* operator retries so far
    killed,     \* notifiers that delivered and still ended with an error
    expired     \* delivered rows that retention removed

store == <<row, due, attempts, window>>
dispatcher == <<batch, sending>>
troubles == <<faults, retries, killed, expired>>
history == <<sent, repeats, troubles>>
vars == <<run, store, guard, dispatcher, history>>

(* The dedup key: topic|subject|target|event.  A run's event is its id and *)
(* its attempt, which nothing ever moves; an episode's is its first moment.*)
Events  == [topic : {"run.failed"}, of : Runs]
               \union [topic : {"disk.low"}, of : 1..MaxEpisodes]
Keys    == [event : Events, target : Targets]
GroupKey(event) == IF event.topic = "run.failed" THEN GroupOf[event.of] ELSE event.topic
WindowOf(k) == [topic |-> k.event.topic, target |-> k.target, group |-> GroupKey(k.event)]
Windows == {WindowOf(k) : k \in Keys}

Troubles == faults + retries + killed + expired
Troubled == Troubles < MaxTroubles

RunFailed(r) == [topic |-> "run.failed", of |-> r]
Notes(event) == {[event |-> event, target |-> t] : t \in Targets}

-----------------------------------------------------------------------------
(* insertNotificationsTx: a known dedup key is passed over, an event in an *)
(* open window of its group is counted into the window, anything else      *)
(* becomes a due row and opens the window.  The notes of one event go to   *)
(* different targets, so none of them meets another's window.              *)
Known(k)      == row[k] # "none"
Recorded(k)   == ~Known(k) /\ window[WindowOf(k)] = {}

InsertNotifications(notes) ==
    LET new  == {k \in notes : Recorded(k)}
    IN  /\ row'      = [k \in Keys |-> IF k \in new THEN "pending" ELSE row[k]]
        /\ due'      = due \union new
        /\ attempts' = [k \in Keys |-> IF k \in new THEN 0 ELSE attempts[k]]
        /\ window'   = [w \in Windows |->
              IF window[w] = {} THEN {k \in new : WindowOf(k) = w} ELSE window[w]]

-----------------------------------------------------------------------------
(* A run fails: its executor commits the verdict together with the         *)
(* notifications planned from it.  A cancellation plans none, a success    *)
(* only for on_success, which works the same way.                          *)
FinishRun(r) ==
    /\ run[r] = "running"
    /\ run' = [run EXCEPT ![r] = "failed"]
    /\ InsertNotifications(Notes(RunFailed(r)))
    /\ UNCHANGED <<guard, dispatcher, history>>

(* The reaper, recovery and the spool close a run without a notification.  *)
FailWithoutNotes(r) ==
    /\ run[r] = "running"
    /\ run' = [run EXCEPT ![r] = "failed"]
    /\ UNCHANGED <<store, guard, dispatcher, history>>

(* An operator opens an ended run again; the run's attempt stays as it is. *)
Reopen(r) ==
    /\ run[r] = "failed" /\ Troubled
    /\ run' = [run EXCEPT ![r] = "running"]
    /\ retries' = retries + 1
    /\ UNCHANGED <<store, guard, dispatcher, sent, repeats, faults, killed, expired>>

-----------------------------------------------------------------------------
(* The disk guard: what one cycle reads ("low" is under the floor, "tight" *)
(* above it but under the exit bar), where that takes the state, and the   *)
(* alert of a degraded cycle, re-emitted for as long as the episode lasts. *)
Readings == {"low", "tight", "clear"}

GuardAfter(reading) ==
    IF guard.state # "degraded" /\ reading = "low"
    THEN [state |-> "degraded", streak |-> 0, since |-> guard.since + 1]
    ELSE IF guard.state # "degraded" \/ reading = "low" THEN [guard EXCEPT !.streak = 0]
    ELSE IF reading = "tight" THEN [guard EXCEPT !.streak = 0]
    ELSE IF guard.streak = 0 THEN [guard EXCEPT !.streak = 1]
    ELSE [guard EXCEPT !.state = "normal", !.streak = 0]

EmitsOnEntry(g) == g.state = "degraded" /\ guard.state # "degraded"
Emits(g) == g.state = "degraded"

GuardStep(reading) ==
    /\ guard.state # "degraded" /\ reading = "low" => guard.since < MaxEpisodes
    /\ guard' = GuardAfter(reading)
    /\ IF Emits(guard')
       THEN InsertNotifications(Notes([topic |-> "disk.low", of |-> guard'.since]))
       ELSE UNCHANGED store
    /\ UNCHANGED <<run, dispatcher, history>>

-----------------------------------------------------------------------------
(* ClaimOutbox: up to Batch due rows, their attempts raised and their      *)
(* available_at moved past the visibility before anything is sent.  Which  *)
(* of them come first is a matter of their times.                          *)
ClaimOutbox ==
    /\ batch = {} /\ due # {}
    /\ \E chosen \in SUBSET due :
          /\ Cardinality(chosen) = Min({Batch, Cardinality(due)})
          /\ batch' = chosen /\ due' = due \ chosen
          /\ attempts' = [k \in Keys |-> IF k \in chosen /\ attempts[k] < MaxAttempts
                                         THEN attempts[k] + 1 ELSE attempts[k]]
    /\ UNCHANGED <<run, row, window, guard, sending, history>>

(* Send runs the notifier.  A target config.yaml does not define is an     *)
(* error of its own.  A notifier may fail before the alert is out, or be   *)
(* killed at its deadline, or exit nonzero, when the alert is out already: *)
(* told is what the world saw, ok what deliverOne is answered.             *)
Send ==
    /\ sending = {}
    /\ \E k \in batch, told, ok \in BOOLEAN :
          /\ (told => k.target \in Configured) /\ (ok => told)
          /\ told /\ ~ok => Troubled
          /\ sending' = {[key |-> k, ok |-> ok]}
          /\ sent' = IF told THEN sent \union {k} ELSE sent
          /\ repeats' = IF told /\ k \in sent THEN repeats + 1 ELSE repeats
          /\ killed' = IF told /\ ~ok THEN killed + 1 ELSE killed
    /\ UNCHANGED <<run, store, guard, batch, faults, retries, expired>>

(* What deliverOne writes about the attempt: MarkOutboxDelivered asks      *)
(* nothing of the row, MarkOutboxFailed and RescheduleOutbox take one that *)
(* is not delivered.  A row that is gone is left alone.                    *)
Settled(k, ok) ==
    IF ok /\ Known(k) THEN "delivered"
    ELSE IF row[k] = "pending" /\ attempts[k] >= MaxAttempts THEN "failed" ELSE row[k]

DeliverOne ==
    /\ \E s \in sending :
          /\ row' = [row EXCEPT ![s.key] = Settled(s.key, s.ok)]
          /\ attempts' = [attempts EXCEPT ![s.key] = IF s.ok THEN 0 ELSE @]
          /\ due' = due \ {s.key}
          /\ batch' = batch \ {s.key}
    /\ sending' = {}
    /\ UNCHANGED <<run, window, guard, history>>

(* The write fails: logged, and the row comes back with its visibility.    *)
WriteLost ==
    /\ Troubled /\ faults' = faults + 1
    /\ \E s \in sending : batch' = batch \ {s.key}
    /\ sending' = {}
    /\ UNCHANGED <<run, store, guard, sent, repeats, retries, killed, expired>>

(* The daemon stops or crashes, and is started again: the claimed rows are *)
(* left to their visibility, and the guard's state was in memory only.     *)
Restart ==
    /\ Troubled /\ faults' = faults + 1
    /\ batch' = {} /\ sending' = {}
    /\ guard' = [guard EXCEPT !.state = "normal", !.streak = 0]
    /\ UNCHANGED <<run, store, sent, repeats, retries, killed, expired>>

-----------------------------------------------------------------------------
(* Time: a visibility or a backoff ends, a window closes.  A visibility    *)
(* that ends while the batch is being delivered is noticed after it: there *)
(* is one dispatcher, and it claims again when its batch is done.          *)
DueFresh(k) ==
    /\ row[k] = "pending" /\ k \notin due \union batch /\ attempts[k] = 0
    /\ due' = due \union {k}
    /\ UNCHANGED <<run, row, attempts, window, guard, dispatcher, history>>

Due(k) ==
    /\ row[k] = "pending" /\ k \notin due \union batch
    /\ due' = due \union {k}
    /\ UNCHANGED <<run, row, attempts, window, guard, dispatcher, history>>

WindowCloses(w) ==
    /\ window[w] # {}
    /\ window' = [window EXCEPT ![w] = {}]
    /\ UNCHANGED <<run, row, due, attempts, guard, dispatcher, history>>

(* RetryOutbox: a failed row is opened again, a pending one hurried, a     *)
(* delivered one refused.  The attempts keep their count.                  *)
RetryAnyway(k) ==
    /\ Troubled /\ Known(k)
    /\ row' = [row EXCEPT ![k] = "pending"] /\ due' = due \union {k}
    /\ retries' = retries + 1
    /\ UNCHANGED <<run, attempts, window, guard, dispatcher, sent, repeats, faults, killed, expired>>

RetryOutbox(k) ==
    /\ Troubled /\ row[k] \in {"failed", "pending"}
    /\ row' = [row EXCEPT ![k] = "pending"] /\ due' = due \union {k}
    /\ retries' = retries + 1
    /\ UNCHANGED <<run, attempts, window, guard, dispatcher, sent, repeats, faults, killed, expired>>

(* The daemon's handler, and the command: through the socket while a       *)
(* daemon serves, else, or when the answer is lost, on the database.       *)
HandleRetryNotification(k) == RetryOutbox(k)
RunNotificationsRetry(k)   == HandleRetryNotification(k) \/ RetryOutbox(k)

(* Retention: delivered rows past their horizon go, then the windows whose *)
(* opener is gone.  Failed rows never do.                                  *)
Prunable(k) == row[k] = "delivered"
Orphaned(w) == window[w] # {} /\ \A k \in window[w] : row[k] = "none"

Prune ==
    \/ /\ Troubled /\ expired' = expired + 1
       /\ \E k \in Keys : Prunable(k) /\ row' = [row EXCEPT ![k] = "none"]
       /\ UNCHANGED <<run, due, attempts, window, guard, dispatcher, sent, repeats>>
       /\ UNCHANGED <<faults, retries, killed>>
    \/ /\ \E w \in Windows : Orphaned(w) /\ window' = [window EXCEPT ![w] = {}]
       /\ UNCHANGED <<run, row, due, attempts, guard, dispatcher, history>>

-----------------------------------------------------------------------------
Init ==
    /\ run = [r \in Runs |-> "running"]
    /\ row = [k \in Keys |-> "none"] /\ due = {} /\ attempts = [k \in Keys |-> 0]
    /\ window = [w \in Windows |-> {}]
    /\ guard = [state |-> "normal", streak |-> 0, since |-> 0]
    /\ batch = {} /\ sending = {}
    /\ sent = {} /\ repeats = 0
    /\ faults = 0 /\ retries = 0 /\ killed = 0 /\ expired = 0

Dispatch == ClaimOutbox \/ Send \/ DeliverOne
GuardCycle == \E reading \in Readings : GuardStep(reading)

Next ==
    \/ \E r \in Runs : FinishRun(r) \/ FailWithoutNotes(r) \/ Reopen(r)
    \/ GuardCycle
    \/ Dispatch
    \/ WriteLost \/ Restart
    \/ \E k \in Keys : Due(k) \/ RunNotificationsRetry(k)
    \/ \E w \in Windows : WindowCloses(w)
    \/ Prune

Spec == Init /\ [][Next]_vars

(* The dispatcher and the guard run on tickers of the daemon, and time     *)
(* passes for every row and window.                                        *)
Fairness ==
    /\ WF_vars(Dispatch) /\ WF_vars(GuardCycle)
    /\ \A k \in Keys : WF_vars(Due(k))
    /\ \A w \in Windows : WF_vars(WindowCloses(w))

FairSpec == Spec /\ Fairness

-----------------------------------------------------------------------------
(* Each variable holds what the code can put in it: at most Batch rows     *)
(* claimed, one of them being sent, and only pending rows due.             *)
TypeOK ==
    /\ run \in [Runs -> {"running", "failed"}]
    /\ row \in [Keys -> {"none", "pending", "delivered", "failed"}]
    /\ due \subseteq {k \in Keys : row[k] = "pending"}
    /\ attempts \in [Keys -> 0..MaxAttempts]
    /\ window \in [Windows -> SUBSET Keys]
    /\ guard \in [state : {"normal", "degraded"}, streak : 0..1, since : 0..MaxEpisodes]
    /\ batch \subseteq Keys /\ Cardinality(batch) <= Batch
    /\ sending \subseteq [key : batch, ok : BOOLEAN] /\ Cardinality(sending) <= 1
    /\ sent \subseteq Keys /\ repeats \in Nat
    /\ faults \in Nat /\ retries \in Nat /\ killed \in Nat /\ expired \in Nat
    /\ Troubles <= MaxTroubles

(* docs/guarantees.md, no exactly-once notifications: an alert is sent     *)
(* again only where something lost the record of an earlier send.  These   *)
(* are a stop, a crash or a failed write before the send was on its row; a *)
(* notifier that delivered and still ended with an error; and retention,   *)
(* once it removed the delivered row of an event that is reported again (a *)
(* disk episode that still lasts, a reopened run that fails again).  Each  *)
(* of them costs at most one repeat; a visibility that ends, a closed      *)
(* window and an operator's retry cost none.                               *)
RepeatsAreAccounted == repeats <= faults + killed + expired

(* G11: delivery of a recorded alert is attempted until it is delivered or *)
(* given up, through crashes, failed writes and failing notifiers.         *)
EveryAlertSettles == \A k \in Keys : row[k] = "pending" ~> row[k] # "pending"

(* A disk episode that begins inside the window of an earlier one is told  *)
(* all the same, if it lasts: the guard re-emits it every cycle.           *)
DiskEpisodeIsTold ==
    \A n \in 1..MaxEpisodes :
        LET During == guard.state = "degraded" /\ guard.since = n
        IN  During ~> (~During \/ \A k \in Notes([topic |-> "disk.low", of |-> n]) : Known(k))

=============================================================================
