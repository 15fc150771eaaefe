--------------------------- MODULE DeliveryProofs ---------------------------
(* The bound on repeated alerts, proved for every set of runs and           *)
(* notifiers, every batch and attempt limit, and any number of faults,      *)
(* killed notifiers, operator retries, retentions and disk episodes.        *)
EXTENDS Delivery, FiniteSetTheorems, TLAPS

(* One notifier at a time, working on a claimed row; what it sent is noted. *)
OneAtATime ==
    /\ sending = {} \/ \E s : sending = {s}
    /\ \A s \in sending : s.key \in batch /\ (s.ok => s.key \in sent)

(* A claimed row stays pending until its delivery is dealt with.            *)
ClaimedIsPending == \A k \in batch : row[k] = "pending"

(* The guard is degraded only in an episode that has begun.                 *)
EpisodeHasBegun == guard.state = "degraded" => guard.since # 0

(* The sends whose row does not say so, or is gone, and that nobody is about *)
(* to write down: each of them may be repeated, and something that loses a  *)
(* record stands behind each.                                               *)
Noted == {s.key : s \in {x \in sending : x.ok}}
Unnoticed == {k \in sent : row[k] # "delivered"} \ Noted

Losses == faults + killed + expired
RepeatsAreCovered == repeats + Cardinality(Unnoticed) <= Losses

Counted == IsFiniteSet(due) /\ IsFiniteSet(batch) /\ IsFiniteSet(sent)

GuardStates == [state : {"normal", "degraded"}, streak : 0..1, since : 0..MaxEpisodes]

(* TypeOK but for the two cardinalities, which Counted and OneAtATime give. *)
Types ==
    /\ run \in [Runs -> {"running", "failed"}]
    /\ row \in [Keys -> {"none", "pending", "delivered", "failed"}]
    /\ due \subseteq {k \in Keys : row[k] = "pending"}
    /\ attempts \in [Keys -> 0..MaxAttempts]
    /\ window \in [Windows -> SUBSET Keys]
    /\ guard \in GuardStates
    /\ batch \subseteq Keys
    /\ sending \subseteq [key : batch, ok : BOOLEAN]
    /\ sent \subseteq Keys /\ repeats \in Nat
    /\ faults \in Nat /\ retries \in Nat /\ killed \in Nat /\ expired \in Nat
    /\ Troubles <= MaxTroubles

Inv ==
    /\ Types /\ Counted /\ Cardinality(batch) <= Batch
    /\ OneAtATime /\ ClaimedIsPending /\ EpisodeHasBegun
    /\ RepeatsAreCovered

-----------------------------------------------------------------------------
(* The outbox.                                                             *)

(* An event has one note for each notifier.                                *)
LEMMA NotesAreKeys ==
    ASSUME NEW event \in Events
    PROVE  Notes(event) \subseteq Keys /\ IsFiniteSet(Notes(event))
<1>1. Notes(event) \subseteq Keys
  BY DEF Notes, Keys
<1> DEFINE f == [t \in Targets |-> [event |-> event, target |-> t]]
<1>2. f \in Surjection(Targets, Notes(event))
  BY DEF Surjection, Notes
<1>3. QED  BY <1>1, <1>2, FS_Surjection, DeliveryAssumption

(* The rows of an event: what is new had no row and is pending and due;    *)
(* nothing else about a row changes.                                       *)
LEMMA InsertRows ==
    ASSUME Types, Counted, NEW notes \in SUBSET Keys, IsFiniteSet(notes), InsertNotifications(notes)
    PROVE  /\ row' \in [Keys -> {"none", "pending", "delivered", "failed"}]
           /\ due' \subseteq {k \in Keys : row'[k] = "pending"}
           /\ attempts' \in [Keys -> 0..MaxAttempts]
           /\ window' \in [Windows -> SUBSET Keys]
           /\ IsFiniteSet(due')
           /\ \A k \in Keys : row[k] # "none" => row'[k] = row[k]
<1> DEFINE new == {k \in notes : Recorded(k)}
<1>1. /\ row' = [k \in Keys |-> IF k \in new THEN "pending" ELSE row[k]]
      /\ due' = due \union new
      /\ attempts' = [k \in Keys |-> IF k \in new THEN 0 ELSE attempts[k]]
      /\ window' = [w \in Windows |->
            IF window[w] = {} THEN {k \in new : WindowOf(k) = w} ELSE window[w]]
  BY Zenon DEF InsertNotifications
<1>2. new \subseteq Keys /\ \A k \in new : row[k] = "none"
  BY DEF Recorded, Known
<1>3. IsFiniteSet(new)
  BY FS_Subset
<1> HIDE DEF new
<1>4. IsFiniteSet(due')
  BY <1>1, <1>3, FS_Union DEF Counted
<1>5. attempts' \in [Keys -> 0..MaxAttempts]
  BY <1>1, DeliveryAssumption DEF Types
<1>6. window' \in [Windows -> SUBSET Keys]
  BY <1>1, <1>2 DEF Types
<1>7. QED  BY <1>1, <1>2, <1>4, <1>5, <1>6 DEF Types

-----------------------------------------------------------------------------
(* The account.                                                            *)

(* The sends nobody has noted can be counted.                              *)
LEMMA UnnoticedIsFinite ==
    ASSUME Inv
    PROVE  IsFiniteSet(Unnoticed) /\ Cardinality(Unnoticed) \in Nat
BY FS_Subset, FS_CardinalityType DEF Inv, Counted, Unnoticed

(* A step that forgets no send and repeats none keeps the account.         *)
LEMMA NothingForgotten ==
    ASSUME Inv, Unnoticed' \subseteq Unnoticed, repeats' = repeats,
           Losses' \in Nat, Losses' >= Losses
    PROVE  RepeatsAreCovered'
<1>1. IsFiniteSet(Unnoticed) /\ Cardinality(Unnoticed) \in Nat
  BY UnnoticedIsFinite
<1>2. /\ IsFiniteSet(Unnoticed') /\ Cardinality(Unnoticed') <= Cardinality(Unnoticed)
  BY <1>1, FS_Subset
<1>3. Cardinality(Unnoticed') \in Nat
  BY <1>2, FS_CardinalityType
<1>4. repeats \in Nat /\ Losses \in Nat
  BY DEF Inv, Types, Losses
<1> HIDE DEF Unnoticed, Losses
<1>5. QED  BY <1>1, <1>2, <1>3, <1>4 DEF RepeatsAreCovered, Inv

(* One thing lost pays for one send that may now be repeated.              *)
LEMMA OneMoreLost ==
    ASSUME Inv, NEW k, Unnoticed' \subseteq Unnoticed \cup {k}, repeats' = repeats,
           Losses' = Losses + 1
    PROVE  RepeatsAreCovered'
<1>1. IsFiniteSet(Unnoticed) /\ Cardinality(Unnoticed) \in Nat
  BY UnnoticedIsFinite
<1>2. repeats \in Nat /\ Losses \in Nat /\ repeats + Cardinality(Unnoticed) <= Losses
  BY DEF Inv, Types, Losses, RepeatsAreCovered
<1> HIDE DEF Unnoticed, Losses
<1>3. /\ IsFiniteSet(Unnoticed \cup {k})
      /\ Cardinality(Unnoticed \cup {k}) = IF k \in Unnoticed THEN Cardinality(Unnoticed) ELSE Cardinality(Unnoticed) + 1
  BY <1>1, FS_AddElement
<1>4. Cardinality(Unnoticed') <= Cardinality(Unnoticed \cup {k}) /\ IsFiniteSet(Unnoticed')
  BY <1>3, FS_Subset
<1>5. Cardinality(Unnoticed') \in Nat
  BY <1>4, FS_CardinalityType
<1>6. QED  BY <1>1, <1>2, <1>3, <1>4, <1>5 DEF RepeatsAreCovered

(* The insertions of one commit, whoever makes it.                         *)
LEMMA InsertStep ==
    ASSUME Inv, NEW notes \in SUBSET Keys, IsFiniteSet(notes), InsertNotifications(notes),
           UNCHANGED <<dispatcher, history>>,
           run' \in [Runs -> {"running", "failed"}],
           guard' \in GuardStates,
           EpisodeHasBegun'
    PROVE  Inv'
<1>1. /\ row' \in [Keys -> {"none", "pending", "delivered", "failed"}]
      /\ due' \subseteq {k \in Keys : row'[k] = "pending"}
      /\ attempts' \in [Keys -> 0..MaxAttempts]
      /\ window' \in [Windows -> SUBSET Keys]
      /\ IsFiniteSet(due')
      /\ \A k \in Keys : row[k] # "none" => row'[k] = row[k]
  BY InsertRows DEF Inv
<1>2. /\ batch' = batch /\ sending' = sending /\ sent' = sent /\ repeats' = repeats
      /\ faults' = faults /\ retries' = retries /\ killed' = killed /\ expired' = expired
  BY DEF dispatcher, history, troubles
<1> USE DEF Inv
<1>3. Types'
  BY <1>1, <1>2 DEF Types, Troubles
<1>4. Counted' /\ Cardinality(batch') <= Batch
  BY <1>1, <1>2 DEF Counted
<1>5. ClaimedIsPending'
  BY <1>1, <1>2 DEF ClaimedIsPending, Types
<1>6. OneAtATime'
  BY <1>2 DEF OneAtATime
<1>7. Noted' = Noted
  BY <1>2 DEF Noted
<1>8. Unnoticed' \subseteq Unnoticed
  BY <1>1, <1>2, <1>7 DEF Unnoticed, Types
<1>9. RepeatsAreCovered'
  BY <1>2, <1>8, NothingForgotten DEF Types, Losses
<1>10. QED  BY <1>3, <1>4, <1>5, <1>6, <1>9

-----------------------------------------------------------------------------
(* Runs and the disk guard.                                                *)

(* A run's verdict and its reopening keep the account: the notes of a      *)
(* verdict are new or were dealt with.                                     *)
LEMMA RunStep ==
    ASSUME Inv, NEW r \in Runs, FinishRun(r) \/ FailWithoutNotes(r) \/ Reopen(r)
    PROVE  Inv'
<1> USE DEF Inv
<1>1. CASE FinishRun(r)
  <2>1. RunFailed(r) \in Events
    BY DEF RunFailed, Events
  <2>2. Notes(RunFailed(r)) \subseteq Keys /\ IsFiniteSet(Notes(RunFailed(r)))
    BY <2>1, NotesAreKeys
  <2>3. /\ run' \in [Runs -> {"running", "failed"}]
        /\ InsertNotifications(Notes(RunFailed(r)))
        /\ UNCHANGED <<guard, dispatcher, history>>
    BY <1>1 DEF FinishRun, Types
  <2>4. EpisodeHasBegun' /\ guard' \in GuardStates
    BY <2>3 DEF EpisodeHasBegun, Types
  <2>5. QED  BY <2>2, <2>3, <2>4, InsertStep
<1>2. CASE FailWithoutNotes(r) \/ Reopen(r)
  <2>1. /\ run' \in [Runs -> {"running", "failed"}]
        /\ UNCHANGED <<store, guard, dispatcher, sent, repeats, faults, killed, expired>>
        /\ retries' \in Nat /\ Troubles' <= MaxTroubles
    BY <1>2, DeliveryAssumption
       DEF FailWithoutNotes, Reopen, Troubled, Troubles, Types, history, troubles
  <2>2. Types' /\ Counted' /\ Cardinality(batch') <= Batch
    BY <2>1 DEF Types, Counted, store, dispatcher
  <2>3. OneAtATime' /\ ClaimedIsPending' /\ EpisodeHasBegun'
    BY <2>1 DEF OneAtATime, ClaimedIsPending, EpisodeHasBegun, store, dispatcher
  <2>4. Unnoticed' = Unnoticed
    BY <2>1 DEF Unnoticed, Noted, store, dispatcher
  <2>5. RepeatsAreCovered'
    BY <2>1, <2>4, NothingForgotten DEF Types, Losses
  <2>6. QED  BY <2>2, <2>3, <2>5
<1>3. QED  BY <1>1, <1>2

(* The fields of the guard's state one at a time.                          *)
LEMMA GuardRecord ==
    ASSUME NEW g \in GuardStates
    PROVE  /\ [g EXCEPT !.streak = 0] \in GuardStates
           /\ [g EXCEPT !.streak = 1] \in GuardStates
           /\ [g EXCEPT !.state = "normal", !.streak = 0] \in GuardStates
           /\ [g EXCEPT !.state = "normal", !.streak = 0].state = "normal"
<1> DEFINE Streaks == 0..1
           Episodes == 0..MaxEpisodes
<1>1. 0 \in Streaks /\ 1 \in Streaks
  OBVIOUS
<1>2. g \in [state : {"normal", "degraded"}, streak : Streaks, since : Episodes]
  BY DEF GuardStates
<1> HIDE DEF Streaks, Episodes
<1>3. /\ [g EXCEPT !.streak = 0] \in [state : {"normal", "degraded"}, streak : Streaks, since : Episodes]
      /\ [g EXCEPT !.streak = 1] \in [state : {"normal", "degraded"}, streak : Streaks, since : Episodes]
  BY <1>1, <1>2
<1>4. /\ [g EXCEPT !.state = "normal", !.streak = 0]
            \in [state : {"normal", "degraded"}, streak : Streaks, since : Episodes]
      /\ [g EXCEPT !.state = "normal", !.streak = 0].state = "normal"
  BY <1>1, <1>2
<1>5. QED  BY <1>3, <1>4 DEF Streaks, Episodes, GuardStates

(* A cycle of the disk guard adds at most the notes of an episode and      *)
(* forgets no send.                                                        *)
LEMMA GuardKeeps ==
    ASSUME Inv, GuardCycle
    PROVE  Inv'
<1> USE DEF Inv
<1>1. PICK reading \in Readings : GuardStep(reading)
  BY DEF GuardCycle
<1>2. /\ guard' \in GuardStates
      /\ EpisodeHasBegun'
  <2>1. guard \in GuardStates
    BY DEF Types
  <2>2. CASE guard.state # "degraded" /\ reading = "low"
    BY <1>1, <2>1, <2>2, DeliveryAssumption DEF GuardStep, GuardAfter, EpisodeHasBegun, GuardStates
  <2>3. CASE ~(guard.state # "degraded" /\ reading = "low")
    <3>1. guard' \in {[guard EXCEPT !.streak = 0], [guard EXCEPT !.streak = 1],
                      [guard EXCEPT !.state = "normal", !.streak = 0]}
      BY <1>1, <2>3 DEF GuardStep, GuardAfter
    <3>2. /\ guard'.state = "degraded" => guard.state = "degraded"
          /\ guard'.since = guard.since
      BY <2>1, <3>1 DEF GuardStates
    <3>3. guard' \in GuardStates
      BY <2>1, <3>1, GuardRecord
    <3>4. QED  BY <3>2, <3>3 DEF EpisodeHasBegun
  <2>4. QED  BY <2>2, <2>3
<1>3. UNCHANGED <<run, dispatcher, history>>
  BY <1>1 DEF GuardStep
<1>4. CASE guard'.state = "degraded"
  <2> DEFINE event == [topic |-> "disk.low", of |-> guard'.since]
  <2>1. event \in Events
    BY <1>2, <1>4 DEF Events, EpisodeHasBegun, GuardStates
  <2>2. InsertNotifications(Notes(event))
    BY <1>1, <1>4 DEF GuardStep, Emits
  <2> HIDE DEF event
  <2>3. QED  BY <1>2, <1>3, <2>1, <2>2, NotesAreKeys, InsertStep DEF Types
<1>5. CASE guard'.state # "degraded"
  <2>1. UNCHANGED store
    BY <1>1, <1>5 DEF GuardStep, Emits
  <2>2. Types' /\ Counted' /\ Cardinality(batch') <= Batch
    BY <1>2, <1>3, <2>1 DEF Types, Counted, store, dispatcher, history, troubles, Troubles
  <2>3. OneAtATime' /\ ClaimedIsPending'
    BY <1>3, <2>1 DEF OneAtATime, ClaimedIsPending, store, dispatcher, history
  <2>4. Unnoticed' = Unnoticed
    BY <1>3, <2>1 DEF Unnoticed, Noted, store, dispatcher, history
  <2>5. RepeatsAreCovered'
    BY <1>3, <2>4, NothingForgotten DEF Types, Losses, history, troubles
  <2>6. QED  BY <1>2, <2>2, <2>3, <2>5
<1>6. QED  BY <1>4, <1>5

-----------------------------------------------------------------------------
(* The dispatcher.                                                         *)

(* A batch is of due rows and no larger than DeliveryBatch.                *)
LEMMA ClaimKeeps ==
    ASSUME Inv, ClaimOutbox
    PROVE  Inv'
<1> USE DEF Inv
<1>1. PICK chosen \in SUBSET due :
          /\ Cardinality(chosen) = Min({Batch, Cardinality(due)})
          /\ batch' = chosen /\ due' = due \ chosen
          /\ attempts' = [k \in Keys |-> IF k \in chosen /\ attempts[k] < MaxAttempts
                                         THEN attempts[k] + 1 ELSE attempts[k]]
  BY DEF ClaimOutbox
<1>2. batch = {} /\ UNCHANGED <<run, row, window, guard, sending, history>>
  BY DEF ClaimOutbox
<1>3. sending = {}
  BY <1>2 DEF Types
<1>4. Cardinality(batch') <= Batch
  <2>1. Batch \in Nat /\ Cardinality(due) \in Nat
    BY DeliveryAssumption, FS_CardinalityType DEF Counted
  <2>2. Min({Batch, Cardinality(due)}) <= Batch
    BY <2>1 DEF Min
  <2>3. QED  BY <1>1, <2>2
<1>5. Counted'
  BY <1>1, <1>2, FS_Subset DEF Counted, history
<1>6. attempts' \in [Keys -> 0..MaxAttempts]
  BY <1>1, DeliveryAssumption DEF Types
<1>7. Types'
  BY <1>1, <1>2, <1>3, <1>6 DEF Types, history, troubles, Troubles
<1>8. OneAtATime' /\ ClaimedIsPending' /\ EpisodeHasBegun'
  BY <1>1, <1>2, <1>3 DEF OneAtATime, ClaimedIsPending, EpisodeHasBegun, Types
<1>9. RepeatsAreCovered'
  BY <1>2 DEF RepeatsAreCovered, Unnoticed, Noted, history, troubles, Losses
<1>10. QED  BY <1>4, <1>5, <1>7, <1>8, <1>9

(* A send repeats one only if no row tells of the earlier one.  If its     *)
(* notifier ended well it is now about to be written down; if it was       *)
(* killed, that is one more thing lost, and pays for the repeat or for the *)
(* send that no row will tell of.                                          *)
LEMMA SendKeeps ==
    ASSUME Inv, Send
    PROVE  Inv'
<1> USE DEF Inv
<1>1. PICK k \in batch, told \in BOOLEAN, ok \in BOOLEAN :
          /\ (ok => told) /\ (told /\ ~ok => Troubled)
          /\ sending' = {[key |-> k, ok |-> ok]}
          /\ sent' = IF told THEN sent \union {k} ELSE sent
          /\ repeats' = IF told /\ k \in sent THEN repeats + 1 ELSE repeats
          /\ killed' = IF told /\ ~ok THEN killed + 1 ELSE killed
  BY DEF Send
<1>2. sending = {} /\ UNCHANGED <<run, store, guard, batch, faults, retries, expired>>
  BY DEF Send
<1> DEFINE s == [key |-> k, ok |-> ok]
<1>s. sending' = {s} /\ s.key = k /\ s.ok = ok /\ s \in [key : batch, ok : BOOLEAN]
  BY <1>1
<1> HIDE DEF s
<1>n. Noted' = IF ok THEN {k} ELSE {}
  BY <1>s DEF Noted
<1>3. k \in Keys /\ row[k] = "pending"
  BY DEF ClaimedIsPending, Types
<1>4. Types'
  <2>1. killed' \in Nat /\ Troubles' <= MaxTroubles
    BY <1>1, <1>2, DeliveryAssumption DEF Types, Troubles, Troubled
  <2>2. repeats' \in Nat /\ sent' \subseteq Keys
    BY <1>1, <1>3 DEF Types
  <2>3. sending' \subseteq [key : batch', ok : BOOLEAN]
    BY <1>s, <1>2
  <2>4. QED  BY <1>2, <2>1, <2>2, <2>3 DEF Types, store
<1>5. IsFiniteSet(sent')
  BY <1>1, FS_AddElement DEF Counted
<1>6. Counted' /\ Cardinality(batch') <= Batch
  BY <1>2, <1>5 DEF Counted, store
<1>7. OneAtATime' /\ ClaimedIsPending' /\ EpisodeHasBegun'
  <2>1. OneAtATime'
    BY <1>1, <1>s, <1>2 DEF OneAtATime
  <2>2. ClaimedIsPending' /\ EpisodeHasBegun'
    BY <1>2 DEF ClaimedIsPending, EpisodeHasBegun, store
  <2>3. QED  BY <2>1, <2>2
<1>8. RepeatsAreCovered'
  <2>1. Noted = {} /\ row' = row
    BY <1>2 DEF Noted, store
  <2>2. /\ IsFiniteSet(Unnoticed) /\ Cardinality(Unnoticed) \in Nat
        /\ repeats \in Nat /\ Losses \in Nat
        /\ repeats + Cardinality(Unnoticed) <= Losses
    BY UnnoticedIsFinite DEF Types, Losses, RepeatsAreCovered
  <2>3. CASE ~told
    <3>1. repeats' = repeats /\ Losses' = Losses
      BY <1>1, <1>2, <2>3 DEF Losses
    <3>2. sent' = sent
      BY <1>1, <2>3
    <3>3. Unnoticed' \subseteq Unnoticed
      BY <2>1, <3>2 DEF Unnoticed
    <3>4. QED  BY <2>2, <3>1, <3>3, NothingForgotten
  <2>4. CASE told /\ ok
    <3>1. Losses' = Losses /\ sent' = sent \cup {k} /\ Noted' = {k}
      BY <1>1, <1>2, <1>n, <2>4 DEF Losses
    <3>2. Unnoticed' = Unnoticed \ {k}
      BY <2>1, <3>1 DEF Unnoticed
    <3>3. CASE k \in sent
      <4>1. k \in Unnoticed
        BY <1>3, <2>1, <3>3 DEF Unnoticed
      <4> HIDE DEF Unnoticed, Losses
      <4>2. Cardinality(Unnoticed') = Cardinality(Unnoticed) - 1
        BY <2>2, <3>2, <4>1, FS_RemoveElement
      <4>3. repeats' = repeats + 1
        BY <1>1, <2>4, <3>3
      <4>4. QED  BY <2>2, <3>1, <4>2, <4>3 DEF RepeatsAreCovered
    <3>4. CASE k \notin sent
      <4>1. repeats' = repeats
        BY <1>1, <3>4
      <4>2. QED  BY <2>2, <3>1, <3>2, <4>1, NothingForgotten
    <3>5. QED  BY <3>3, <3>4
  <2>5. CASE told /\ ~ok
    <3>1. Losses' = Losses + 1 /\ sent' = sent \cup {k} /\ Noted' = {}
      BY <1>1, <1>2, <1>n, <2>5 DEF Losses, Types
    <3>2. Unnoticed' \subseteq Unnoticed \cup {k}
      BY <2>1, <3>1 DEF Unnoticed
    <3>3. CASE k \in sent
      <4>1. k \in Unnoticed
        BY <1>3, <2>1, <3>3 DEF Unnoticed
      <4>2. Unnoticed' = Unnoticed
        BY <2>1, <3>1, <3>3 DEF Unnoticed
      <4>3. repeats' = repeats + 1
        BY <1>1, <2>5, <3>3
      <4> HIDE DEF Unnoticed, Losses
      <4>4. QED  BY <2>2, <3>1, <4>2, <4>3 DEF RepeatsAreCovered
    <3>4. CASE k \notin sent
      <4>1. repeats' = repeats
        BY <1>1, <3>4
      <4>2. QED  BY <3>1, <3>2, <4>1, OneMoreLost
    <3>5. QED  BY <3>3, <3>4
  <2>6. QED  BY <2>3, <2>4, <2>5
<1>9. QED  BY <1>4, <1>6, <1>7, <1>8

(* The write of an outcome puts a send that worked on its row.             *)
LEMMA DeliverKeeps ==
    ASSUME Inv, DeliverOne
    PROVE  Inv'
<1> USE DEF Inv
<1>1. PICK s \in sending :
          /\ row' = [row EXCEPT ![s.key] = Settled(s.key, s.ok)]
          /\ attempts' = [attempts EXCEPT ![s.key] = IF s.ok THEN 0 ELSE @]
          /\ due' = due \ {s.key}
          /\ batch' = batch \ {s.key}
  BY DEF DeliverOne
<1>2. sending' = {} /\ UNCHANGED <<run, window, guard, history>>
  BY DEF DeliverOne
<1>3. sending = {s} /\ s.key \in batch /\ s.ok \in BOOLEAN /\ s.key \in Keys
  BY <1>1 DEF OneAtATime, Types
<1>4. /\ Settled(s.key, s.ok) \in {"pending", "delivered", "failed"}
      /\ s.ok => Settled(s.key, s.ok) = "delivered"
  BY <1>3 DEF Settled, Known, ClaimedIsPending
<1>5. Types'
  BY <1>1, <1>2, <1>3, <1>4, DeliveryAssumption DEF Types, history, troubles, Troubles
<1>6. Counted' /\ Cardinality(batch') <= Batch
  <2>1. Counted'
    BY <1>1, <1>2, FS_RemoveElement DEF Counted, history
  <2>2. Cardinality(batch') <= Cardinality(batch) /\ Cardinality(batch) \in Nat /\ Cardinality(batch') \in Nat
    BY <1>1, FS_Subset, FS_CardinalityType DEF Counted
  <2>3. QED  BY <2>1, <2>2, DeliveryAssumption
<1>7. OneAtATime' /\ ClaimedIsPending' /\ EpisodeHasBegun'
  BY <1>1, <1>2, <1>3 DEF OneAtATime, ClaimedIsPending, EpisodeHasBegun, Types
<1>8. Unnoticed' \subseteq Unnoticed
  <2>1. \A k \in sent' : row'[k] # "delivered" =>
            k \notin Noted /\ row[k] # "delivered" /\ k \in sent
    BY <1>1, <1>2, <1>3, <1>4 DEF Noted, history, Types, ClaimedIsPending
  <2>2. QED  BY <2>1 DEF Unnoticed
<1>9. RepeatsAreCovered'
  BY <1>2, <1>8, NothingForgotten DEF history, troubles, Losses, Types
<1>10. QED  BY <1>5, <1>6, <1>7, <1>9

(* A write that fails, or a daemon that stops, leaves at most one send     *)
(* untold: there is one dispatcher.                                        *)
LEMMA FaultKeeps ==
    ASSUME Inv, WriteLost \/ Restart
    PROVE  Inv'
<1> USE DEF Inv
<1>1. /\ faults' = faults + 1 /\ Troubles < MaxTroubles
      /\ batch' \subseteq batch /\ sending' = {}
      /\ guard' \in {guard, [guard EXCEPT !.state = "normal", !.streak = 0]}
      /\ UNCHANGED <<run, store, sent, repeats, retries, killed, expired>>
  BY DEF WriteLost, Restart, Troubled
<1>2. Types' /\ EpisodeHasBegun'
  <2>1. /\ guard' \in GuardStates
        /\ guard'.state = "degraded" => guard' = guard
    <3>1. guard \in GuardStates
      BY DEF Types
    <3>2. CASE guard' = guard
      BY <3>1, <3>2
    <3>3. CASE guard' = [guard EXCEPT !.state = "normal", !.streak = 0]
      <4>1. guard' \in GuardStates /\ guard'.state = "normal"
        BY <3>1, <3>3, GuardRecord
      <4>2. QED  BY <4>1
    <3>4. QED  BY <1>1, <3>2, <3>3
  <2>2. faults' \in Nat /\ Troubles' <= MaxTroubles
    BY <1>1, DeliveryAssumption DEF Types, Troubles
  <2>3. QED  BY <1>1, <2>1, <2>2 DEF Types, EpisodeHasBegun, store
<1>3. Counted' /\ Cardinality(batch') <= Batch
  <2>1. Counted'
    BY <1>1, FS_Subset DEF Counted, store
  <2>2. Cardinality(batch') <= Cardinality(batch) /\ Cardinality(batch) \in Nat /\ Cardinality(batch') \in Nat
    BY <1>1, FS_Subset, FS_CardinalityType DEF Counted
  <2>3. QED  BY <2>1, <2>2, DeliveryAssumption
<1>4. OneAtATime' /\ ClaimedIsPending'
  BY <1>1 DEF OneAtATime, ClaimedIsPending, store
<1>5. RepeatsAreCovered'
  <2>1. PICK k : Noted \subseteq {k}
    BY DEF OneAtATime, Noted
  <2>2. Unnoticed' \subseteq Unnoticed \cup {k}
    BY <1>1, <2>1 DEF Unnoticed, store
  <2>3. Losses' = Losses + 1
    BY <1>1 DEF Losses, Types
  <2>4. QED  BY <1>1, <2>2, <2>3, OneMoreLost
<1>6. QED  BY <1>2, <1>3, <1>4, <1>5

-----------------------------------------------------------------------------
(* Time, the operator's retry and retention.                               *)

(* Time and an operator's retry forget no send: a retry takes no delivered *)
(* row.  Retention does, and counts among what loses a record.             *)
LEMMA RowKeeps ==
    ASSUME Inv,
           \/ \E k \in Keys : Due(k) \/ RunNotificationsRetry(k)
           \/ \E w \in Windows : WindowCloses(w)
           \/ Prune
           \/ UNCHANGED vars
    PROVE  Inv'
<1> USE DEF Inv
<1> DEFINE Pruned(k) == /\ row[k] = "delivered" /\ row' = [row EXCEPT ![k] = "none"]
                        /\ expired' = expired + 1 /\ Troubles < MaxTroubles
                        /\ retries' = retries /\ due' = due
           Settles == /\ \/ row' = row
                         \/ \E k \in Keys : row[k] \in {"failed", "pending"} /\ row' = [row EXCEPT ![k] = "pending"]
                      /\ \/ due' = due
                         \/ \E k \in Keys : due' = due \cup {k} /\ row'[k] = "pending"
                      /\ retries' = retries \/ (retries' = retries + 1 /\ Troubles < MaxTroubles)
                      /\ expired' = expired
<1>1. /\ Settles \/ \E k \in Keys : Pruned(k)
      /\ \/ window' = window
         \/ \E w \in Windows : window' = [window EXCEPT ![w] = {}]
      /\ UNCHANGED <<run, attempts, guard, dispatcher, sent, repeats, faults, killed>>
  <2>1. CASE \E k \in Keys : Due(k)
    BY <2>1 DEF Due, history, troubles
  <2>2. CASE \E k \in Keys : RunNotificationsRetry(k)
    BY <2>2 DEF RunNotificationsRetry, HandleRetryNotification, RetryOutbox, Troubled, Types
  <2>3. CASE \E w \in Windows : WindowCloses(w)
    BY <2>3 DEF WindowCloses, history, troubles
  <2>4. CASE Prune
    BY <2>4 DEF Prune, Prunable, Troubled, history, troubles
  <2>5. CASE UNCHANGED vars
    BY <2>5 DEF vars, store, history, troubles
  <2>6. QED  BY <2>1, <2>2, <2>3, <2>4, <2>5
<1>2. \A k \in Keys : /\ row[k] = "pending" => row'[k] = "pending"
                      /\ row'[k] \in {"none", "pending", "delivered", "failed"}
  BY <1>1 DEF Types
<1>3. row' \in [Keys -> {"none", "pending", "delivered", "failed"}]
  BY <1>1 DEF Types
<1>4. due' \subseteq {k \in Keys : row'[k] = "pending"}
  BY <1>1, <1>2 DEF Types
<1>5. window' \in [Windows -> SUBSET Keys]
  BY <1>1 DEF Types
<1>6. retries' \in Nat /\ expired' \in Nat /\ Troubles' <= MaxTroubles
  BY <1>1, DeliveryAssumption DEF Types, Troubles
<1>7. Types'
  BY <1>1, <1>3, <1>4, <1>5, <1>6 DEF Types, dispatcher
<1>8. IsFiniteSet(due')
  BY <1>1, FS_AddElement DEF Counted
<1>9. Counted' /\ Cardinality(batch') <= Batch
  BY <1>1, <1>8 DEF Counted, dispatcher
<1>10. OneAtATime' /\ ClaimedIsPending' /\ EpisodeHasBegun'
  BY <1>1, <1>2 DEF OneAtATime, ClaimedIsPending, EpisodeHasBegun, Types, dispatcher
<1>11. RepeatsAreCovered'
  <2>0. Noted' = Noted /\ sent' = sent /\ sent \subseteq Keys /\ repeats' = repeats
    BY <1>1 DEF Noted, dispatcher, Types
  <2>1. CASE Settles
    <3>1. \A k \in Keys : row'[k] # "delivered" => row[k] # "delivered"
      BY <2>1 DEF Types
    <3>2. Unnoticed' \subseteq Unnoticed
      BY <2>0, <3>1 DEF Unnoticed
    <3>3. Losses' = Losses /\ Losses \in Nat
      BY <1>1, <2>1 DEF Losses, Types
    <3>4. QED  BY <2>0, <3>2, <3>3, NothingForgotten
  <2>2. CASE \E k \in Keys : Pruned(k)
    <3>1. PICK k \in Keys : Pruned(k)
      BY <2>2
    <3>2. \A x \in Keys : x # k => row'[x] = row[x]
      BY <3>1 DEF Types
    <3>3. Unnoticed' \subseteq Unnoticed \cup {k}
      BY <2>0, <3>2 DEF Unnoticed
    <3>4. Losses' = Losses + 1
      BY <1>1, <3>1 DEF Losses, Types
    <3>5. QED  BY <2>0, <3>3, <3>4, OneMoreLost
  <2>3. QED  BY <1>1, <2>1, <2>2
<1>12. QED  BY <1>7, <1>9, <1>10, <1>11

-----------------------------------------------------------------------------
(* The theorems.                                                           *)

(* Nothing was sent before the start.                                      *)
LEMMA InitInv == Init => Inv
<1> SUFFICES ASSUME Init PROVE Inv
  OBVIOUS
<1> USE DEF Init
<1>1. Types
  BY DeliveryAssumption DEF Types, GuardStates, Troubles
<1>2. Counted /\ Cardinality(batch) = 0
  BY FS_EmptySet DEF Counted
<1>3. OneAtATime /\ ClaimedIsPending /\ EpisodeHasBegun
  BY DEF OneAtATime, ClaimedIsPending, EpisodeHasBegun
<1>4. Unnoticed = {}
  BY DEF Unnoticed
<1>5. RepeatsAreCovered
  BY <1>4, FS_EmptySet DEF RepeatsAreCovered, Losses
<1>6. QED  BY <1>1, <1>2, <1>3, <1>5, DeliveryAssumption DEF Inv

(* The inductive invariant: a send that no delivered row tells of is paid  *)
(* for by what lost its record, beside the repeats already made.           *)
THEOREM DeliveryInvariant == Spec => []Inv
<1>1. Inv /\ [Next]_vars => Inv'
  BY RunStep, GuardKeeps, ClaimKeeps, SendKeeps, DeliverKeeps, FaultKeeps, RowKeeps DEF Next, Dispatch
<1>2. QED  BY <1>1, InitInv, PTL DEF Spec

(* The outbox keeps its types; a batch is no larger than DeliveryBatch, one*)
(* row of it is being sent, and only pending rows are due.                 *)
THEOREM DeliveryTypes == Spec => []TypeOK
<1>1. Inv => TypeOK
  <2> SUFFICES ASSUME Inv PROVE TypeOK
    OBVIOUS
  <2>1. Cardinality(sending) <= 1
    <3>1. CASE sending = {}
      BY <3>1, FS_EmptySet
    <3>2. CASE sending # {}
      <4>1. PICK s : sending = {s}
        BY <3>2 DEF Inv, OneAtATime
      <4>2. Cardinality(sending) = 1
        BY <4>1, FS_Singleton
      <4>3. QED  BY <4>2
    <3>3. QED  BY <3>1, <3>2
  <2>2. QED  BY <2>1 DEF Inv, Types, TypeOK, GuardStates
<1>2. QED  BY <1>1, DeliveryInvariant, PTL

(* Repeated alerts, counted over all that was ever sent, are accounted for *)
(* by stops, crashes and failed writes, by notifiers that delivered and    *)
(* ended with an error, and by delivered rows that retention removed; a    *)
(* visibility, a window and an operator's retry add none.                  *)
THEOREM RepeatsStayBounded == Spec => []RepeatsAreAccounted
<1>1. Inv => RepeatsAreAccounted
  <2> SUFFICES ASSUME Inv PROVE RepeatsAreAccounted
    OBVIOUS
  <2>1. Cardinality(Unnoticed) \in Nat
    BY UnnoticedIsFinite
  <2> HIDE DEF Unnoticed
  <2>2. QED  BY <2>1 DEF Inv, Types, Losses, RepeatsAreCovered, RepeatsAreAccounted
<1>2. QED  BY <1>1, DeliveryInvariant, PTL

=============================================================================
