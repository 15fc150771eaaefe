--------------------------- MODULE AdmissionProofs ---------------------------
(* The two halves of I12, proved for every set of jobs, keys and policies,  *)
(* every batch limit and any number of runs.                                *)
EXTENDS Admission, FiniteSetTheorems, WellFoundedInduction, TLAPS

Inv == TypeOK /\ OneHolderPerKey

-----------------------------------------------------------------------------
(* The claim order.                                                        *)

(* A set of naturals has a least element.                                  *)
LEMMA LeastNatural ==
    ASSUME NEW T \in SUBSET Nat, T # {}
    PROVE  \E m \in T : \A x \in T : m <= x
<1>1. PICK m \in T : \A x \in T : ~(<<x, m>> \in OpToRel(<, Nat))
  BY NatLessThanWellFounded, WFMin
<1>2. \A x \in T : ~(x < m)
  BY <1>1 DEF OpToRel
<1>3. QED  BY <1>2

(* The claim order is total (scheduled_for, NULL first, then id) ...       *)
LEMMA BeforeTotal ==
    ASSUME TypeOK, NEW r \in RunIds, NEW q \in RunIds, r # q
    PROVE  Before(r, q) \/ Before(q, r)
BY ClaimAssumption DEF TypeOK, Before, RunIds

(* ... so every set of runs has a last one in it.                          *)
LEMMA LastInOrder ==
    ASSUME TypeOK, NEW T \in SUBSET RunIds, T # {}
    PROVE  \E m \in T : \A r \in T \ {m} : Before(r, m)
<1> DEFINE Place(r) == IF timed[r] THEN MaxRuns - r ELSE 2 * MaxRuns - r
           Places == {Place(r) : r \in T}
<1>1. \A r \in T : Place(r) \in Nat
  BY ClaimAssumption DEF RunIds
<1>2. PICK p \in Places : \A x \in Places : p <= x
  <2> HIDE DEF Place
  <2>1. Places \in SUBSET Nat /\ Places # {}
    BY <1>1
  <2>2. QED  BY <2>1, LeastNatural
<1>3. PICK m \in T : p = Place(m)
  BY <1>2
<1>4. ASSUME NEW r \in T \ {m}
      PROVE  Before(r, m)
  <2>1. Place(m) <= Place(r)
    BY <1>2, <1>3
  <2>2. QED  BY <2>1, ClaimAssumption DEF Before, TypeOK, RunIds
<1>5. QED  BY <1>4
-----------------------------------------------------------------------------
(* The claim transaction.                                                  *)

(* What claimTx starts is queued, due and not cancelled, and waits for no  *)
(* key; what claimKeyDeferredTx tries waits for one.                       *)
LEMMA WhatIsTried ==
    ASSUME NEW only \in SUBSET RunIds, NEW batch, NEW budget
    PROVE  /\ \A r \in Chosen(only, batch) :
                 r \in RunIds /\ Claimable(r) /\ defer[r] # "concurrency_key"
           /\ \A r \in KeyTried(only, budget) :
                 r \in RunIds /\ Claimable(r) /\ defer[r] = "concurrency_key"
BY DEF Chosen, Fits, Candidates, KeyTried, KeyDeferred

(* The rows as a claim leaves them: the started runs run, those that       *)
(* waited for a key hold it, and every start was guarded.                  *)
Claims(started, tried, chosen, verdict) ==
    /\ StartedInOrder(started, tried, chosen)
    /\ state' = [r \in RunIds |-> IF r \in started THEN "running"
                                 ELSE IF r \in Closed THEN verdict[r] ELSE state[r]]
    /\ key' = [r \in RunIds |-> IF r \in started /\ defer[r] = "concurrency_key"
                               THEN wanted[r] ELSE key[r]]
    /\ UNCHANGED <<job, ceiling>>

-----------------------------------------------------------------------------
(* One holder per key.                                                     *)

(* A claim keeps the index: a keyed start is refused while somebody queued *)
(* or running holds the key, and the second of two starts sees the first.  *)
LEMMA ClaimKeepsKeys ==
    ASSUME TypeOK, OneHolderPerKey,
           NEW only \in SUBSET RunIds, NEW batch, ClaimRuns(only, batch)
    PROVE  OneHolderPerKey'
<1>1. PICK started \in SUBSET RunIds, tried \in SUBSET RunIds, verdict \in Closings :
          /\ Claims(started, tried, Chosen(only, batch), verdict)
          /\ \A r \in tried : Claimable(r) /\ defer[r] = "concurrency_key"
  BY WhatIsTried DEF ClaimRuns, Claims
<1> DEFINE chosen == Chosen(only, batch)
           Keyed == {r \in started : defer[r] = "concurrency_key"}
<1>2. /\ \A r \in started : Claimable(r)
      /\ \A r \in Keyed : r \in tried
  BY <1>1, WhatIsTried DEF Claims, StartedInOrder
<1>3. ASSUME NEW r \in RunIds, state'[r] \in Active
      PROVE  state[r] \in Active /\ r \notin Closed
  BY <1>1, <1>2, <1>3 DEF Claims, Closings, Closed, Claimable, Active, Terminal
<1>4. \A r \in RunIds : key'[r] = IF r \in Keyed THEN wanted[r] ELSE key[r]
  BY <1>1 DEF Claims
<1>5. ASSUME NEW r \in Keyed, NEW q \in RunIds, q # r, state'[q] \in Active, key'[q] = wanted[r]
      PROVE  q \in Keyed /\ Before(r, q)
  <2>1. KeyFree(r, chosen \cup {x \in started \cap tried : Before(x, r)})
    BY <1>1, <1>2, WhatIsTried DEF Claims, StartedInOrder, KeyedStart
  <2>2. q \in Keyed
    BY <1>3, <1>4, <1>5, <2>1 DEF KeyFree
  <2>3. ~Before(q, r)
    BY <1>2, <1>4, <1>5, <2>1, <2>2 DEF KeyFree
  <2>4. QED  BY <1>5, <2>2, <2>3, BeforeTotal
<1>6. ASSUME NEW r \in RunIds, NEW q \in RunIds, Before(r, q), Before(q, r)
      PROVE  FALSE
  BY <1>6, ClaimAssumption DEF Before, RunIds
<1>7. ASSUME NEW r \in RunIds, NEW q \in RunIds, r # q,
             state'[r] \in Active, state'[q] \in Active, key'[r] = key'[q]
      PROVE  key'[r] = NoKey
  <2>1. CASE r \in Keyed
    BY <1>4, <1>5, <1>6, <1>7, <2>1
  <2>2. CASE q \in Keyed
    BY <1>4, <1>5, <1>6, <1>7, <2>2
  <2>3. CASE r \notin Keyed /\ q \notin Keyed
    BY <1>3, <1>4, <1>7, <2>3 DEF OneHolderPerKey
  <2>4. QED  BY <2>1, <2>2, <2>3
<1>8. QED  BY <1>7 DEF OneHolderPerKey

(* A new row holds a key nobody holds, or none.                            *)
LEMMA InsertKeepsKeys ==
    ASSUME TypeOK, OneHolderPerKey, NEW j, NEW k, ~Held(k), CanCreate,
           NEW w, NEW isDue, NEW reason, NEW kw, NEW isTimed,
           Insert(j, k, w, isDue, reason, kw, isTimed)
    PROVE  OneHolderPerKey'
BY DEF TypeOK, OneHolderPerKey, Held, CanCreate, Insert

(* Every other action hands a key on to nobody.                            *)
LEMMA OneHolderStep ==
    ASSUME Inv, [Next]_vars
    PROVE  OneHolderPerKey'
<1> USE DEF Inv
<1>0. ~Held(NoKey)
  BY DEF Held
<1>1. ASSUME NEW j \in Jobs, NEW k, TriggerManual(j, k) \/ FireSchedule(j, k) \/ FireSensor(j, k)
      PROVE  OneHolderPerKey'
  BY <1>0, <1>1, InsertKeepsKeys DEF TriggerManual, FireSchedule, FireSensor, DeferForKey
<1>2. ASSUME NEW r \in RunIds, Replay(r)
      PROVE  OneHolderPerKey'
  BY <1>2, InsertKeepsKeys DEF Replay
<1>3. ASSUME NEW r \in RunIds, BecomeDue(r) \/ RequestCancel(r)
      PROVE  OneHolderPerKey'
  BY <1>3 DEF BecomeDue, RequestCancel, OneHolderPerKey
<1>4. ASSUME NEW r \in RunIds, Finish(r) \/ ReapToQueued(r)
      PROVE  OneHolderPerKey'
  BY <1>4 DEF Finish, ReapToQueued, OneHolderPerKey, TypeOK, Active, Terminal
<1>5. ASSUME NEW r \in RunIds, Reopen(r)
      PROVE  OneHolderPerKey'
  BY <1>5 DEF Reopen, ReopenUnchecked, Held, OneHolderPerKey, TypeOK, Active
<1>6. ASSUME NEW j \in Jobs, NEW n \in Ceilings, SetCeiling(j, n)
      PROVE  OneHolderPerKey'
  BY <1>6 DEF SetCeiling, rowVars, OneHolderPerKey
<1>7. CASE UNCHANGED vars
  BY <1>7 DEF vars, rowVars, OneHolderPerKey
<1>8. CASE Claim
  BY <1>8, ClaimKeepsKeys DEF Claim
<1>9. QED
  BY <1>1, <1>2, <1>3, <1>4, <1>5, <1>6, <1>7, <1>8 DEF Next, Create

-----------------------------------------------------------------------------
(* Type correctness.                                                       *)

(* A new row is in its domain.                                             *)
LEMMA InsertType ==
    ASSUME TypeOK, CanCreate, NEW j \in Jobs, NEW k \in AllKeys \cup {NoKey},
           NEW w \in AllKeys \cup {NoKey}, NEW isDue \in BOOLEAN, NEW reason \in Defers,
           NEW kw \in AllKeys \cup {NoKey}, NEW isTimed \in BOOLEAN,
           Insert(j, k, w, isDue, reason, kw, isTimed)
    PROVE  TypeOK'
BY DEF TypeOK, CanCreate, Insert, Active

(* Every column stays in its domain.                                       *)
LEMMA TypeStep ==
    ASSUME TypeOK, [Next]_vars
    PROVE  TypeOK'
<1>1. ASSUME NEW j \in Jobs, NEW k \in KeysOf(j) \cup {NoKey},
             TriggerManual(j, k) \/ FireSchedule(j, k) \/ FireSensor(j, k)
      PROVE  TypeOK'
  <2>1. k \in AllKeys \cup {NoKey} /\ NoKey \in AllKeys \cup {NoKey}
    BY DEF AllKeys
  <2> USE DEF Defers
  <2>2. CASE TriggerManual(j, k) \/ FireSensor(j, k)
    BY <2>1, <2>2, InsertType DEF TriggerManual, FireSensor, DeferForKey
  <2>3. CASE FireSchedule(j, k)
    <3>1. PICK isDue \in BOOLEAN, reason \in Defers, kw \in AllKeys \cup {NoKey}, k1 \in AllKeys \cup {NoKey} :
              Insert(j, k1, k, isDue, reason, kw, TRUE)
      <4>1. CASE Held(k)
        BY <2>1, <2>3, <4>1 DEF FireSchedule, DeferForKey
      <4>2. CASE ~Held(k) /\ Cardinality(ActiveRunsForJob(j)) >= ceiling[j]
        BY <2>1, <2>3, <4>2, Zenon DEF FireSchedule, Insert
      <4>3. CASE ~Held(k) /\ ~(Cardinality(ActiveRunsForJob(j)) >= ceiling[j])
        BY <2>1, <2>3, <4>3, Zenon DEF FireSchedule, Insert
      <4>4. QED  BY <4>1, <4>2, <4>3
    <3>2. QED  BY <2>1, <2>3, <3>1, InsertType DEF FireSchedule
  <2>4. QED  BY <1>1, <2>2, <2>3
<1>2. ASSUME NEW r \in RunIds, Replay(r)
      PROVE  TypeOK'
  BY <1>2, InsertType DEF Replay, TypeOK, Defers
<1>3. ASSUME NEW r \in RunIds, BecomeDue(r) \/ RequestCancel(r) \/ Finish(r)
      PROVE  TypeOK'
  BY <1>3 DEF BecomeDue, RequestCancel, Finish, TypeOK, Terminal
<1>4. ASSUME NEW r \in RunIds, ReapToQueued(r) \/ Reopen(r)
      PROVE  TypeOK'
  <2>1. returns' \in 0..MaxReturns
    BY <1>4, ClaimAssumption DEF ReapToQueued, Reopen, ReopenUnchecked, TypeOK
  <2>2. CASE ReapToQueued(r)
    BY <2>1, <2>2 DEF ReapToQueued, TypeOK, Active, Defers
  <2>3. CASE Reopen(r)
    BY <2>1, <2>3 DEF Reopen, ReopenUnchecked, TypeOK, Active, Defers
  <2>4. QED  BY <1>4, <2>2, <2>3
<1>5. ASSUME NEW j \in Jobs, NEW n \in Ceilings, SetCeiling(j, n)
      PROVE  TypeOK'
  BY <1>5, JobAssumption DEF SetCeiling, rowVars, TypeOK
<1>6. CASE UNCHANGED vars
  BY <1>6 DEF vars, rowVars, TypeOK
<1>7. ASSUME NEW only, NEW batch, ClaimRuns(only, batch)
      PROVE  TypeOK'
  <2>1. PICK verdict \in Closings, started \in SUBSET RunIds :
          state' = [r \in RunIds |-> IF r \in started THEN "running"
                                     ELSE IF r \in Closed THEN verdict[r] ELSE state[r]]
    BY <1>7 DEF ClaimRuns
  <2>2. state' \in [RunIds -> Active \cup Terminal \cup {"none"}]
    BY <2>1 DEF TypeOK, Closings, Closed, Active
  <2>3. /\ key' \in [RunIds -> AllKeys \cup {NoKey}]
        /\ wanted' \in [RunIds -> AllKeys \cup {NoKey}]
        /\ defer' \in [RunIds -> Defers]
        /\ UNCHANGED <<job, want, due, timed, returns, ceiling>>
    BY <1>7 DEF ClaimRuns, TypeOK, Defers
  <2>4. cancel' \in [RunIds -> BOOLEAN]
    BY <1>7 DEF ClaimRuns
  <2>5. QED  BY <2>2, <2>3, <2>4 DEF TypeOK
<1>8. QED
  BY <1>1, <1>2, <1>3, <1>4, <1>5, <1>6, <1>7 DEF Next, Create, Claim

-----------------------------------------------------------------------------
(* The ceiling.                                                            *)

(* Sets of runs can be counted.                                            *)
LEMMA RunsAreFinite ==
    ASSUME NEW S \in SUBSET RunIds
    PROVE  IsFiniteSet(S) /\ Cardinality(S) \in Nat
<1>1. IsFiniteSet(RunIds)
  BY FS_Interval, ClaimAssumption DEF RunIds
<1>2. IsFiniteSet(S)
  BY <1>1, FS_Subset
<1>3. QED  BY <1>2, FS_CardinalityType

(* One more run than fit strictly below the ceiling fits under it.         *)
LEMMA OneMoreFits ==
    ASSUME NEW S \in SUBSET RunIds, NEW r, NEW n \in Nat, Cardinality(S) < n
    PROVE  Cardinality(S \cup {r}) <= n
BY RunsAreFinite, FS_AddElement

(* The two claim paths together respect the ceiling: whichever starts the  *)
(* last run of the job has counted all the others.                         *)
LEMMA ClaimCounts ==
    ASSUME TypeOK, NEW only \in SUBSET RunIds, NEW batch, ClaimRuns(only, batch), NEW j \in Jobs
    PROVE  LET running == {r \in RunIds : state'[r] = "running" /\ job'[r] = j}
           IN  running = Running(j) \/ Cardinality(running) <= ceiling[j]
<1>1. PICK started \in SUBSET RunIds, tried \in SUBSET RunIds, verdict \in Closings :
          /\ Claims(started, tried, Chosen(only, batch), verdict)
          /\ \A r \in tried : Claimable(r) /\ defer[r] = "concurrency_key"
  BY WhatIsTried DEF ClaimRuns, Claims
<1> DEFINE chosen == Chosen(only, batch)
           running == {r \in RunIds : state'[r] = "running" /\ job'[r] = j}
           first == {r \in chosen : job[r] = j}
           keyed == {r \in started \cap tried : job[r] = j}
<1>2. running = Running(j) \cup first \cup keyed
  <2>1. \A r \in RunIds : state'[r] = "running" <=> r \in started \/ state[r] = "running"
    BY <1>1 DEF Claims, Closings, Closed, Terminal
  <2>2. started = chosen \cup (started \cap tried)
    BY <1>1 DEF Claims, StartedInOrder
  <2>3. QED  BY <1>1, <2>1, <2>2 DEF Claims, Running
<1>3. CASE keyed # {}
  <2>1. PICK m \in keyed : \A r \in keyed \ {m} : Before(r, m)
    BY <1>3, LastInOrder
  <2> DEFINE others == Running(j) \cup {q \in chosen \cup {x \in started \cap tried : Before(x, m)} : job[q] = j}
  <2>2. Cardinality(others) < ceiling[j]
    BY <1>1, <2>1, WhatIsTried DEF Claims, StartedInOrder, KeyedStart, RoomFor
  <2>3. running \subseteq others \cup {m}
    BY <1>2, <2>1
  <2>4. others \in SUBSET RunIds
    BY WhatIsTried DEF Running
  <2> HIDE DEF others, running
  <2>5. Cardinality(others \cup {m}) <= ceiling[j]
    BY <2>2, <2>4, OneMoreFits DEF TypeOK
  <2>6. QED  BY <2>1, <2>3, <2>4, <2>5, RunsAreFinite, FS_Subset DEF running, TypeOK
<1>4. CASE keyed = {} /\ first # {}
  <2>1. PICK m \in first : \A r \in first \ {m} : Before(r, m)
    BY <1>4, WhatIsTried, LastInOrder
  <2> DEFINE ahead == {q \in Candidates(only) : job[q] = job[m] /\ Before(q, m)}
  <2>2. Cardinality(Running(j)) + Cardinality(ahead) < ceiling[j]
    BY <2>1 DEF Chosen, Fits
  <2>3. running \subseteq (Running(j) \cup ahead) \cup {m}
    BY <1>2, <1>4, <2>1 DEF Chosen, Fits
  <2>4. Running(j) \in SUBSET RunIds /\ ahead \in SUBSET RunIds
    BY DEF Running, Candidates
  <2> HIDE DEF ahead, running
  <2>5. Cardinality(Running(j) \cup ahead) <= Cardinality(Running(j)) + Cardinality(ahead)
    <3>1. IsFiniteSet(Running(j)) /\ IsFiniteSet(ahead) /\ Cardinality(Running(j) \cap ahead) \in Nat
      BY <2>4, RunsAreFinite
    <3>2. Cardinality(Running(j)) \in Nat /\ Cardinality(ahead) \in Nat
      BY <2>4, RunsAreFinite
    <3>3. Cardinality(Running(j) \cup ahead)
            = Cardinality(Running(j)) + Cardinality(ahead) - Cardinality(Running(j) \cap ahead)
      BY <3>1, FS_Union
    <3> HIDE DEF Running
    <3>4. QED  BY <3>1, <3>2, <3>3
  <2>6. Cardinality((Running(j) \cup ahead) \cup {m}) <= ceiling[j]
    <3>1. Running(j) \cup ahead \in SUBSET RunIds
      BY <2>4
    <3>2. /\ Cardinality(Running(j)) \in Nat /\ Cardinality(ahead) \in Nat
          /\ Cardinality(Running(j) \cup ahead) \in Nat /\ ceiling[j] \in Nat
      BY <2>4, <3>1, RunsAreFinite DEF TypeOK
    <3>3. Cardinality(Running(j) \cup ahead) < ceiling[j]
      BY <2>2, <2>5, <3>2
    <3>4. QED  BY <3>1, <3>2, <3>3, OneMoreFits
  <2>7. m \in RunIds
    BY <2>1, WhatIsTried
  <2>8. QED  BY <2>3, <2>4, <2>6, <2>7, RunsAreFinite, FS_Subset DEF running, TypeOK
<1>5. QED  BY <1>2, <1>3, <1>4

(* A queued run is not one of the job's running runs, and a new row is     *)
(* queued.                                                                 *)
LEMMA InsertCounts ==
    ASSUME TypeOK, CanCreate, NEW j, NEW k, NEW w, NEW isDue, NEW reason, NEW kw, NEW isTimed,
           Insert(j, k, w, isDue, reason, kw, isTimed), NEW i \in Jobs
    PROVE  {r \in RunIds : state'[r] = "running" /\ job'[r] = i} \subseteq Running(i)
BY DEF TypeOK, CanCreate, Insert, Running

(* No step but a claim adds a running run to a job.                        *)
LEMMA OnlyClaimsStart ==
    ASSUME TypeOK, [Next]_vars, ~Claim, NEW i \in Jobs
    PROVE  {r \in RunIds : state'[r] = "running" /\ job'[r] = i} \subseteq Running(i)
<1> DEFINE Goal == {r \in RunIds : state'[r] = "running" /\ job'[r] = i} \subseteq Running(i)
<1>1. ASSUME NEW j \in Jobs, NEW k, TriggerManual(j, k) \/ FireSchedule(j, k) \/ FireSensor(j, k)
      PROVE  Goal
  BY <1>1, InsertCounts DEF TriggerManual, FireSchedule, FireSensor, DeferForKey
<1>2. ASSUME NEW r \in RunIds, Replay(r)
      PROVE  Goal
  BY <1>2, InsertCounts DEF Replay
<1>3. ASSUME NEW r \in RunIds, BecomeDue(r) \/ RequestCancel(r)
      PROVE  Goal
  BY <1>3 DEF BecomeDue, RequestCancel, Running
<1>4. ASSUME NEW r \in RunIds, Finish(r) \/ ReapToQueued(r) \/ Reopen(r)
      PROVE  Goal
  BY <1>4 DEF Finish, ReapToQueued, Reopen, ReopenUnchecked, TypeOK, Terminal, Running
<1>5. ASSUME NEW j \in Jobs, NEW n \in Ceilings, SetCeiling(j, n)
      PROVE  Goal
  BY <1>5 DEF SetCeiling, rowVars, Running
<1>6. CASE UNCHANGED vars
  BY <1>6 DEF vars, rowVars, Running
<1>7. QED
  BY <1>1, <1>2, <1>3, <1>4, <1>5, <1>6 DEF Next, Create

(* So a step that adds a running run to a job is a claim, and it counted.  *)
LEMMA CeilingStep ==
    ASSUME TypeOK, [Next]_vars, NEW j \in Jobs
    PROVE  LET running == {r \in RunIds : state'[r] = "running" /\ job'[r] = j}
           IN  Cardinality(running) > Cardinality(Running(j)) => Cardinality(running) <= ceiling[j]
<1> DEFINE running == {r \in RunIds : state'[r] = "running" /\ job'[r] = j}
<1>1. CASE Claim
  <2>1. PICK batch \in Batches, only \in SUBSET RunIds : ClaimRuns(only, batch)
    BY <1>1 DEF Claim
  <2>2. running = Running(j) \/ Cardinality(running) <= ceiling[j]
    BY <2>1, ClaimCounts
  <2>3. Cardinality(Running(j)) \in Nat
    BY RunsAreFinite DEF Running
  <2>4. QED  BY <2>2, <2>3
<1>2. CASE ~Claim
  <2>1. running \subseteq Running(j)
    BY <1>2, OnlyClaimsStart
  <2>2. Running(j) \in SUBSET RunIds /\ running \in SUBSET RunIds
    BY DEF Running
  <2> HIDE DEF running
  <2>3. /\ Cardinality(running) <= Cardinality(Running(j))
        /\ Cardinality(running) \in Nat /\ Cardinality(Running(j)) \in Nat
    BY <2>1, <2>2, RunsAreFinite, FS_Subset
  <2>4. QED  BY <2>3 DEF running
<1>3. QED  BY <1>1, <1>2

-----------------------------------------------------------------------------
(* The theorems.                                                           *)

(* At first there is no run.                                               *)
LEMMA InitInv == Init => Inv
<1> SUFFICES ASSUME Init PROVE Inv
  OBVIOUS
<1>1. (CHOOSE j \in Jobs : TRUE) \in Jobs
  BY JobAssumption
<1>2. TypeOK
  BY <1>1, JobAssumption, ClaimAssumption DEF Init, TypeOK, Defers
<1>3. OneHolderPerKey
  BY DEF Init, OneHolderPerKey
<1>4. QED  BY <1>2, <1>3 DEF Inv

(* The inductive invariant: the columns keep their domains and the key     *)
(* index is unique.                                                        *)
THEOREM AdmissionInvariant == Spec => []Inv
<1>1. Inv /\ [Next]_vars => Inv'
  BY TypeStep, OneHolderStep DEF Inv
<1>2. QED  BY <1>1, InitInv, PTL DEF Spec

(* Every column of every run keeps its domain.                             *)
THEOREM AdmissionTypes == Spec => []TypeOK
<1>1. Inv => TypeOK
  BY DEF Inv
<1>2. QED  BY <1>1, AdmissionInvariant, PTL

(* At most one queued or running run carries a key (ux_runs_conc_key and   *)
(* the guard of keyedStartSQL), whatever the keys, policies and batches.   *)
THEOREM KeysAreExclusive == Spec => []OneHolderPerKey
<1>1. Inv => OneHolderPerKey
  BY DEF Inv
<1>2. QED  BY <1>1, AdmissionInvariant, PTL

(* No step that starts runs leaves a job with more running runs than its   *)
(* ceiling at that moment: chooseClaimableTx and claimKeyDeferredTx, one   *)
(* after the other in the claim transaction, overshoot for no batch limit. *)
THEOREM ClaimsRespectCeilings == Spec => ClaimStaysUnderCeiling
<1>1. ASSUME TypeOK, [Next]_vars
      PROVE  \A j \in Jobs :
                Cardinality({r \in RunIds : state'[r] = "running" /\ job'[r] = j})
                  > Cardinality(Running(j))
                => Cardinality({r \in RunIds : state'[r] = "running" /\ job'[r] = j})
                     <= ceiling[j]
  BY <1>1, CeilingStep
<1>2. QED  BY <1>1, AdmissionTypes, PTL DEF Spec, ClaimStaysUnderCeiling

=============================================================================
