---------------------------- MODULE UpkeepProofs ----------------------------
(* What nightly maintenance may never take, proved for every retention     *)
(* policy, number of days and number of faults.                            *)
EXTENDS Upkeep, FiniteSetTheorems, SequenceTheorems, WellFoundedInduction, TLAPS

(* No observation is ahead of the day, and a key that made a run is either *)
(* remembered or has aged past the horizon.                                *)
KeysAreCovered ==
    /\ base <= day /\ seen <= day
    /\ \A a \in fired : a <= day /\ (a <= seen \/ a < day - RunKeysDays)

(* A run still open has its log shard, or lost it while it was open.       *)
OpenRunsHaveShards ==
    \A d \in Days : rows[d].t = "runs" /\ ~rows[d].closed => d \in shards \cup excused

(* The copy being worked on is the newest generation; it counts as good    *)
(* from its check to the end of the rotation.                              *)
NewestCopy ==
    /\ cyc = "verify" => dir # <<>> /\ ~dir[Len(dir)]
    /\ cyc \in {"record", "rotate"} => dir # <<>> /\ dir[Len(dir)]

Inv ==
    /\ TypeOK
    /\ KeysAreCovered /\ NeverTwiceWithinHorizon
    /\ OpenRunsHaveShards /\ LogPathNamesAFile
    /\ NewestCopy /\ VerifiedBackupStays

-----------------------------------------------------------------------------
(* Min of a set of days is one of them, and Max of two is the larger.      *)
LEMMA MinIsIn ==
    ASSUME NEW T \in SUBSET Nat, T # {}
    PROVE  Min(T) \in T
<1>1. PICK m \in T : \A x \in T : ~(<<x, m>> \in OpToRel(<, Nat))
  BY NatLessThanWellFounded, WFMin
<1>2. \A x \in T : ~(x < m)
  BY <1>1 DEF OpToRel
<1>3. \A x \in T : m <= x
  BY <1>2
<1>4. QED  BY <1>3 DEF Min

(* The larger of one and a number of generations.                          *)
LEMMA MaxOfTwo ==
    ASSUME NEW x \in Int
    PROVE  Max({1, x}) = IF x > 1 THEN x ELSE 1
<1>1. Max({1, x}) = CHOOSE m \in {1, x} : \A y \in {1, x} : y <= m
  BY DEF Max
<1>2. CASE x > 1
  <2>1. \A m \in {1, x} : (\A y \in {1, x} : y <= m) <=> m = x
    BY <1>2
  <2>2. QED  BY <1>1, <1>2, <2>1
<1>3. CASE ~(x > 1)
  <2>1. \A m \in {1, x} : (\A y \in {1, x} : y <= m) <=> m = 1
    BY <1>3
  <2>2. QED  BY <1>1, <1>3, <2>1
<1>4. QED  BY <1>2, <1>3

(* The end of a sequence ends like it, and the last element can be taken   *)
(* off.                                                                    *)
LEMMA EndOfSeq ==
    ASSUME NEW S, NEW s \in Seq(S), NEW lo \in 1..Len(s), NEW k, k = SubSeq(s, lo, Len(s))
    PROVE  k \in Seq(S) /\ k # <<>> /\ Len(k) \in Nat \ {0} /\ k[Len(k)] = s[Len(s)]
<1> DEFINE n == Len(s)
<1>1. n \in Nat /\ lo \in 1..n /\ lo \in Int /\ \A i \in lo..n : s[i] \in S
  OBVIOUS
<1>2. k = SubSeq(s, lo, n)
  OBVIOUS
<1> HIDE DEF n
<1>3. /\ k \in Seq(S)
      /\ Len(k) = IF lo <= n THEN n - lo + 1 ELSE 0
      /\ \A i \in 1..n - lo + 1 : k[i] = s[lo + i - 1]
  BY <1>1, <1>2, SubSeqProperties
<1>4. Len(k) = n - lo + 1 /\ n - lo + 1 \in 1..n - lo + 1 /\ lo + (n - lo + 1) - 1 = n
  BY <1>1, <1>3
<1>5. k[Len(k)] = s[n]
  BY <1>3, <1>4
<1>6. Len(k) \in Nat \ {0} /\ k # <<>>
  <2>1. Len(k) \in Nat \ {0}
    BY <1>1, <1>4
  <2>2. QED  BY <2>1
<1>7. QED  BY <1>3, <1>5, <1>6 DEF n

(* A sequence without its last entry.                                      *)
LEMMA WithoutLast ==
    ASSUME NEW S, NEW s \in Seq(S), s # <<>>, NEW k, k = SubSeq(s, 1, Len(s) - 1)
    PROVE  k \in Seq(S) /\ Len(k) = Len(s) - 1 /\ \A i \in 1..Len(k) : k[i] = s[i]
<1> DEFINE n == Len(s)
<1>1. n \in Nat \ {0} /\ \A i \in 1..n - 1 : s[i] \in S
  OBVIOUS
<1>2. k = SubSeq(s, 1, n - 1)
  OBVIOUS
<1> HIDE DEF n
<1>3. /\ k \in Seq(S)
      /\ Len(k) = IF 1 <= n - 1 THEN n - 1 - 1 + 1 ELSE 0
      /\ \A i \in 1..n - 1 - 1 + 1 : k[i] = s[1 + i - 1]
  BY <1>1, <1>2, SubSeqProperties
<1>4. Len(k) = n - 1
  BY <1>1, <1>3
<1>5. \A i \in 1..n - 1 : k[i] = s[i]
  <2> SUFFICES ASSUME NEW i \in 1..n - 1 PROVE k[i] = s[i]
    OBVIOUS
  <2>1. i \in 1..n - 1 - 1 + 1 /\ 1 + i - 1 = i
    BY <1>1
  <2>2. QED  BY <1>3, <2>1
<1>6. QED  BY <1>3, <1>4, <1>5 DEF n

(* Rotation keeps the newest generation.                                   *)
LEMMA RotationKeepsNewest ==
    ASSUME TypeOK, dir # <<>>,
           NEW kept, kept = SubSeq(dir, Max({1, Len(dir) - BackupRetain + 1}), Len(dir))
    PROVE  /\ kept \in Seq(BOOLEAN) /\ kept # <<>> /\ Len(kept) \in Nat \ {0}
           /\ kept[Len(kept)] = dir[Len(dir)]
<1> DEFINE n == Len(dir)
           x == n - BackupRetain + 1
<1>1. dir \in Seq(BOOLEAN)
  BY DEF TypeOK
<1>2. n \in Nat \ {0}
  BY <1>1, EmptySeq, LenProperties
<1> HIDE DEF n
<1>3. x \in Int /\ x <= n
  BY <1>2, PolicyAssumption
<1>4. Max({1, x}) \in 1..n
  <2> HIDE DEF x
  <2>1. Max({1, x}) = IF x > 1 THEN x ELSE 1
    BY <1>3, MaxOfTwo
  <2>2. QED  BY <1>2, <1>3, <2>1
<1>5. kept = SubSeq(dir, Max({1, x}), Len(dir)) /\ Max({1, x}) \in 1..Len(dir)
  BY <1>4 DEF n
<1> HIDE DEF x
<1>6. QED  BY <1>1, <1>5, EndOfSeq

-----------------------------------------------------------------------------
(* A row taken away leaves a row table.                                    *)
RowType ==
    [t : {"none", "runs", "skips", "ticks", "sessions"},
     closed : BOOLEAN, age : 0..MaxDay, cited : BOOLEAN]

(* What a transaction may leave of a day's rows is a row.                  *)
LEMMA RowEdits ==
    ASSUME TypeOK
    PROVE  /\ rows \in [Days -> RowType] /\ NoRow \in RowType /\ day \in 0..MaxDay
           /\ \A t \in {"runs", "skips", "ticks", "sessions"}, c \in BOOLEAN :
                 [t |-> t, closed |-> c, age |-> day, cited |-> FALSE] \in RowType
           /\ \A d \in Days :
                 /\ [rows[d] EXCEPT !.closed = TRUE, !.age = day] \in RowType
                 /\ [rows[d] EXCEPT !.age = day] \in RowType
                 /\ \A c \in BOOLEAN : [rows[d] EXCEPT !.closed = TRUE, !.cited = c] \in RowType
<1> DEFINE Ages == 0..MaxDay
<1>1. /\ rows \in [Days -> [t : {"none", "runs", "skips", "ticks", "sessions"},
                             closed : BOOLEAN, age : Ages, cited : BOOLEAN]]
      /\ day \in Ages /\ 0 \in Ages
  BY BoundsAssumption DEF TypeOK, Days
<1> HIDE DEF Ages
<1>2. QED  BY <1>1 DEF RowType, Ages, NoRow

(* The type invariant, taken apart for the steps that touch one part.      *)
RowsOK == rows \in [Days -> RowType] /\ seen \in 0..MaxDay /\ fired \subseteq Days
LogsOK ==
    /\ shards \subseteq Days /\ path \subseteq Days /\ excused \subseteq Days
    /\ doomed \in [Removers -> 0..MaxDay]
PassOK ==
    /\ cyc \in {"idle", "runs", "skips", "ticks", "sessions", "keys", "shards",
                "copy", "verify", "record", "rotate", "stamp"}
    /\ who \in {"daemon", "cli"} /\ base \in 0..MaxDay /\ last \in 0..MaxDay
RestOK == day \in Days /\ faults \in 0..MaxFaults /\ dir \in Seq(BOOLEAN) /\ recorded \in BOOLEAN

(* Type correctness in four parts ...                                      *)
LEMMA TypeParts == TypeOK <=> RowsOK /\ LogsOK /\ PassOK /\ RestOK
  BY DEF TypeOK, RowsOK, LogsOK, PassOK, RestOK, RowType

(* ... before a step and after it.                                         *)
LEMMA TypePartsNext == TypeOK' <=> RowsOK' /\ LogsOK' /\ PassOK' /\ RestOK'
  BY DEF TypeOK, RowsOK, LogsOK, PassOK, RestOK, RowType

(* The daemon's own work.                                                  *)
Work ==
    \/ NextDay \/ StartRun \/ FireKey \/ StartSession
    \/ \E d \in Days : FinishRun(d) \/ CoalesceSkip(d)
    \/ \E t \in {"skips", "ticks"} : Evaluate(t)

(* The daemon's own work keeps the types.                                  *)
LEMMA WorkType ==
    ASSUME TypeOK, Work
    PROVE  TypeOK'
<1>0. /\ RowsOK /\ LogsOK /\ PassOK /\ RestOK
      /\ day \in Days /\ day \in 0..MaxDay /\ FALSE \in BOOLEAN /\ TRUE \in BOOLEAN
  BY TypeParts, RowEdits DEF RestOK
<1>1. CASE NextDay
  <2>1. day' \in Days
    BY <1>0, <1>1, BoundsAssumption DEF NextDay, Days
  <2>2. QED  BY <1>0, <1>1, <2>1, TypePartsNext DEF NextDay, rowVars, logVars, backupVars, passVars,
                RowsOK, LogsOK, PassOK, RestOK
<1>2. ASSUME NEW t \in {"runs", "skips", "ticks", "sessions"}, NEW c \in BOOLEAN, Bear(t, c)
      PROVE  rows' \in [Days -> RowType]
  <2>1. [t |-> t, closed |-> c, age |-> day, cited |-> FALSE] \in RowType
    BY RowEdits
  <2>2. rows' = [rows EXCEPT ![day] = [t |-> t, closed |-> c, age |-> day, cited |-> FALSE]]
    BY <1>2 DEF Bear
  <2>3. QED  BY <1>0, <2>1, <2>2 DEF RowsOK
<1>3. CASE StartRun
  <2>1. rows' \in [Days -> RowType]
    BY <1>0, <1>2, <1>3 DEF StartRun
  <2>2. QED  BY <1>0, <1>3, <2>1, TypePartsNext DEF StartRun, backupVars, passVars, RowsOK, LogsOK,
                PassOK, RestOK
<1>4. CASE FireKey
  <2>1. rows' \in [Days -> RowType]
    BY <1>0, <1>2, <1>4 DEF FireKey
  <2>2. QED  BY <1>0, <1>4, <2>1, TypePartsNext DEF FireKey, backupVars, passVars, RowsOK, LogsOK,
                PassOK, RestOK
<1>5. ASSUME NEW t \in {"skips", "ticks"}, Evaluate(t)
      PROVE  TypeOK'
  <2>1. rows' \in [Days -> RowType]
    BY <1>0, <1>2, <1>5 DEF Evaluate
  <2>2. QED  BY <1>0, <1>5, <2>1, TypePartsNext DEF Evaluate, logVars, backupVars, passVars, RowsOK,
                LogsOK, PassOK, RestOK
<1>6. ASSUME NEW d \in Days, FinishRun(d)
      PROVE  TypeOK'
  <2>1. rows' = [rows EXCEPT ![d] = [rows[d] EXCEPT !.closed = TRUE, !.age = day]]
    BY <1>0, <1>6 DEF FinishRun, RowsOK
  <2>2. rows' \in [Days -> RowType]
    BY <1>0, <2>1, RowEdits DEF RowsOK
  <2>3. QED  BY <1>0, <1>6, <2>2, TypePartsNext DEF FinishRun, backupVars, passVars, RowsOK,
                LogsOK, PassOK, RestOK
<1>7. ASSUME NEW d \in Days, CoalesceSkip(d)
      PROVE  TypeOK'
  <2>1. rows' = [rows EXCEPT ![d] = [rows[d] EXCEPT !.age = day]]
    BY <1>0, <1>7 DEF CoalesceSkip, RowsOK
  <2>2. rows' \in [Days -> RowType]
    BY <1>0, <2>1, RowEdits DEF RowsOK
  <2>3. QED  BY <1>0, <1>7, <2>2, TypePartsNext DEF CoalesceSkip, logVars, backupVars, passVars, RowsOK,
                LogsOK, PassOK, RestOK
<1>8. CASE StartSession
  <2>1. \A d \in Days : \E c \in BOOLEAN :
            rows'[d] \in {rows[d], [rows[d] EXCEPT !.closed = TRUE, !.cited = c],
                          [t |-> "sessions", closed |-> FALSE, age |-> day, cited |-> FALSE]}
    BY <1>8 DEF StartSession
  <2>2. \A d \in Days : rows'[d] \in RowType
    <3> SUFFICES ASSUME NEW d \in Days PROVE rows'[d] \in RowType
      OBVIOUS
    <3>1. rows[d] \in RowType
      BY <1>0 DEF RowsOK
    <3>2. QED  BY <2>1, <3>1, RowEdits
  <2>3. rows' = [d \in Days |-> rows'[d]]
    BY <1>8 DEF StartSession
  <2>4. rows' \in [Days -> RowType]
    BY <2>2, <2>3
  <2>5. QED  BY <1>0, <1>8, <2>4, TypePartsNext DEF StartSession, logVars, backupVars, passVars, RowsOK,
                LogsOK, PassOK, RestOK
<1>9. QED  BY <1>1, <1>3, <1>4, <1>5, <1>6, <1>7, <1>8 DEF Work

(* The backup's own steps: a new copy, its check, the note and rotation.   *)
LEMMA BackupStep ==
    ASSUME Inv, VacuumInto \/ VerifyCopy \/ RecordBackup \/ RotateGenerations
    PROVE  dir' \in Seq(BOOLEAN) /\ NewestCopy' /\ VerifiedBackupStays'
<1>0. /\ dir \in Seq(BOOLEAN) /\ Len(dir) \in Nat /\ DOMAIN dir = 1..Len(dir)
      /\ recorded => \E i \in DOMAIN dir : dir[i]
  <2>1. dir \in Seq(BOOLEAN) /\ (recorded => \E i \in DOMAIN dir : dir[i])
    BY DEF Inv, TypeOK, VerifiedBackupStays
  <2>2. QED  BY <2>1, LenProperties
<1>1. CASE VacuumInto
  <2>1. /\ dir' = Append(dir, FALSE) /\ cyc' = "verify" /\ recorded' = recorded
    BY <1>1 DEF VacuumInto
  <2>2. /\ dir' \in Seq(BOOLEAN) /\ Len(dir') = Len(dir) + 1 /\ dir' # <<>>
        /\ dir'[Len(dir')] = FALSE /\ \A i \in 1..Len(dir) : dir'[i] = dir[i]
    <3>1. \A e \in BOOLEAN :
             /\ Append(dir, e) \in Seq(BOOLEAN)
             /\ Append(dir, e) # <<>>
             /\ Len(Append(dir, e)) = Len(dir) + 1
             /\ \A i \in 1..Len(dir) : Append(dir, e)[i] = dir[i]
             /\ Append(dir, e)[Len(dir) + 1] = e
      BY <1>0, AppendProperties
    <3>2. FALSE \in BOOLEAN
      OBVIOUS
    <3>3. QED  BY <2>1, <3>1, <3>2
  <2>3. VerifiedBackupStays'
    <3>1. DOMAIN dir' = 1..Len(dir')
      BY <2>2, LenProperties
    <3>2. DOMAIN dir \subseteq DOMAIN dir'
      BY <1>0, <2>2, <3>1
    <3>3. QED  BY <1>0, <2>1, <2>2, <3>2 DEF VerifiedBackupStays
  <2>4. QED  BY <2>1, <2>2, <2>3 DEF NewestCopy
<1>2. CASE VerifyCopy
  <2>1. dir # <<>> /\ ~dir[Len(dir)] /\ recorded' = recorded
    BY <1>2 DEF VerifyCopy, Inv, NewestCopy
  <2>2. Len(dir) \in 1..Len(dir) /\ TRUE \in BOOLEAN
    BY <1>0, <2>1, EmptySeq
  <2>3. CASE cyc' = "record" /\ dir' = [dir EXCEPT ![Len(dir)] = TRUE]
    <3>1. /\ dir' \in Seq(BOOLEAN) /\ Len(dir') = Len(dir)
          /\ \A j \in 1..Len(dir) : dir'[j] = IF j = Len(dir) THEN TRUE ELSE dir[j]
      BY <1>0, <2>2, <2>3, ExceptSeq
    <3>2. dir'[Len(dir')] /\ Len(dir') \in DOMAIN dir' /\ dir' # <<>>
      BY <1>0, <2>2, <2>3, <3>1
    <3>3. QED  BY <2>3, <3>1, <3>2 DEF NewestCopy, VerifiedBackupStays
  <2>4. CASE cyc' = "stamp" /\ dir' = SubSeq(dir, 1, Len(dir) - 1)
    <3>1. dir' \in Seq(BOOLEAN) /\ Len(dir') = Len(dir) - 1 /\ \A i \in 1..Len(dir') : dir'[i] = dir[i]
      BY <1>0, <2>1, <2>4, WithoutLast
    <3>2. DOMAIN dir' = 1..Len(dir')
      BY <3>1, LenProperties
    <3>3. \A i \in DOMAIN dir : i # Len(dir) => i \in DOMAIN dir'
      BY <1>0, <3>1, <3>2
    <3>4. VerifiedBackupStays'
      BY <1>0, <2>1, <3>1, <3>2, <3>3 DEF VerifiedBackupStays
    <3>5. QED  BY <2>4, <3>1, <3>4 DEF NewestCopy
  <2>5. QED  BY <1>2, <2>3, <2>4 DEF VerifyCopy
<1>3. CASE RecordBackup
  <2>1. /\ dir # <<>> /\ dir[Len(dir)] /\ dir' = dir /\ cyc' = "rotate"
    BY <1>3 DEF RecordBackup, Inv, NewestCopy
  <2>2. Len(dir) \in DOMAIN dir
    BY <1>0, <2>1, EmptySeq
  <2>3. QED  BY <1>0, <2>1, <2>2 DEF NewestCopy, VerifiedBackupStays
<1>4. CASE RotateGenerations
  <2>1. /\ dir # <<>> /\ dir[Len(dir)] /\ cyc' = "stamp"
        /\ dir' = SubSeq(dir, Max({1, Len(dir) - BackupRetain + 1}), Len(dir))
    BY <1>4 DEF RotateGenerations, Inv, NewestCopy
  <2>2. /\ dir' \in Seq(BOOLEAN) /\ Len(dir') \in Nat \ {0} /\ dir'[Len(dir')] = dir[Len(dir)]
    BY <2>1, RotationKeepsNewest DEF Inv
  <2>3. Len(dir') \in DOMAIN dir'
    <3>1. DOMAIN dir' = 1..Len(dir')
      BY <2>2, LenProperties
    <3>2. QED  BY <2>2, <3>1
  <2>4. QED  BY <2>1, <2>2, <2>3 DEF NewestCopy, VerifiedBackupStays
<1>5. QED  BY <1>1, <1>2, <1>3, <1>4

(* The steps of a pass and of the guard.                                   *)
Pass ==
    \/ Cycle \/ Prune \/ PassStep \/ (\E by \in Removers : ClearPaths(by))
    \/ PruneOldestShards \/ RetentionFails \/ Crash

(* The oldest of a set of shards is one of them, and a day.                *)
LEMMA OldestShard ==
    ASSUME TypeOK, NEW T \in SUBSET shards, T # {}
    PROVE  Min(T) \in Days /\ Min(T) \in T
<1>1. shards \subseteq Days /\ Days \subseteq Nat
  BY DEF TypeOK, Days
<1>2. QED  BY <1>1, MinIsIn

(* Removing a shard.                                                       *)
LEMMA RemovalType ==
    ASSUME TypeOK, NEW by \in Removers, NEW s \in Days, RemoveShard(by, s)
    PROVE  LogsOK'
<1>1. LogsOK /\ s \in 0..MaxDay
  BY TypeParts, BoundsAssumption DEF Days
<1>2. QED  BY <1>1 DEF RemoveShard, LogsOK, Born

(* A removal that fails leaves the shard and excuses its paths.            *)
LEMMA FailureType ==
    ASSUME TypeOK, NEW s \in Days, RemovalFails(s)
    PROVE  LogsOK' /\ faults' \in 0..MaxFaults
<1>1. LogsOK /\ RestOK
  BY TypeParts
<1>2. QED  BY <1>1, BoundsAssumption DEF RemovalFails, LogsOK, RestOK

(* The pass, the operator's prune and the disk guard keep the types.       *)
LEMMA PassType ==
    ASSUME Inv, Pass
    PROVE  TypeOK'
<1>0. RowsOK /\ LogsOK /\ PassOK /\ RestOK /\ NoRow \in RowType /\ day \in 0..MaxDay
  BY TypeParts, RowEdits DEF Inv
<1>f. faults < MaxFaults /\ faults' = faults + 1 => faults' \in 0..MaxFaults
  BY <1>0, BoundsAssumption DEF RestOK
<1>1. CASE Cycle \/ Prune
  BY <1>0, <1>1, TypePartsNext DEF Cycle, Prune, Begin, rowVars, logVars, backupVars, RowsOK, LogsOK, PassOK, RestOK
<1>2. CASE Drain
  <2> DEFINE d == CHOOSE x \in Batch :
                     \A y \in Batch \ {x} : Newer(rows[y].age, y, rows[x].age, x)
  <2>1. rows' = rows \/ rows' = [rows EXCEPT ![d] = NoRow]
    BY <1>2 DEF Drain, rowVars
  <2>2. rows' \in [Days -> RowType]
    <3> HIDE DEF d
    <3>1. QED  BY <1>0, <2>1 DEF RowsOK
  <2>3. seen' = seen /\ fired' = fired
    BY <1>2 DEF Drain, rowVars
  <2>4. cyc' \in {cyc, "skips", "ticks", "sessions", "keys"}
    BY <1>2 DEF Drain, Following
  <2>5. path' \subseteq Days
    BY <1>0, <1>2 DEF Drain, LogsOK
  <2>6. UNCHANGED <<day, who, base, last, shards, excused, doomed, backupVars, faults>>
    BY <1>2 DEF Drain
  <2> HIDE DEF d
  <2>7. QED  BY <1>0, <2>2, <2>3, <2>4, <2>5, <2>6, TypePartsNext DEF backupVars, RowsOK, LogsOK, PassOK, RestOK
<1>3. CASE DrainKeys
  <2>1. seen' \in 0..MaxDay
    BY <1>0, <1>3, BoundsAssumption DEF DrainKeys, RowsOK
  <2>2. QED  BY <1>0, <1>3, <2>1, TypePartsNext DEF DrainKeys, logVars, backupVars, RowsOK, LogsOK, PassOK, RestOK
<1>4. CASE PruneLogShards
  <2>1. LogsOK' /\ faults' \in 0..MaxFaults
    <3>1. CASE UNCHANGED <<logVars, faults>>
      BY <1>0, <3>1 DEF logVars, LogsOK, RestOK
    <3>2. CASE StaleLogShards # {}
      <4>1. Min(StaleLogShards) \in Days
        BY <3>2, OldestShard DEF StaleLogShards, Inv
      <4>2. \/ RemoveShard("janitor", Min(StaleLogShards)) /\ faults' = faults
            \/ RemovalFails(Min(StaleLogShards))
        BY <1>4, <3>2 DEF PruneLogShards
      <4>3. "janitor" \in Removers
        BY DEF Removers
      <4>4. QED  BY <1>0, <4>1, <4>2, <4>3, RemovalType, FailureType DEF Inv, RestOK
    <3>3. QED  BY <1>4, <3>1, <3>2 DEF PruneLogShards
  <2>2. cyc' \in {cyc, "copy", "stamp"}
    BY <1>4 DEF PruneLogShards, AfterRetention
  <2>3. QED  BY <1>0, <1>4, <2>1, <2>2, TypePartsNext DEF PruneLogShards, rowVars, backupVars, RowsOK, PassOK, RestOK
<1>5. CASE PruneOldestShards
  <2>1. PICK s \in shards : (RemoveShard("guard", s) /\ faults' = faults) \/ RemovalFails(s)
    BY <1>5 DEF PruneOldestShards
  <2>2. s \in Days /\ "guard" \in Removers
    BY <1>0 DEF LogsOK, Removers
  <2>3. LogsOK' /\ faults' \in 0..MaxFaults
    BY <1>0, <2>1, <2>2, RemovalType, FailureType DEF Inv, RestOK
  <2>4. QED  BY <1>0, <1>5, <2>3, TypePartsNext DEF PruneOldestShards, rowVars, backupVars, passVars, RowsOK, PassOK, RestOK
<1>6. ASSUME NEW by \in Removers, ClearPaths(by)
      PROVE  TypeOK'
  <2>1. doomed[by] # 0 /\ doomed[by] \in Days
    BY <1>0, <1>6, BoundsAssumption DEF ClearPaths, LogsOK, Days
  <2>2. LogsOK'
    BY <1>0, <1>6, <2>1, BoundsAssumption DEF ClearPaths, LogsOK
  <2>3. faults' \in 0..MaxFaults
    BY <1>0, <1>6, <1>f DEF ClearPaths, RestOK
  <2>4. QED  BY <1>0, <1>6, <2>2, <2>3, TypePartsNext DEF ClearPaths, rowVars, backupVars, passVars, RowsOK, PassOK, RestOK
<1>7. CASE RetentionFails
  BY <1>0, <1>7, <1>f, BoundsAssumption, TypePartsNext DEF RetentionFails, Idle, rowVars, logVars, backupVars, RowsOK, LogsOK, PassOK, RestOK
<1>8. CASE VacuumInto \/ VerifyCopy \/ RecordBackup \/ RotateGenerations
  <2>1. dir' \in Seq(BOOLEAN)
    BY <1>8, BackupStep
  <2>2. faults' \in 0..MaxFaults /\ recorded' \in BOOLEAN /\ cyc' \in {"verify", "record", "stamp", "rotate"}
    BY <1>0, <1>8, <1>f DEF VacuumInto, VerifyCopy, RecordBackup, RotateGenerations, RestOK
  <2>3. UNCHANGED <<day, who, base, last, rowVars, logVars>>
    BY <1>8 DEF VacuumInto, VerifyCopy, RecordBackup, RotateGenerations
  <2>4. QED  BY <1>0, <2>1, <2>2, <2>3, TypePartsNext DEF rowVars, logVars, RowsOK, LogsOK, PassOK, RestOK
<1>9. CASE RecordGCCycle
  <2>1. last' \in 0..MaxDay /\ faults' \in 0..MaxFaults
    BY <1>0, <1>9, <1>f DEF RecordGCCycle, RestOK, PassOK
  <2>2. QED  BY <1>0, <1>9, <2>1, BoundsAssumption, TypePartsNext DEF RecordGCCycle, Idle, rowVars, logVars, backupVars, RowsOK, LogsOK, PassOK, RestOK
<1>10. CASE Crash
  <2>1. LogsOK'
    <3>1. {doomed[by] : by \in Removers} \ {0} \subseteq Days
      BY <1>0, BoundsAssumption DEF LogsOK, Days
    <3>2. QED  BY <1>0, <1>10, <3>1, BoundsAssumption DEF Crash, LogsOK
  <2>2. QED  BY <1>0, <1>10, <1>f, <2>1, BoundsAssumption, TypePartsNext DEF Crash, Idle, rowVars, backupVars, RowsOK, PassOK, RestOK
<1>11. QED  BY <1>1, <1>2, <1>3, <1>4, <1>5, <1>6, <1>7, <1>8, <1>9, <1>10 DEF Pass, PassStep

-----------------------------------------------------------------------------
(* The invariant, part by part.                                            *)

(* A step is the daemon's own work or maintenance.                         *)
LEMMA NextIsWorkOrPass == Next <=> Work \/ Pass
  BY DEF Next, Work, Pass

(* Every step keeps the types.                                             *)
LEMMA TypeStep ==
    ASSUME Inv, [Next]_vars
    PROVE  TypeOK'
<1>1. CASE UNCHANGED vars
  BY <1>1, TypeParts, TypePartsNext DEF Inv, vars, rowVars, logVars, backupVars, passVars,
     RowsOK, LogsOK, PassOK, RestOK
<1>2. QED  BY <1>1, WorkType, PassType, NextIsWorkOrPass DEF Inv

(* The key's row leaves only when every run it made is past the horizon,   *)
(* and only without it another run is made.                                *)
LEMMA KeyStep ==
    ASSUME Inv, [Next]_vars
    PROVE  KeysAreCovered' /\ NeverTwiceWithinHorizon'
<1>0. /\ day \in Nat \ {0} /\ seen \in Nat /\ base \in Nat /\ RunKeysDays \in Nat
      /\ fired \subseteq Nat \ {0}
      /\ base <= day /\ seen <= day
      /\ \A a \in fired : a <= day /\ (a <= seen \/ a < day - RunKeysDays)
      /\ \A a \in fired, b \in fired : a < b => b - a > RunKeysDays
  BY PolicyAssumption DEF Inv, TypeOK, KeysAreCovered, NeverTwiceWithinHorizon, Days
<1>1. CASE UNCHANGED <<day, seen, fired>> /\ base' \in {0, day, base}
  BY <1>0, <1>1 DEF KeysAreCovered, NeverTwiceWithinHorizon
<1>2. CASE NextDay
  <2>1. day' = day + 1 /\ UNCHANGED <<seen, fired, base>>
    BY <1>2 DEF NextDay, rowVars, passVars
  <2>2. QED  BY <1>0, <2>1 DEF KeysAreCovered, NeverTwiceWithinHorizon
<1>3. CASE FireKey
  <2>1. seen = 0 /\ seen' = day /\ day' = day /\ base' = base /\ fired' = fired \cup {day}
    BY <1>3 DEF FireKey, passVars
  <2>2. \A a \in fired : a < day - RunKeysDays
    BY <1>0, <2>1
  <2>3. KeysAreCovered'
    BY <1>0, <2>1 DEF KeysAreCovered
  <2>4. NeverTwiceWithinHorizon'
    BY <1>0, <2>1, <2>2 DEF NeverTwiceWithinHorizon
  <2>5. QED  BY <2>3, <2>4
<1>4. CASE DrainKeys
  <2>1. seen' = (IF PruneRunKeysBatch THEN 0 ELSE seen) /\ UNCHANGED <<day, fired, base>>
    BY <1>4 DEF DrainKeys
  <2>2. CASE PruneRunKeysBatch
    <3>1. \A a \in fired : a < day - RunKeysDays
      BY <1>0, <2>2 DEF PruneRunKeysBatch
    <3>2. QED  BY <1>0, <2>1, <2>2, <3>1 DEF KeysAreCovered, NeverTwiceWithinHorizon
  <2>3. CASE ~PruneRunKeysBatch
    BY <1>1, <2>1, <2>3
  <2>4. QED  BY <2>2, <2>3
<1>5. ASSUME Pass, ~DrainKeys
      PROVE  UNCHANGED <<day, seen, fired>> /\ base' \in {0, day, base}
  BY <1>5 DEF Pass, Cycle, Prune, Begin, PassStep, Drain, PruneLogShards, VacuumInto,
     VerifyCopy, RecordBackup, RotateGenerations, RecordGCCycle, ClearPaths, PruneOldestShards,
     RetentionFails, Crash, Idle, rowVars, passVars
<1>6. ASSUME Work, ~NextDay, ~FireKey
      PROVE  UNCHANGED <<day, seen, fired>> /\ base' \in {0, day, base}
  BY <1>6 DEF Work, StartRun, StartSession, FinishRun, CoalesceSkip, Evaluate, passVars
<1>7. CASE UNCHANGED vars
  BY <1>1, <1>7 DEF vars, rowVars, passVars
<1>8. QED  BY <1>1, <1>2, <1>3, <1>4, <1>5, <1>6, <1>7, NextIsWorkOrPass

(* A run that is open after a step was open before it, or opened its log   *)
(* file in this step; a shard goes only with its open runs excused.        *)
LEMMA OpenStep ==
    ASSUME Inv, [Next]_vars
    PROVE  OpenRunsHaveShards'
<1> DEFINE Open(d) == rows[d].t = "runs" /\ ~rows[d].closed
<1>0. /\ rows \in [Days -> RowType] /\ day \in Days
      /\ \A d \in Days : Open(d) => d \in shards \cup excused
      /\ NoRow.t = "none"
  BY RowEdits DEF Inv, TypeOK, OpenRunsHaveShards, NoRow
<1>1. ASSUME \A d \in Days : Open(d)' => Open(d), shards \cup excused \subseteq shards' \cup excused'
      PROVE  OpenRunsHaveShards'
  BY <1>0, <1>1 DEF OpenRunsHaveShards
<1>2. CASE StartRun \/ FireKey
  <2>1. /\ rows' = [rows EXCEPT ![day] = [t |-> "runs", closed |-> FALSE, age |-> day, cited |-> FALSE]]
        /\ shards' = shards \cup {day} /\ excused' = excused
    BY <1>2 DEF StartRun, FireKey, Bear
  <2>2. \A d \in Days : d # day => rows'[d] = rows[d]
    BY <1>0, <2>1
  <2>3. QED  BY <1>0, <2>1, <2>2 DEF OpenRunsHaveShards
<1>3. ASSUME NEW by \in Removers, NEW s, RemoveShard(by, s), UNCHANGED rows
      PROVE  OpenRunsHaveShards'
  <2>1. /\ shards' = shards \ {s}
        /\ excused' = excused \cup {d \in Born("runs") : d = s /\ ~rows[d].closed}
    BY <1>3 DEF RemoveShard
  <2>2. QED  BY <1>0, <1>3, <2>1 DEF OpenRunsHaveShards, Born
<1>4. CASE PruneLogShards \/ PruneOldestShards
  <2>1. CASE UNCHANGED <<rows, logVars>>
    BY <1>1, <2>1 DEF logVars
  <2>2. UNCHANGED rows /\ "janitor" \in Removers /\ "guard" \in Removers
    BY <1>4 DEF PruneLogShards, PruneOldestShards, rowVars, Removers
  <2>3. ASSUME NEW s, RemovalFails(s)
        PROVE  OpenRunsHaveShards'
    BY <1>1, <2>2, <2>3 DEF RemovalFails
  <2>4. QED  BY <1>3, <1>4, <2>1, <2>2, <2>3 DEF PruneLogShards, PruneOldestShards
<1>5. CASE Drain
  <2> DEFINE d == CHOOSE x \in Batch :
                     \A y \in Batch \ {x} : Newer(rows[y].age, y, rows[x].age, x)
  <2>1. (rows' = rows \/ rows' = [rows EXCEPT ![d] = NoRow]) /\ UNCHANGED <<shards, excused>>
    BY <1>5 DEF Drain, rowVars
  <2> HIDE DEF d
  <2>2. \A x \in Days : rows'[x] = rows[x] \/ rows'[x] = NoRow
    BY <1>0, <2>1
  <2>3. \A x \in Days : Open(x)' => Open(x)
    BY <1>0, <2>2
  <2>4. QED  BY <1>1, <2>1, <2>3
<1>6. ASSUME Pass, ~Drain, ~PruneLogShards, ~PruneOldestShards
      PROVE  rows' = rows /\ shards' = shards /\ excused \subseteq excused'
  BY <1>6 DEF Pass, Cycle, Prune, Begin, PassStep, DrainKeys, VacuumInto,
     VerifyCopy, RecordBackup, RotateGenerations, RecordGCCycle, ClearPaths,
     RetentionFails, Crash, rowVars, logVars
<1>7. ASSUME Work, ~StartRun, ~FireKey
      PROVE  /\ \A d \in Days : Open(d)' => Open(d)
             /\ shards' = shards /\ excused' = excused
  <2>1. CASE NextDay
    BY <2>1 DEF NextDay, rowVars, logVars
  <2>2. ASSUME NEW x \in Days, FinishRun(x) \/ CoalesceSkip(x)
        PROVE  /\ \A d \in Days : Open(d)' => Open(d)
               /\ shards' = shards /\ excused' = excused
    <3>1. CASE FinishRun(x)
      <4>1. rows' = [rows EXCEPT ![x] = [rows[x] EXCEPT !.closed = TRUE, !.age = day]]
        BY <1>0, <3>1 DEF FinishRun
      <4>2. [rows[x] EXCEPT !.closed = TRUE, !.age = day].closed = TRUE
        BY <1>0 DEF RowType
      <4>3. \A d \in Days : d # x => rows'[d] = rows[d]
        BY <1>0, <4>1
      <4>4. rows'[x].closed
        BY <1>0, <4>1, <4>2
      <4>5. QED  BY <3>1, <4>3, <4>4 DEF FinishRun
    <3>2. CASE CoalesceSkip(x)
      <4>1. rows' = [rows EXCEPT ![x] = [rows[x] EXCEPT !.age = day]] /\ rows[x].t = "skips"
        BY <1>0, <3>2 DEF CoalesceSkip
      <4>2. [rows[x] EXCEPT !.age = day].t = rows[x].t
        BY <1>0 DEF RowType
      <4>3. \A d \in Days : d # x => rows'[d] = rows[d]
        BY <1>0, <4>1
      <4>4. rows'[x].t = "skips"
        BY <1>0, <4>1, <4>2
      <4>5. QED  BY <3>2, <4>3, <4>4 DEF CoalesceSkip, logVars
    <3>3. QED  BY <2>2, <3>1, <3>2
  <2>3. ASSUME NEW t \in {"skips", "ticks"}, Evaluate(t)
        PROVE  /\ \A d \in Days : Open(d)' => Open(d)
               /\ shards' = shards /\ excused' = excused
    <3>1. rows' = [rows EXCEPT ![day] = [t |-> t, closed |-> TRUE, age |-> day, cited |-> FALSE]]
      BY <2>3 DEF Evaluate, Bear
    <3>2. \A d \in Days : d # day => rows'[d] = rows[d]
      BY <1>0, <3>1
    <3>3. rows'[day].closed
      BY <1>0, <3>1
    <3>4. QED  BY <2>3, <3>2, <3>3 DEF Evaluate, logVars
  <2>4. CASE StartSession
    <3>1. \A d \in Days : rows'[d] = rows[d] \/ rows'[d].t = "sessions"
      <4> SUFFICES ASSUME NEW d \in Days
                   PROVE  rows'[d] = rows[d] \/ rows'[d].t = "sessions"
        OBVIOUS
      <4>1. \E c \in BOOLEAN :
               rows'[d] = IF d = day
                          THEN [t |-> "sessions", closed |-> FALSE, age |-> day, cited |-> FALSE]
                          ELSE IF d \in Born("sessions") /\ ~rows[d].closed
                          THEN [rows[d] EXCEPT !.closed = TRUE, !.cited = c]
                          ELSE rows[d]
        BY <2>4 DEF StartSession
      <4>2. \A c \in BOOLEAN : [rows[d] EXCEPT !.closed = TRUE, !.cited = c].t = rows[d].t
        BY <1>0 DEF RowType
      <4>3. QED  BY <4>1, <4>2 DEF Born
    <3>2. QED  BY <2>4, <3>1 DEF StartSession, logVars
  <2>5. QED  BY <1>7, <2>1, <2>2, <2>3, <2>4 DEF Work
<1>8. CASE UNCHANGED vars
  BY <1>1, <1>8 DEF vars, rowVars, logVars
<1>9. QED  BY <1>1, <1>2, <1>4, <1>5, <1>6, <1>7, <1>8, NextIsWorkOrPass

(* A path is added only for a run that was open, and while a removed shard *)
(* has not been cleared its remover stands for it.                         *)
LEMMA PathStep ==
    ASSUME Inv, [Next]_vars
    PROVE  LogPathNamesAFile'
<1>0. /\ path \subseteq Days /\ 0 \notin Days
      /\ doomed \in [Removers -> 0..MaxDay]
      /\ \A d \in path : d \in shards \/ (\E by \in Removers : doomed[by] = d) \/ d \in excused
  BY DEF Inv, TypeOK, LogPathNamesAFile, Days
<1>1. ASSUME path' \subseteq path, shards \subseteq shards', excused \subseteq excused', doomed' = doomed
      PROVE  LogPathNamesAFile'
  BY <1>0, <1>1 DEF LogPathNamesAFile
<1>2. ASSUME NEW d \in Days, FinishRun(d)
      PROVE  LogPathNamesAFile'
  <2>1. /\ path' = path \cup {d} /\ UNCHANGED <<shards, excused, doomed>>
        /\ rows[d].t = "runs" /\ ~rows[d].closed
    BY <1>2 DEF FinishRun
  <2>2. d \in shards \cup excused
    BY <2>1 DEF Inv, OpenRunsHaveShards
  <2>3. QED  BY <1>0, <2>1, <2>2 DEF LogPathNamesAFile
<1>3. ASSUME NEW by \in Removers, NEW s, RemoveShard(by, s), doomed[by] = 0
      PROVE  LogPathNamesAFile'
  <2>1. /\ shards' = shards \ {s} /\ doomed' = [doomed EXCEPT ![by] = s] /\ path' = path
        /\ excused \subseteq excused'
    BY <1>3 DEF RemoveShard
  <2>2. doomed'[by] = s /\ \A x \in Removers : doomed[x] # 0 => doomed'[x] = doomed[x]
    BY <1>0, <1>3, <2>1
  <2>3. QED  BY <1>0, <2>1, <2>2 DEF LogPathNamesAFile
<1>4. CASE PruneLogShards \/ PruneOldestShards
  <2>1. CASE UNCHANGED logVars
    BY <1>1, <2>1 DEF logVars
  <2>2. "janitor" \in Removers /\ "guard" \in Removers
    BY DEF Removers
  <2>3. ASSUME NEW s, RemovalFails(s)
        PROVE  LogPathNamesAFile'
    BY <1>1, <2>3 DEF RemovalFails
  <2>4. QED  BY <1>3, <1>4, <2>1, <2>2, <2>3 DEF PruneLogShards, PruneOldestShards
<1>5. ASSUME NEW by \in Removers, ClearPaths(by)
      PROVE  LogPathNamesAFile'
  <2>1. /\ doomed' = [doomed EXCEPT ![by] = 0] /\ shards' = shards
        /\ \/ path' = path \ {doomed[by]} /\ excused' = excused
           \/ path' = path /\ excused' = excused \cup {doomed[by]}
    BY <1>5 DEF ClearPaths
  <2>2. \A x \in Removers : x # by => doomed'[x] = doomed[x]
    BY <1>0, <2>1
  <2>3. QED  BY <1>0, <2>1, <2>2 DEF LogPathNamesAFile
<1>6. CASE Crash
  <2>1. /\ excused' = excused \cup ({doomed[by] : by \in Removers} \ {0})
        /\ shards' = shards /\ path' = path
    BY <1>6 DEF Crash
  <2>2. QED  BY <1>0, <2>1 DEF LogPathNamesAFile
<1>7. CASE Drain
  <2>1. path' \subseteq path /\ UNCHANGED <<shards, excused, doomed>>
    BY <1>7 DEF Drain
  <2>2. QED  BY <1>1, <2>1
<1>8. ASSUME Pass, ~Drain, ~PruneLogShards, ~PruneOldestShards, ~Crash,
             ~(\E by \in Removers : ClearPaths(by))
      PROVE  UNCHANGED <<path, shards, excused, doomed>>
  BY <1>8 DEF Pass, Cycle, Prune, Begin, PassStep, DrainKeys, VacuumInto,
     VerifyCopy, RecordBackup, RotateGenerations, RecordGCCycle, RetentionFails, logVars
<1>9. ASSUME Work, ~(\E d \in Days : FinishRun(d))
      PROVE  UNCHANGED <<path, excused, doomed>> /\ shards \subseteq shards'
  BY <1>9 DEF Work, NextDay, StartRun, FireKey, StartSession, CoalesceSkip, Evaluate, logVars
<1>10. CASE UNCHANGED vars
  BY <1>1, <1>10 DEF vars, logVars
<1>11. QED  BY <1>1, <1>2, <1>4, <1>5, <1>6, <1>7, <1>8, <1>9, <1>10, NextIsWorkOrPass

(* Nothing but the backup's own steps touches a generation.                *)
LEMMA GenerationsStep ==
    ASSUME Inv, [Next]_vars
    PROVE  NewestCopy' /\ VerifiedBackupStays'
<1>1. ASSUME UNCHANGED backupVars, cyc' \in {cyc, "idle", "runs", "skips", "ticks", "sessions",
                                             "keys", "shards", "copy", "stamp"}
      PROVE  NewestCopy' /\ VerifiedBackupStays'
  BY <1>1 DEF backupVars, Inv, NewestCopy, VerifiedBackupStays
<1>2. ASSUME Work
      PROVE  UNCHANGED backupVars /\ cyc' = cyc
  BY <1>2 DEF Work, NextDay, StartRun, FireKey, StartSession, FinishRun, CoalesceSkip, Evaluate, passVars
<1>3. CASE VacuumInto \/ VerifyCopy \/ RecordBackup \/ RotateGenerations
  BY <1>3, BackupStep
<1>4. ASSUME Pass, ~(VacuumInto \/ VerifyCopy \/ RecordBackup \/ RotateGenerations)
      PROVE  /\ UNCHANGED backupVars
             /\ cyc' \in {cyc, "idle", "runs", "skips", "ticks", "sessions",
                          "keys", "shards", "copy", "stamp"}
  BY <1>4 DEF Pass, Cycle, Prune, Begin, PassStep, Drain, Following, DrainKeys, PruneLogShards, AfterRetention,
     RecordGCCycle, ClearPaths, PruneOldestShards, RetentionFails, Crash, Idle, passVars
<1>5. CASE UNCHANGED vars
  BY <1>1, <1>5 DEF vars, passVars
<1>6. QED  BY <1>1, <1>2, <1>3, <1>4, <1>5, NextIsWorkOrPass

(* The first day: no rows, no shards, no copies.                           *)
LEMMA InitInv == Init => Inv
<1> SUFFICES ASSUME Init
             PROVE  Inv
  OBVIOUS
<1>1. TypeOK
  <2>1. RowsOK
    <3>1. NoRow \in RowType
      BY BoundsAssumption DEF NoRow, RowType
    <3>2. QED  BY <3>1, BoundsAssumption DEF Init, RowsOK
  <2>2. LogsOK /\ PassOK
    BY BoundsAssumption DEF Init, LogsOK, PassOK
  <2>3. RestOK
    <3>1. <<>> \in Seq(BOOLEAN) /\ FALSE \in BOOLEAN
      BY EmptySeq
    <3>2. 1 \in Days /\ 0 \in 0..MaxFaults
      BY BoundsAssumption DEF Days
    <3>3. QED  BY <3>1, <3>2 DEF Init, RestOK
  <2>4. QED  BY <2>1, <2>2, <2>3, TypeParts
<1>2. KeysAreCovered /\ NeverTwiceWithinHorizon
  BY DEF Init, KeysAreCovered, NeverTwiceWithinHorizon
<1>3. OpenRunsHaveShards /\ LogPathNamesAFile
  BY DEF Init, OpenRunsHaveShards, LogPathNamesAFile, NoRow
<1>4. NewestCopy /\ VerifiedBackupStays
  BY DEF Init, NewestCopy, VerifiedBackupStays
<1>5. QED  BY <1>1, <1>2, <1>3, <1>4 DEF Inv

-----------------------------------------------------------------------------
(* The theorems.                                                           *)

(* The inductive invariant of the nightly pass, the guard and the daemon's *)
(* own work between two batches.                                           *)
THEOREM UpkeepInvariant == Spec => []Inv
<1>1. Init => Inv
  BY InitInv
<1>2. Inv /\ [Next]_vars => Inv'
  BY TypeStep, KeyStep, OpenStep, PathStep, GenerationsStep DEF Inv
<1>3. QED  BY <1>1, <1>2, PTL DEF Spec

(* Two runs of one dedup key are more than the key horizon apart: the key  *)
(* is aged by its own cutoff (retention.go), never with the runs it made.  *)
THEOREM KeysOutliveTheirHorizon == Spec => []NeverTwiceWithinHorizon
<1>1. Inv => NeverTwiceWithinHorizon
  BY DEF Inv
<1>2. QED  BY <1>1, UpkeepInvariant, PTL

(* A step's log_path names a file that is there, whichever remover took a  *)
(* shard, but for the three cases the code cannot keep honest.             *)
THEOREM LogPathsAreHonest == Spec => []LogPathNamesAFile
<1>1. Inv => LogPathNamesAFile
  BY DEF Inv
<1>2. QED  BY <1>1, UpkeepInvariant, PTL

(* Once a verified backup is recorded, rotation, bad copies and crashes    *)
(* leave a verified one on disk.                                           *)
THEOREM VerifiedBackupIsKept == Spec => []VerifiedBackupStays
<1>1. Inv => VerifiedBackupStays
  BY DEF Inv
<1>2. QED  BY <1>1, UpkeepInvariant, PTL

(* Rows, shards, copies and the place of a pass stay in their domains.     *)
THEOREM UpkeepTypes == Spec => []TypeOK
<1>1. Inv => TypeOK
  BY DEF Inv
<1>2. QED  BY <1>1, UpkeepInvariant, PTL
=============================================================================
