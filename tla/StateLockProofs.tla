------------------------- MODULE StateLockProofs -------------------------
(* What is proved of the three programs that take the lock of the state     *)
(* directory: the daemon (Serve), the crontab cutover (Cutover) and apply   *)
(* (Apply).  Each has an inductive invariant; the laws of functions that    *)
(* walk a sequence, on which the proofs of the last two rest, come first.   *)
EXTENDS Serve, Cutover, Apply, SequenceTheorems, WellFoundedInduction, TLAPS

-----------------------------------------------------------------------------
(* Walks along a sequence                                                  *)

(* A set of naturals has a least element.                                  *)
LEMMA LeastNatural ==
    ASSUME NEW T \in SUBSET Nat, T # {}
    PROVE  \E m \in T : \A x \in T : m <= x
<1>1. PICK m \in T : \A x \in T : ~(<<x, m>> \in OpToRel(<, Nat))
  BY NatLessThanWellFounded, WFMin
<1>2. \A x \in T : ~(x < m)
  BY <1>1 DEF OpToRel
<1>3. QED  BY <1>2

(* A set that holds 0 and with a number the next holds all up to n.        *)
LEMMA AllUpTo ==
    ASSUME NEW n \in Nat, NEW T, 0 \in T, \A i \in 0..n : i \in T /\ i < n => i + 1 \in T
    PROVE  0..n \subseteq T
<1> DEFINE M == {i \in 0..n : i \notin T}
<1> SUFFICES ASSUME M # {} PROVE FALSE
  OBVIOUS
<1>1. PICK m \in M : \A x \in M : m <= x
  <2>1. M \in SUBSET Nat
    OBVIOUS
  <2> HIDE DEF M
  <2>2. QED  BY <2>1, LeastNatural
<1>2. m # 0 /\ m - 1 \in 0..n /\ m - 1 \notin M
  BY <1>1
<1>3. QED  BY <1>2

(* A set that holds the empty sequence and with a sequence every one that  *)
(* is longer by one element holds all sequences.                           *)
LEMMA AllSequences ==
    ASSUME NEW L, NEW T, <<>> \in T, \A s \in Seq(L), x \in L : s \in T => Append(s, x) \in T
    PROVE  Seq(L) \subseteq T
<1> SUFFICES ASSUME NEW c \in Seq(L) PROVE c \in T
  OBVIOUS
<1> DEFINE n == Len(c)
           U == {k \in 0..n : SubSeq(c, 1, k) \in T}
<1>1. n \in Nat
  OBVIOUS
<1>2. 0 \in U
  <2>1. SubSeq(c, 1, 0) = <<>> /\ 0 \in 0..n
    BY <1>1
  <2>2. QED  BY <2>1
<1>3. ASSUME NEW i \in 0..n, i \in U, i < n
      PROVE  i + 1 \in U
  <2>1. SubSeq(c, 1, i) \in Seq(L) /\ c[i + 1] \in L
    BY <1>3
  <2>2. SubSeq(c, 1, i + 1) = Append(SubSeq(c, 1, i), c[i + 1])
    BY <1>3
  <2>3. Append(SubSeq(c, 1, i), c[i + 1]) \in T
    BY <2>1, <1>3
  <2>4. i + 1 \in 0..n
    BY <1>1, <1>3
  <2>5. QED  BY <2>2, <2>3, <2>4
<1>4. n \in U
  <2> HIDE DEF U, n
  <2>1. 0..n \subseteq U
    BY <1>1, <1>2, <1>3, AllUpTo
  <2>2. QED  BY <2>1, <1>1
<1>5. SubSeq(c, 1, n) = c
  OBVIOUS
<1>6. QED  BY <1>4, <1>5

(* A walk over a sequence: one step after another from a start.            *)
StepFunction(G, Y, L) == G \in [Y -> [L -> Y]]

Steps(g, Y, b, G, s) ==
    g \in [0..Len(s) -> Y] /\ g[0] = b /\ \A k \in 1..Len(s) : g[k] = G[g[k - 1]][s[k]]

Follows(h, Y, b, G, s) ==
    h[0] = b /\ \A k \in 1..Len(s) : h[k - 1] \in Y => h[k] = G[h[k - 1]][s[k]]

(* The steps can be taken ...                                              *)
LEMMA StepsExist ==
    ASSUME NEW L, NEW Y, NEW b \in Y, NEW G, StepFunction(G, Y, L), NEW s \in Seq(L)
    PROVE  \E g : Steps(g, Y, b, G, s)
<1> DEFINE n == Len(s)
           Some(g, m) == g[0] = b /\ \A k \in 1..m : g[k] = G[g[k - 1]][s[k]]
           T == {m \in 0..n : \E g \in [0..m -> Y] : Some(g, m)}
<1>0. n \in Nat /\ \A k \in 1..n : s[k] \in L
  OBVIOUS
<1> HIDE DEF n
<1>1. 0 \in T
  <2> DEFINE h == [i \in 0..0 |-> b]
  <2>1. h \in [0..0 -> Y] /\ Some(h, 0)
    OBVIOUS
  <2>2. \E g \in [0..0 -> Y] : Some(g, 0)
    <3> HIDE DEF h, Some
    <3>1. QED  BY <2>1
  <2>3. QED  BY <2>2, <1>0
<1>2. ASSUME NEW i \in 0..n, i \in T, i < n
      PROVE  i + 1 \in T
  <2>1. PICK g \in [0..i -> Y] : Some(g, i)
    BY <1>2
  <2> DEFINE next == G[g[i]][s[i + 1]]
             h == [k \in 0..(i + 1) |-> IF k = i + 1 THEN next ELSE g[k]]
  <2>2. next \in Y /\ i \in Nat
    BY <1>2, <1>0 DEF StepFunction
  <2>3. Some(h, i + 1)
    <3>1. h[0] = b
      BY <2>1, <2>2
    <3>2. ASSUME NEW k \in 1..(i + 1)
          PROVE  h[k] = G[h[k - 1]][s[k]]
      <4>1. h[k - 1] = g[k - 1] /\ k \in 0..(i + 1)
        BY <2>2
      <4>2. CASE k = i + 1
        <5>1. h[k] = next /\ k - 1 = i
          BY <4>1, <4>2
        <5> HIDE DEF h
        <5>2. QED  BY <4>1, <4>2, <5>1
      <4>3. CASE k # i + 1
        <5>1. k \in 1..i
          BY <2>2, <4>3
        <5>2. QED  BY <2>1, <4>1, <4>3, <5>1
      <4>4. QED  BY <4>2, <4>3
    <3>3. QED  BY <3>1, <3>2
  <2>4. h \in [0..(i + 1) -> Y]
    <3> HIDE DEF next
    <3>1. QED  BY <2>2
  <2>5. \E f \in [0..(i + 1) -> Y] : Some(f, i + 1)
    <3> HIDE DEF h, Some
    <3>1. QED  BY <2>3, <2>4
  <2>6. i + 1 \in 0..n
    BY <1>2, <1>0
  <2>7. QED
    <3> HIDE DEF Some
    <3>1. QED  BY <2>5, <2>6
<1>3. n \in T
  <2> HIDE DEF T
  <2>1. 0..n \subseteq T
    BY <1>0, <1>1, <1>2, AllUpTo
  <2>2. QED  BY <2>1, <1>0
<1>4. QED  BY <1>3 DEF Steps, n

(* ... in one way only.                                                    *)
LEMMA StepsAgree ==
    ASSUME NEW Y, NEW b, NEW G, NEW s, Len(s) \in Nat,
           NEW g, NEW h, Steps(g, Y, b, G, s), Follows(h, Y, b, G, s)
    PROVE  h[Len(s)] = g[Len(s)]
<1> DEFINE n == Len(s)
           T == {k \in 0..n : h[k] = g[k]}
<1>1. 0 \in T
  BY DEF Steps, Follows
<1>2. ASSUME NEW i \in 0..n, i \in T, i < n
      PROVE  i + 1 \in T
  <2>1. i + 1 \in 1..n /\ i \in 0..n /\ (i + 1) - 1 = i
    BY <1>2
  <2>2. h[i] \in Y
    BY <1>2, <2>1 DEF Steps
  <2>3. h[i + 1] = G[h[i]][s[i + 1]]
    BY <2>1, <2>2 DEF Follows
  <2>4. g[i + 1] = G[g[i]][s[i + 1]]
    BY <2>1 DEF Steps
  <2>5. h[i + 1] = g[i + 1]
    BY <1>2, <2>3, <2>4
  <2>6. QED  BY <2>5, <1>2
<1>3. 0..n \subseteq T
  <2> HIDE DEF T
  <2>1. QED  BY <1>1, <1>2, AllUpTo
<1>4. QED  BY <1>3

(* What a function defined from the element before returns at the end is a *)
(* function of the sequence, element by element.                           *)
IsWalk(W, Y, b, G, L) ==
    /\ W \in [Seq(L) -> Y]
    /\ W[<<>>] = b
    /\ \A s \in Seq(L), x \in L : W[Append(s, x)] = G[W[s]][x]
    /\ \A s \in Seq(L) : \E g : Steps(g, Y, b, G, s) /\ W[s] = g[Len(s)]

(* Such a function exists: it chooses the one way there is.                *)
LEMMA Walk ==
    ASSUME NEW L, NEW Y, NEW b \in Y, NEW G, StepFunction(G, Y, L)
    PROVE  \E W : IsWalk(W, Y, b, G, L)
<1> DEFINE Way(s) == CHOOSE g : Steps(g, Y, b, G, s)
           W == [s \in Seq(L) |-> Way(s)[Len(s)]]
<1>1. \A s \in Seq(L) : Steps(Way(s), Y, b, G, s)
  BY StepsExist
<1> HIDE DEF Way
<1>2. W \in [Seq(L) -> Y]
  <2>1. \A s \in Seq(L) : Way(s)[Len(s)] \in Y
    <3>1. \A s \in Seq(L) : Len(s) \in 0..Len(s)
      OBVIOUS
    <3>2. QED  BY <1>1, <3>1 DEF Steps
  <2>2. QED  BY <2>1
<1>3. W[<<>>] = b
  <2>1. <<>> \in Seq(L) /\ Len(<<>>) = 0
    OBVIOUS
  <2>2. QED  BY <1>1, <2>1 DEF Steps
<1>4. ASSUME NEW s \in Seq(L), NEW x \in L
      PROVE  W[Append(s, x)] = G[W[s]][x]
  <2> DEFINE t == Append(s, x)
             g == Way(s)
             h == Way(t)
             n == Len(s)
  <2>1. t \in Seq(L) /\ Len(t) = n + 1 /\ n \in Nat /\ t[n + 1] = x /\ \A k \in 1..n : t[k] = s[k]
    OBVIOUS
  <2>2. Steps(g, Y, b, G, s) /\ Steps(h, Y, b, G, t)
    BY <1>1, <2>1
  <2>3. W[s] = g[n] /\ W[t] = h[n + 1]
    BY <2>1
  <2> HIDE DEF t, g, h, W
  <2>4. h[0] = b /\ (\A k \in 1..n : h[k] = G[h[k - 1]][s[k]]) /\ h[n + 1] = G[h[n]][x]
    BY <2>1, <2>2 DEF Steps
  <2>5. h[n] = g[n]
    <3>1. Follows(h, Y, b, G, s)
      BY <2>4 DEF Follows
    <3>2. QED  BY <3>1, <2>1, <2>2, StepsAgree
  <2>6. QED  BY <2>3, <2>4, <2>5 DEF t
<1>5. \A s \in Seq(L) : \E g : Steps(g, Y, b, G, s) /\ W[s] = g[Len(s)]
  BY <1>1
<1> HIDE DEF W
<1>6. QED  BY <1>2, <1>3, <1>4, <1>5 DEF IsWalk

(* A function that takes the steps ends where the walk ends.               *)
LEMMA WalkEnds ==
    ASSUME NEW L, NEW Y, NEW b, NEW G, NEW W, IsWalk(W, Y, b, G, L),
           NEW s \in Seq(L), NEW h, Follows(h, Y, b, G, s)
    PROVE  h[Len(s)] = W[s]
<1>1. PICK g : Steps(g, Y, b, G, s) /\ W[s] = g[Len(s)]
  BY DEF IsWalk
<1>2. Len(s) \in Nat
  OBVIOUS
<1>3. QED  BY <1>1, <1>2, StepsAgree

-----------------------------------------------------------------------------
(* Serve: one daemon, its sessions and its executor pool                   *)

Offline == {"down", "opening", "session"}
Taking  == {"session", "serving", "intake", "census"}
Ending  == {"draining", "closing", "quiet", "exiting"}

(* Every process group belongs to a session there was.                     *)
ServeTypes ==
    /\ sessions \in Seq({"open", "clean", "crash"})
    /\ procs \subseteq Runs \X (1..Me)
    /\ exec \in [Runs -> {"idle", "fresh", "claimed", "running", "ending"}]
    /\ phase \in Offline \cup Taking \cup Ending

(* Outside service nobody hands runs over or drives one; the executors are *)
(* told when the census is taken, and give a run up only then.             *)
PoolFollowsPhase ==
    /\ phase \in Offline => hand = {} /\ loops = {} /\ \A r \in Runs : exec[r] = "idle"
    /\ told <=> phase \in Ending
    /\ \A r \in Runs : exec[r] = "ending" => told

(* The session row of a daemon with a store is open.                       *)
SessionIsOpen ==
    phase \in (Taking \cup Ending) \ {"exiting"} => Me > 0 /\ sessions[Me] = "open"

(* Until the executors are told, a process of this daemon is driven; from  *)
(* the census on, a drive the census missed was handed over late.          *)
ProcessesAreDriven ==
    /\ phase \in Taking => \A p \in procs : p[2] = Me => exec[p[1]] = "running"
    /\ phase = "census" => \A r \in Book : r \in owed \/ Own(r) \in late

(* What is left of this daemon's processes as the stop goes on.            *)
StopKnowsTheRest ==
    /\ phase = "draining" => \A p \in procs : p[2] = Me => p[1] \in owed \/ p \in late
    /\ phase \in {"closing", "quiet"} => \A p \in procs : p[2] = Me => p \in survived \/ p \in late

ServeInv ==
    /\ ServeTypes /\ PoolFollowsPhase /\ SessionIsOpen /\ ProcessesAreDriven
    /\ StopKnowsTheRest /\ CleanMeansQuiet

-----------------------------------------------------------------------------
(* Who moves what.                                                         *)

(* Session rows are written at a start and at a clean close.               *)
LEMMA SessionsMove ==
    ASSUME [Next]_vars
    PROVE  UNCHANGED sessions \/ StartSession \/ CloseStore
  BY DEF Next, Startup, OpenState, LockMigrations, ApplyOne, UnlockMigrations, Reconcile, Die, HardStop,
     LoopStep, LoopReturns, LeaderReturns, Acquire, Reap, ReadQueue, Submit, LoopFails, BodyFails,
     SweepProcesses, Expiry, RoleExpires, MigratorLockExpires, LeaseExpires, ExecStep, Claim, Spawn,
     Finish, CutShort, HandBack, StopStep, BeginStop, TakeCensus, StopExec, ReapRunGroups, StopApi,
     Return, Command, CallRetry, HandleRetry, Answer, AnswerLost, AskForDaemon, OpenDirect, WriteDirect,
     vars, daemonVars

(* Processes are born of an executor, and end in many ways.                *)
LEMMA ProcsMove ==
    ASSUME [Next]_vars
    PROVE  procs' \subseteq procs \/ \E r \in Runs : Spawn(r)
  BY DEF Next, Startup, OpenState, LockMigrations, ApplyOne, UnlockMigrations, StartSession, Reconcile,
     Die, HardStop, LoopStep, LoopReturns, LeaderReturns, Acquire, Reap, ReadQueue, Submit, LoopFails,
     BodyFails, SweepProcesses, Expiry, RoleExpires, MigratorLockExpires, LeaseExpires, ExecStep, Claim,
     Finish, CutShort, HandBack, StopStep, BeginStop, TakeCensus, StopExec, ReapRunGroups, StopApi,
     CloseStore, Return, Command, CallRetry, HandleRetry, Answer, AnswerLost, AskForDaemon, OpenDirect,
     WriteDirect, vars, runVars

(* The book changes run by run, or goes with the process.                  *)
LEMMA ExecMoves ==
    ASSUME [Next]_vars
    PROVE  \/ UNCHANGED exec \/ Die \/ HardStop \/ Return
           \/ \E r \in Runs : Submit(r) \/ ExecStep(r)
  BY DEF Next, Startup, OpenState, LockMigrations, ApplyOne, UnlockMigrations, StartSession, Reconcile,
     LoopStep, LoopReturns, LeaderReturns, Acquire, Reap, ReadQueue, LoopFails,
     BodyFails, SweepProcesses, Expiry, RoleExpires, MigratorLockExpires, LeaseExpires,
     StopStep, BeginStop, TakeCensus, StopExec, ReapRunGroups, StopApi,
     CloseStore, Command, CallRetry, HandleRetry, Answer, AnswerLost, AskForDaemon, OpenDirect,
     WriteDirect, vars, poolVars

(* The phases in their order.                                              *)
LEMMA PhaseMoves ==
    ASSUME [Next]_vars
    PROVE  \/ UNCHANGED phase
           \/ OpenState \/ StartSession \/ Reconcile \/ BeginStop \/ TakeCensus \/ StopExec
           \/ ReapRunGroups \/ StopApi \/ CloseStore \/ Die \/ HardStop \/ Return
  BY DEF Next, Startup, LockMigrations, ApplyOne, UnlockMigrations,
     LoopStep, LoopReturns, LeaderReturns, Acquire, Reap, ReadQueue, Submit, LoopFails,
     BodyFails, SweepProcesses, Expiry, RoleExpires, MigratorLockExpires, LeaseExpires, ExecStep, Claim,
     Spawn, Finish, CutShort, HandBack, StopStep, Command, CallRetry, HandleRetry, Answer, AnswerLost,
     AskForDaemon, OpenDirect, WriteDirect, vars, daemonVars

(* The census is noted once; a late hand-over is noted and stays noted.    *)
LEMMA NotesMove ==
    ASSUME [Next]_vars
    PROVE  /\ late \subseteq late'
           /\ UNCHANGED owed \/ TakeCensus \/ phase' = "down"
           /\ UNCHANGED survived \/ ReapRunGroups \/ phase' = "down"
<1>1. CASE Die \/ HardStop \/ Return
  BY <1>1 DEF Die, HardStop, Return, ProcessGone
<1>2. CASE \E r \in Runs : Submit(r)
  BY <1>2 DEF Submit
<1>3. CASE ~(Die \/ HardStop \/ Return) /\ ~\E r \in Runs : Submit(r)
  BY <1>3 DEF Next, Startup, OpenState, LockMigrations, ApplyOne, UnlockMigrations, StartSession, Reconcile,
     LoopStep, LoopReturns, LeaderReturns, Acquire, Reap, ReadQueue, LoopFails, BodyFails,
     SweepProcesses, Expiry, RoleExpires, MigratorLockExpires, LeaseExpires, ExecStep, Claim, Spawn,
     Finish, CutShort, HandBack, StopStep, BeginStop, TakeCensus, StopExec, ReapRunGroups, StopApi,
     CloseStore, Command, CallRetry, HandleRetry, Answer, AnswerLost, AskForDaemon, OpenDirect,
     WriteDirect, vars, stopVars
<1>4. QED  BY <1>1, <1>2, <1>3

(* The executors are told once, and forgotten with the process.            *)
LEMMA ToldMoves ==
    ASSUME [Next]_vars
    PROVE  UNCHANGED told \/ StopExec \/ (phase' = "down" /\ ~told')
<1>1. CASE Die \/ HardStop \/ Return
  BY <1>1 DEF Die, HardStop, Return, ProcessGone
<1>2. CASE ~(Die \/ HardStop \/ Return)
  BY <1>2 DEF Next, Startup, OpenState, LockMigrations, ApplyOne, UnlockMigrations, StartSession, Reconcile,
     LoopStep, LoopReturns, LeaderReturns, Acquire, Reap, ReadQueue, Submit, LoopFails, BodyFails,
     SweepProcesses, Expiry, RoleExpires, MigratorLockExpires, LeaseExpires, ExecStep, Claim, Spawn,
     Finish, CutShort, HandBack, StopStep, BeginStop, TakeCensus, ReapRunGroups, StopApi,
     CloseStore, Command, CallRetry, HandleRetry, Answer, AnswerLost, AskForDaemon, OpenDirect,
     WriteDirect, vars, poolVars
<1>3. QED  BY <1>1, <1>2

-----------------------------------------------------------------------------
(* What a start or a close does to the session rows.                       *)

(* A function on the first numbers is a sequence.                          *)
LEMMA FunctionIsSequence ==
    ASSUME NEW S, NEW n \in Nat, NEW f \in [1..n -> S]
    PROVE  f \in Seq(S) /\ Len(f) = n
<1>1. f \in Seq(S)
  OBVIOUS
<1>2. Len(f) = n
  <2>1. Len(f) \in Nat /\ DOMAIN f = 1..Len(f) /\ DOMAIN f = 1..n
    BY <1>1, LenProperties
  <2>2. QED  BY <2>1
<1>3. QED  BY <1>1, <1>2

(* The rows keep their place and none turns clean but at the close.        *)
LEMMA SessionRows ==
    ASSUME ServeInv, [Next]_vars
    PROVE  /\ sessions' \in Seq({"open", "clean", "crash"}) /\ Me' \in Nat /\ Me' >= Me
           /\ StartSession \/ Me' = Me
           /\ \A k \in 1..Me : sessions'[k] = "clean" =>
                 sessions[k] = "clean" \/ (CloseStore /\ k = Me /\ survived = {})
           /\ ~StartSession /\ ~CloseStore => UNCHANGED sessions
           /\ StartSession => Me' = Me + 1 /\ sessions'[Me'] = "open"
<1>0. sessions \in Seq({"open", "clean", "crash"}) /\ Me \in Nat
  BY DEF ServeInv, ServeTypes, Me
<1>1. CASE StartSession
  <2> DEFINE old == [k \in 1..Me |-> IF sessions[k] = "open" THEN "crash" ELSE sessions[k]]
  <2>1. sessions' = Append(old, "open")
    BY <1>1 DEF StartSession
  <2>2. old \in Seq({"open", "clean", "crash"}) /\ Len(old) = Me /\ \A k \in 1..Me : old[k] = "clean" => sessions[k] = "clean"
    <3>1. old \in [1..Me -> {"open", "clean", "crash"}]
      <4>1. \A k \in 1..Me : sessions[k] \in {"open", "clean", "crash"}
        BY <1>0, ElementOfSeq DEF Me
      <4>2. QED  BY <4>1
    <3>2. old \in Seq({"open", "clean", "crash"}) /\ Len(old) = Me
      <4> HIDE DEF old
      <4>1. QED  BY <1>0, <3>1, FunctionIsSequence
    <3>3. QED  BY <3>2
  <2>3. /\ sessions' \in Seq({"open", "clean", "crash"}) /\ Len(sessions') = Me + 1
        /\ sessions'[Me + 1] = "open" /\ \A k \in 1..Me : sessions'[k] = old[k]
    <3> HIDE DEF old
    <3>1. QED  BY <1>0, <2>1, <2>2
  <2>4. Me' = Me + 1
    BY <2>3 DEF Me
  <2>5. ~CloseStore
    BY <1>1 DEF StartSession, CloseStore
  <2>6. QED  BY <1>0, <1>1, <2>2, <2>3, <2>4, <2>5
<1>2. CASE CloseStore
  <2>1. Me > 0 /\ ~StartSession
    BY <1>2 DEF CloseStore, ServeInv, SessionIsOpen, Taking, Ending, StartSession
  <2>2. CASE UNCHANGED sessions
    BY <1>0, <1>2, <2>1, <2>2 DEF Me
  <2>3. CASE survived = {} /\ sessions' = [sessions EXCEPT ![Me] = "clean"]
    <3>1. /\ sessions' \in Seq({"open", "clean", "crash"}) /\ Len(sessions') = Len(sessions)
          /\ \A k \in 1..Me : k # Me => sessions'[k] = sessions[k]
      <4>1. Me \in 1..Len(sessions)
        BY <1>0, <2>1 DEF Me
      <4>2. QED  BY <1>0, <2>3, <4>1, ExceptSeq DEF Me
    <3>2. Me' = Me
      BY <3>1 DEF Me
    <3>3. \A k \in 1..Me : sessions'[k] = "clean" => sessions[k] = "clean" \/ k = Me
      BY <3>1
    <3>4. QED  BY <1>0, <1>2, <2>1, <2>3, <3>1, <3>2, <3>3
  <2>4. QED  BY <1>2, <2>2, <2>3 DEF CloseStore
<1>3. CASE UNCHANGED sessions /\ ~StartSession /\ ~CloseStore
  BY <1>0, <1>3 DEF Me
<1>4. QED  BY <1>1, <1>2, <1>3, SessionsMove

-----------------------------------------------------------------------------
(* Every step keeps the invariant.                                         *)

(* The process is gone, and with it what it kept.                          *)
LEMMA GoneIsIdle ==
    ASSUME Die \/ HardStop \/ Return
    PROVE  /\ phase' = "down" /\ hand' = {} /\ loops' = {} /\ ~told'
           /\ \A r \in Runs : exec'[r] = "idle"
  BY DEF Die, HardStop, Return, ProcessGone

(* Every process group is spawned by a session there was.                  *)
LEMMA ServeTypesStep ==
    ASSUME ServeInv, [Next]_vars
    PROVE  ServeTypes'
<1>0. ServeTypes /\ Me \in Nat
  BY DEF ServeInv, ServeTypes, Me
<1>1. sessions' \in Seq({"open", "clean", "crash"}) /\ Me' \in Nat /\ Me' >= Me
  BY SessionRows
<1>2. procs' \subseteq Runs \X (1..Me')
  <2>1. \A p \in Runs \X (1..Me) : p \in Runs \X (1..Me')
    BY <1>0, <1>1
  <2>2. ASSUME NEW r \in Runs, Spawn(r)
        PROVE  procs' \subseteq Runs \X (1..Me')
    <3>1. Me > 0
      BY <2>2 DEF Spawn, ServeInv, PoolFollowsPhase, SessionIsOpen, ServeTypes, Offline, Taking, Ending
    <3>2. procs' = procs \cup {<<r, Me>>} /\ <<r, Me>> \in Runs \X (1..Me)
      BY <1>0, <2>2, <3>1 DEF Spawn, Own
    <3>3. QED  BY <1>0, <2>1, <3>2 DEF ServeTypes
  <2>3. QED  BY <1>0, <2>1, <2>2, ProcsMove DEF ServeTypes
<1>3. exec' \in [Runs -> {"idle", "fresh", "claimed", "running", "ending"}]
  <2>1. CASE Die \/ HardStop \/ Return
    BY <2>1 DEF Die, HardStop, Return, ProcessGone
  <2>2. ASSUME NEW r \in Runs, Submit(r) \/ ExecStep(r)
        PROVE  exec' \in [Runs -> {"idle", "fresh", "claimed", "running", "ending"}]
    BY <1>0, <2>2 DEF ServeTypes, Submit, ExecStep, Claim, Spawn, Finish, CutShort, HandBack
  <2>3. QED  BY <1>0, <2>1, <2>2, ExecMoves DEF ServeTypes
<1>4. phase' \in Offline \cup Taking \cup Ending
  BY <1>0, PhaseMoves DEF ServeTypes, Offline, Taking, Ending, OpenState, StartSession, Reconcile, BeginStop,
     TakeCensus, StopExec, ReapRunGroups, StopApi, CloseStore, Die, HardStop, Return, ProcessGone
<1>5. QED  BY <1>1, <1>2, <1>3, <1>4 DEF ServeTypes

(* The pool is filled while the daemon serves, told by the census, and     *)
(* empty when the process is gone.                                         *)
LEMMA PoolFollowsPhaseStep ==
    ASSUME ServeInv, [Next]_vars
    PROVE  PoolFollowsPhase'
<1>0. PoolFollowsPhase /\ ServeTypes
  BY DEF ServeInv
<1>1. CASE Die \/ HardStop \/ Return
  BY <1>1, GoneIsIdle DEF PoolFollowsPhase, Ending
<1>2. CASE ~(Die \/ HardStop \/ Return)
  <2>1. ASSUME phase' \in Offline
        PROVE  hand' = {} /\ loops' = {} /\ \A r \in Runs : exec'[r] = "idle"
    <3>1. phase \in Offline
      BY <1>2, <2>1, PhaseMoves DEF Offline, OpenState, StartSession, Reconcile, BeginStop, TakeCensus,
         StopExec, ReapRunGroups, StopApi, CloseStore
    <3>2. hand = {} /\ loops = {} /\ \A r \in Runs : exec[r] = "idle"
      BY <1>0, <3>1 DEF PoolFollowsPhase
    <3>3. UNCHANGED exec
      BY <1>2, <3>2, ExecMoves DEF Submit, ExecStep, Claim, Spawn, Finish, CutShort, HandBack
    <3>4. hand' = {} /\ loops' = {}
      BY <1>2, <2>1, <3>2
      DEF Next, Startup, OpenState, LockMigrations, ApplyOne, UnlockMigrations, StartSession, Reconcile,
         LoopStep, LoopReturns, LeaderReturns, Acquire, Reap, ReadQueue, Submit, LoopFails,
         BodyFails, SweepProcesses, Expiry, RoleExpires, MigratorLockExpires, LeaseExpires, ExecStep, Claim,
         Spawn, Finish, CutShort, HandBack, StopStep, BeginStop, TakeCensus, StopExec, ReapRunGroups, StopApi,
         CloseStore, Command, CallRetry, HandleRetry, Answer, AnswerLost, AskForDaemon, OpenDirect,
         WriteDirect, vars, poolVars, groupVars, Offline
    <3>5. QED  BY <3>2, <3>3, <3>4
  <2>2. told' <=> phase' \in Ending
    <3>1. CASE StopExec
      BY <3>1 DEF StopExec, Ending
    <3>2. CASE ~StopExec
      <4>1. phase' # "down" \/ UNCHANGED phase
        BY <1>2, PhaseMoves DEF OpenState, StartSession, Reconcile, BeginStop, TakeCensus,
           StopExec, ReapRunGroups, StopApi, CloseStore
      <4>2. phase' \in Ending <=> phase \in Ending
        BY <1>2, <3>2, PhaseMoves DEF Ending, OpenState, StartSession, Reconcile, BeginStop, TakeCensus,
           ReapRunGroups, StopApi, CloseStore
      <4>3. CASE phase' = "down"
        <5>1. ~told /\ phase = "down"
          BY <1>0, <4>1, <4>3 DEF PoolFollowsPhase, Ending
        <5>2. ~told'
          BY <3>2, <5>1, ToldMoves
        <5>3. QED  BY <4>3, <5>2 DEF Ending
      <4>4. CASE phase' # "down"
        BY <1>0, <3>2, <4>2, <4>4, ToldMoves DEF PoolFollowsPhase
      <4>5. QED  BY <4>3, <4>4
    <3>3. QED  BY <3>1, <3>2
  <2>3. ASSUME NEW r \in Runs, exec'[r] = "ending"
        PROVE  told'
    <3>1. told
      <4>1. CASE exec[r] = "ending"
        BY <1>0, <4>1 DEF PoolFollowsPhase
      <4>2. CASE exec[r] # "ending"
        <5>1. PICK q \in Runs : Submit(q) \/ ExecStep(q)
          BY <1>2, <2>3, <4>2, ExecMoves
        <5>2. QED
          BY <1>0, <2>3, <4>2, <5>1 DEF ServeTypes, Submit, ExecStep, Claim, Spawn, Finish, CutShort, HandBack
      <4>3. QED  BY <4>1, <4>2
    <3>2. phase \in Ending
      BY <1>0, <3>1 DEF PoolFollowsPhase
    <3>3. phase' \in Ending
      BY <1>2, <3>2, PhaseMoves DEF Ending, OpenState, StartSession, Reconcile, BeginStop, TakeCensus,
         StopExec, ReapRunGroups, StopApi, CloseStore
    <3>4. QED  BY <2>2, <3>3
  <2>4. QED  BY <2>1, <2>2, <2>3 DEF PoolFollowsPhase
<1>3. QED  BY <1>1, <1>2

(* A session is closed by its own daemon's last step, or found dead by the *)
(* next one's start.                                                       *)
LEMMA SessionIsOpenStep ==
    ASSUME ServeInv, [Next]_vars
    PROVE  SessionIsOpen'
<1> SUFFICES ASSUME phase' \in (Taking \cup Ending) \ {"exiting"}
             PROVE  Me' > 0 /\ sessions'[Me'] = "open"
  BY DEF SessionIsOpen
<1>0. SessionIsOpen /\ Me \in Nat
  BY DEF ServeInv, ServeTypes, Me
<1>1. CASE StartSession
  BY <1>0, <1>1, SessionRows
<1>2. CASE ~StartSession
  <2>1. phase \in (Taking \cup Ending) \ {"exiting"} /\ ~CloseStore
    BY <1>2, PhaseMoves DEF Taking, Ending, OpenState, Reconcile, BeginStop, TakeCensus,
       StopExec, ReapRunGroups, StopApi, CloseStore, Die, HardStop, Return, ProcessGone
  <2>2. UNCHANGED sessions /\ Me' = Me
    BY <1>2, <2>1, SessionRows
  <2>3. QED  BY <1>0, <2>1, <2>2 DEF SessionIsOpen
<1>3. QED  BY <1>1, <1>2

(* A process is born while the executors may still work, in the session    *)
(* that is open.                                                           *)
LEMMA SpawnIsServed ==
    ASSUME ServeInv, NEW r \in Runs, Spawn(r)
    PROVE  /\ phase \in {"serving", "intake", "census"} /\ Me > 0 /\ sessions[Me] = "open"
           /\ procs' = procs \cup {<<r, Me>>} /\ exec' = [exec EXCEPT ![r] = "running"]
           /\ UNCHANGED sessions
  BY DEF Spawn, Own, daemonVars, ServeInv, ServeTypes, PoolFollowsPhase, SessionIsOpen, Offline, Taking, Ending

(* A process of this daemon ends with its drive until the executors are    *)
(* told.                                                                   *)
LEMMA ProcessesAreDrivenStep ==
    ASSUME ServeInv, [Next]_vars
    PROVE  ProcessesAreDriven'
<1>0. ServeTypes /\ PoolFollowsPhase /\ ProcessesAreDriven /\ Me \in Nat
  BY DEF ServeInv, ServeTypes, Me
<1>1. ASSUME phase' \in Taking, NEW p \in procs', p[2] = Me'
      PROVE  exec'[p[1]] = "running"
  <2>1. CASE StartSession
    <3>1. Me' = Me + 1 /\ p \in procs
      BY <1>1, <2>1, SessionRows DEF StartSession, runVars
    <3>2. QED  BY <1>0, <1>1, <3>1 DEF ServeTypes
  <2>2. CASE ~StartSession
    <3>1. phase \in Taking /\ Me' = Me /\ ~(Die \/ HardStop \/ Return)
      BY <1>1, <2>2, PhaseMoves, SessionRows, GoneIsIdle DEF Taking, OpenState, Reconcile, BeginStop, TakeCensus,
         StopExec, ReapRunGroups, StopApi, CloseStore
    <3>2. ~told
      BY <1>0, <3>1 DEF PoolFollowsPhase, Taking, Ending
    <3>3. ASSUME NEW r \in Runs, Spawn(r)
          PROVE  exec'[p[1]] = "running"
      BY <1>0, <1>1, <3>1, <3>3, SpawnIsServed DEF ProcessesAreDriven, ServeTypes
    <3>4. ASSUME NEW r \in Runs, Finish(r)
          PROVE  exec'[p[1]] = "running"
      <4>1. p \in procs /\ p # <<r, Me>>
        BY <1>1, <3>4 DEF Finish, Own
      <4>2. p[1] # r
        BY <1>0, <1>1, <3>1, <4>1 DEF ServeTypes
      <4>3. QED  BY <1>0, <1>1, <3>1, <3>4, <4>1, <4>2 DEF Finish, ProcessesAreDriven, ServeTypes
    <3>5. CASE ~\E r \in Runs : Spawn(r) \/ Finish(r)
      <4>1. p \in procs
        BY <1>1, <3>5, ProcsMove
      <4>2. exec[p[1]] = "running" /\ p[1] \in Runs
        BY <1>0, <1>1, <3>1, <4>1 DEF ProcessesAreDriven, ServeTypes
      <4>3. CASE UNCHANGED exec
        BY <4>2, <4>3
      <4>4. ASSUME NEW r \in Runs, Submit(r) \/ ExecStep(r)
            PROVE  exec'[p[1]] = "running"
        BY <1>0, <3>2, <3>5, <4>2, <4>4 DEF Submit, Book, ExecStep, Claim, CutShort, HandBack, ServeTypes
      <4>5. QED  BY <3>1, <4>3, <4>4, ExecMoves
    <3>6. QED  BY <3>3, <3>4, <3>5
  <2>3. QED  BY <2>1, <2>2
<1>2. ASSUME phase' = "census", NEW r \in Runs, exec'[r] # "idle"
      PROVE  r \in owed' \/ <<r, Me'>> \in late'
  <2>1. CASE TakeCensus
    BY <1>2, <2>1 DEF TakeCensus, Book, poolVars
  <2>2. CASE ~TakeCensus
    <3>1. phase = "census" /\ Me' = Me /\ ~(Die \/ HardStop \/ Return) /\ UNCHANGED owed /\ late \subseteq late'
      BY <1>2, <2>2, PhaseMoves, SessionRows, NotesMove, GoneIsIdle DEF OpenState, StartSession, Reconcile,
         BeginStop, StopExec, ReapRunGroups, StopApi, CloseStore
    <3>2. CASE exec[r] # "idle"
      BY <1>0, <3>1, <3>2 DEF ProcessesAreDriven, Book, Own
    <3>3. CASE exec[r] = "idle"
      <4>1. PICK q \in Runs : Submit(q) \/ ExecStep(q)
        BY <1>2, <3>1, <3>3, ExecMoves
      <4>2. Submit(q) /\ q = r
        BY <1>0, <1>2, <3>3, <4>1 DEF ServeTypes, Submit, ExecStep, Claim, Spawn, Finish, CutShort, HandBack
      <4>3. exec' # exec
        BY <1>2, <3>3
      <4>4. QED  BY <3>1, <4>2, <4>3 DEF Submit, Own
    <3>4. QED  BY <3>2, <3>3
  <2>3. QED  BY <2>1, <2>2
<1>3. QED  BY <1>1, <1>2 DEF ProcessesAreDriven, Book, Own

(* What the kill of the groups leaves was counted by the census or handed  *)
(* over after it.                                                          *)
LEMMA StopKnowsTheRestStep ==
    ASSUME ServeInv, [Next]_vars
    PROVE  StopKnowsTheRest'
<1>0. ServeTypes /\ PoolFollowsPhase /\ ProcessesAreDriven /\ StopKnowsTheRest
  BY DEF ServeInv
<1>s. phase' \in {"draining", "closing", "quiet"} => Me' = Me /\ ~\E r \in Runs : Spawn(r)
  <2>1. ASSUME phase' \in {"draining", "closing", "quiet"}, StartSession
        PROVE  FALSE
    BY <2>1 DEF StartSession
  <2>2. ASSUME phase' \in {"draining", "closing", "quiet"}, NEW r \in Runs, Spawn(r)
        PROVE  FALSE
    BY <2>2, SpawnIsServed DEF Spawn, daemonVars
  <2>3. QED  BY <2>1, <2>2, SessionRows
<1>1. ASSUME phase' = "draining", NEW p \in procs', p[2] = Me'
      PROVE  p[1] \in owed' \/ p \in late'
  <2>1. p \in procs /\ p[2] = Me /\ p = <<p[1], Me>> /\ p[1] \in Runs
    BY <1>0, <1>1, <1>s, ProcsMove DEF ServeTypes
  <2>2. UNCHANGED owed /\ late \subseteq late'
    BY <1>1, NotesMove DEF TakeCensus
  <2>3. CASE StopExec
    <3>1. phase = "census" /\ exec[p[1]] = "running"
      BY <1>0, <2>1, <2>3 DEF StopExec, ProcessesAreDriven, Taking
    <3>2. QED  BY <1>0, <2>1, <2>2, <3>1 DEF ProcessesAreDriven, Book, Own
  <2>4. CASE ~StopExec
    <3>1. phase = "draining"
      BY <1>1, <2>4, PhaseMoves, GoneIsIdle DEF OpenState, StartSession, Reconcile, BeginStop, TakeCensus,
         ReapRunGroups, StopApi, CloseStore
    <3>2. QED  BY <1>0, <2>1, <2>2, <3>1 DEF StopKnowsTheRest
  <2>5. QED  BY <2>3, <2>4
<1>2. ASSUME phase' \in {"closing", "quiet"}, NEW p \in procs', p[2] = Me'
      PROVE  p \in survived' \/ p \in late'
  <2>1. p \in procs /\ p[2] = Me
    BY <1>2, <1>s, ProcsMove
  <2>2. late \subseteq late'
    BY NotesMove
  <2>3. CASE ReapRunGroups
    <3>1. PICK left \in SUBSET {q \in procs : q[1] \in owed} :
             survived' = left /\ procs' = procs \ ({q \in procs : q[1] \in owed} \ left)
      BY <2>3 DEF ReapRunGroups
    <3>2. phase = "draining"
      BY <2>3 DEF ReapRunGroups
    <3>3. QED  BY <1>0, <1>2, <2>1, <2>2, <3>1, <3>2 DEF StopKnowsTheRest
  <2>4. CASE ~ReapRunGroups
    <3>1. phase \in {"closing", "quiet"} /\ UNCHANGED survived
      BY <1>2, <2>4, PhaseMoves, NotesMove, GoneIsIdle DEF OpenState, StartSession, Reconcile, BeginStop,
         TakeCensus, StopExec, StopApi, CloseStore
    <3>2. QED  BY <1>0, <2>1, <2>2, <3>1 DEF StopKnowsTheRest
  <2>5. QED  BY <2>3, <2>4
<1>3. QED  BY <1>1, <1>2 DEF StopKnowsTheRest

(* The clean close is written only when nothing survived but what came     *)
(* late.                                                                   *)
LEMMA CleanMeansQuietStep ==
    ASSUME ServeInv, [Next]_vars
    PROVE  CleanMeansQuiet'
<1> SUFFICES ASSUME NEW p \in procs', sessions'[p[2]] = "clean"
             PROVE  p \in late'
  BY DEF CleanMeansQuiet
<1>0. ServeTypes /\ StopKnowsTheRest /\ CleanMeansQuiet /\ late \subseteq late'
  BY NotesMove DEF ServeInv
<1>1. CASE p \in procs
  <2>1. p[2] \in 1..Me
    BY <1>0, <1>1 DEF ServeTypes
  <2>2. CASE sessions[p[2]] = "clean"
    BY <1>0, <1>1, <2>2 DEF CleanMeansQuiet
  <2>3. CASE CloseStore /\ p[2] = Me /\ survived = {}
    BY <1>0, <1>1, <2>3 DEF CloseStore, StopKnowsTheRest
  <2>4. QED  BY <2>1, <2>2, <2>3, SessionRows
<1>2. ASSUME p \notin procs
      PROVE  FALSE
  <2>1. PICK r \in Runs : Spawn(r)
    BY <1>2, ProcsMove
  <2>2. QED  BY <1>2, <2>1, SpawnIsServed
<1>3. QED  BY <1>1, <1>2

-----------------------------------------------------------------------------
(* The invariant, and what follows from it.                                *)

(* In every reachable state the pool, the session rows, the processes and  *)
(* the stop's own notes agree about the phase the daemon is in.            *)
THEOREM ServeInvariant ==
    Spec => []ServeInv
<1>1. Init => ServeInv
  <2> SUFFICES ASSUME Init
               PROVE  ServeInv
    OBVIOUS
  <2>1. procs = {} /\ sessions = <<>> /\ sessions \in Seq({"open", "clean", "crash"}) /\ phase = "down"
    BY DEF Init
  <2>2. ServeTypes
    BY <2>1 DEF Init, ServeTypes, Offline
  <2>3. PoolFollowsPhase
    BY DEF Init, PoolFollowsPhase, Ending
  <2>4. SessionIsOpen /\ ProcessesAreDriven /\ StopKnowsTheRest /\ CleanMeansQuiet
    BY <2>1 DEF SessionIsOpen, ProcessesAreDriven, StopKnowsTheRest, CleanMeansQuiet, Taking, Ending
  <2>5. QED  BY <2>2, <2>3, <2>4 DEF ServeInv
<1>2. ServeInv /\ [Next]_vars => ServeInv'
  BY ServeTypesStep, PoolFollowsPhaseStep, SessionIsOpenStep, ProcessesAreDrivenStep, StopKnowsTheRestStep,
     CleanMeansQuietStep DEF ServeInv
<1>3. QED  BY <1>1, <1>2, PTL DEF Spec

(* A session closed as clean left no process running, but for a run handed *)
(* over between the stop's census and its cancel (shutdown.go).            *)
THEOREM CleanSessionsAreQuiet ==
    Spec => []CleanMeansQuiet
<1>1. ServeInv => CleanMeansQuiet
  BY DEF ServeInv
<1>2. QED  BY <1>1, ServeInvariant, PTL

-----------------------------------------------------------------------------
(* Cutover: what commenting out and back does to a crontab                 *)

CommentStates   == [lines : Seq(Lines), hit : SUBSET Names]
UncommentStates == [lines : Seq(Lines), open : BOOLEAN, hit : SUBSET (Names \cup {NoOne})]

CommentStart   == [lines |-> <<>>, hit |-> {}]
UncommentStart == [lines |-> <<>>, open |-> FALSE, hit |-> {}]

(* The lines the command writes are lines; a line it commented out is no   *)
(* marker.                                                                 *)
LEMMA LineTypes ==
    /\ \A j \in Names : Origin[j] \in Texts /\ Origin[j] # "marker"
    /\ \A j \in Names : Marker(j) \in Lines /\ IsMarker(Marker(j)) /\ Marker(j).of = j
    /\ \A k \in Nat, t \in Texts : Hashed(k, t) \in Lines
    /\ \A k \in Nat, j \in Names : ~IsMarker(Hashed(k, Origin[j]))
    /\ Blank \in Lines /\ ~IsMarker(Blank)
<1>1. \A j \in Names : Origin[j] \in Texts /\ Origin[j] # "marker"
  BY TextsAssumption
<1>0. "marker" \in Texts /\ "" \in Texts
  BY TextsAssumption
<1>2. \A j \in Names : Marker(j) \in Lines /\ IsMarker(Marker(j)) /\ Marker(j).of = j
  <2> TAKE j \in Names
  <2>1. Marker(j) \in Lines
    BY <1>0 DEF Lines, Marker
  <2>2. QED  BY <2>1 DEF Marker, IsMarker
<1>3. \A k \in Nat, t \in Texts : Hashed(k, t) \in Lines
  BY DEF Lines, Hashed
<1>4. \A k \in Nat, j \in Names : ~IsMarker(Hashed(k, Origin[j]))
  BY <1>1 DEF IsMarker, Hashed
<1>5. Blank \in Lines /\ ~IsMarker(Blank)
  <2>1. Blank \in Lines
    BY <1>0, <1>3 DEF Blank
  <2>2. QED  BY <2>1 DEF Blank, Hashed, IsMarker
<1>6. QED  BY <1>1, <1>2, <1>3, <1>4, <1>5

(* A line a job takes is its origin.                                       *)
LEMMA TakerFits ==
    ASSUME NEW line, NEW wanted, Taker(line, wanted) # NoOne
    PROVE  /\ Taker(line, wanted) \in wanted \cap Names
           /\ line = Entry(Origin[Taker(line, wanted)])
<1> DEFINE fit == {i \in DOMAIN Imported : Imported[i] \in wanted /\ LineEqualsOrigin(line, Imported[i])}
<1>1. fit # {} /\ Taker(line, wanted) = Imported[Min(fit)]
  BY DEF Taker
<1>2. fit \in SUBSET Nat
  BY ImportedAssumption
<1>3. Min(fit) \in fit
  <2> HIDE DEF fit
  <2>1. \E m \in fit : \A x \in fit : m <= x
    BY <1>1, <1>2, LeastNatural
  <2>2. QED  BY <2>1 DEF Min
<1>4. QED  BY <1>1, <1>3 DEF Names, Range, LineEqualsOrigin

(* A line that is looked at leaves the state of Comment well typed.        *)
LEMMA CommentLineType ==
    ASSUME NEW acc \in CommentStates, NEW line \in Lines, NEW wanted \in SUBSET Names
    PROVE  CommentLine(acc, line, wanted) \in CommentStates
<1> DEFINE j == Taker(line, wanted \ acc.hit)
<1>1. CASE j = NoOne
  <2>1. CommentLine(acc, line, wanted) = [acc EXCEPT !.lines = Append(@, line)]
    BY <1>1 DEF CommentLine
  <2>2. Append(acc.lines, line) \in Seq(Lines)
    BY DEF CommentStates
  <2>3. QED  BY <2>1, <2>2 DEF CommentStates
<1>2. CASE j # NoOne
  <2>1. j \in Names /\ line = Entry(Origin[j])
    BY <1>2, TakerFits
  <2>2. Commented(line) \in Lines /\ Marker(j) \in Lines
    BY <2>1, LineTypes DEF Commented, Lines
  <2> HIDE DEF j
  <2>3. Append(Append(acc.lines, Marker(j)), Commented(line)) \in Seq(Lines)
    BY <2>2 DEF CommentStates
  <2>4. acc.hit \cup {j} \in SUBSET Names
    BY <2>1 DEF CommentStates
  <2>5. CommentLine(acc, line, wanted)
          = [lines |-> Append(Append(acc.lines, Marker(j)), Commented(line)), hit |-> acc.hit \cup {j}]
    BY <1>2 DEF CommentLine, j
  <2>6. QED  BY <2>3, <2>4, <2>5 DEF CommentStates
<1>3. QED  BY <1>1, <1>2

(* ... and that of Uncomment.                                              *)
LEMMA UncommentLineType ==
    ASSUME NEW acc \in UncommentStates, NEW line \in Lines, NEW only
    PROVE  UncommentLine(acc, line, only) \in UncommentStates
<1>1. Closed(acc) \in Seq(Lines)
  BY LineTypes DEF Closed, UncommentStates
<1>2. line.n > 0 => Restored(line) \in Lines
  BY DEF Restored, Lines
<1>3. line.of \in Names \cup {NoOne}
  BY DEF Lines
<1>4. CASE acc.open /\ line.n > 0
  <2>1. UncommentLine(acc, line, only)
          = [acc EXCEPT !.lines = Append(@, Restored(line)), !.open = FALSE]
    BY <1>4 DEF UncommentLine
  <2>2. Append(acc.lines, Restored(line)) \in Seq(Lines)
    BY <1>2, <1>4 DEF UncommentStates
  <2>3. QED  BY <2>1, <2>2 DEF UncommentStates
<1>5. CASE ~(acc.open /\ line.n > 0)
  <2>1. Append(Closed(acc), line) \in Seq(Lines)
    BY <1>1
  <2>2. CASE IsMarker(line) /\ (only = {} \/ line.of \in only)
    <3>1. UncommentLine(acc, line, only)
            = [lines |-> Closed(acc), open |-> TRUE, hit |-> acc.hit \cup {line.of}]
      BY <1>5, <2>2 DEF UncommentLine
    <3>2. acc.hit \cup {line.of} \in SUBSET (Names \cup {NoOne})
      BY <1>3 DEF UncommentStates
    <3>3. QED  BY <1>1, <3>1, <3>2 DEF UncommentStates
  <2>3. CASE ~(IsMarker(line) /\ (only = {} \/ line.of \in only))
    <3>1. UncommentLine(acc, line, only)
            = [acc EXCEPT !.lines = Append(Closed(acc), line), !.open = FALSE]
      BY <1>5, <2>3 DEF UncommentLine
    <3>2. QED  BY <2>1, <3>1 DEF UncommentStates
  <2>4. QED  BY <2>2, <2>3
<1>6. QED  BY <1>4, <1>5

(* Comment, line by line.                                                  *)
LEMMA CommentWalks ==
    ASSUME NEW wanted \in SUBSET Names
    PROVE  /\ Comment(<<>>, wanted) = CommentStart
           /\ \A s \in Seq(Lines) : Comment(s, wanted) \in CommentStates
           /\ \A s \in Seq(Lines), x \in Lines :
                 Comment(Append(s, x), wanted) = CommentLine(Comment(s, wanted), x, wanted)
<1> DEFINE Y == CommentStates
           b == CommentStart
           G == [a \in Y |-> [x \in Lines |-> CommentLine(a, x, wanted)]]
<1>1. b \in Y
  BY DEF CommentStart, CommentStates
<1>2. StepFunction(G, Y, Lines)
  BY CommentLineType DEF StepFunction
<1>3. PICK W : IsWalk(W, Y, b, G, Lines)
  <2> HIDE DEF Y, b, G
  <2>1. QED  BY <1>1, <1>2, Walk
<1>4. ASSUME NEW s \in Seq(Lines)
      PROVE  Comment(s, wanted) = W[s]
  <2> DEFINE n == Len(s)
             IsAfter(f) == f = [k \in 0..n |-> IF k = 0 THEN b
                                              ELSE CommentLine(f[k - 1], s[k], wanted)]
             f == CHOOSE f : IsAfter(f)
  <2>1. Comment(s, wanted) = f[n]
    BY DEF Comment, CommentStart
  <2>2. n \in Nat /\ \A k \in 1..n : s[k] \in Lines
    OBVIOUS
  <2>3. PICK g : Steps(g, Y, b, G, s)
    BY <1>3 DEF IsWalk
  <2>4. IsAfter(g)
    <3>1. g \in [0..n -> Y] /\ g[0] = b /\ \A k \in 1..n : g[k] = G[g[k - 1]][s[k]]
      BY <2>3 DEF Steps
    <3>2. \A k \in 1..n : g[k] = CommentLine(g[k - 1], s[k], wanted)
      BY <2>2, <3>1
    <3> HIDE DEF G, Y, b
    <3>3. QED  BY <2>2, <3>1, <3>2
  <2>5. IsAfter(f)
    <3> HIDE DEF IsAfter
    <3>1. QED  BY <2>4
  <2> HIDE DEF f
  <2>6. Follows(f, Y, b, G, s)
    <3>1. f[0] = b /\ \A k \in 1..n : f[k] = CommentLine(f[k - 1], s[k], wanted)
      BY <2>2, <2>5
    <3>2. QED  BY <2>2, <3>1 DEF Follows
  <2>7. f[n] = W[s]
    <3> HIDE DEF Y, b, G
    <3>1. QED  BY <1>3, <2>6, WalkEnds
  <2>8. QED  BY <2>1, <2>7
<1>5. \A s \in Seq(Lines), x \in Lines : Append(s, x) \in Seq(Lines)
  OBVIOUS
<1>6. \A s \in Seq(Lines) : W[s] \in Y
  BY <1>3 DEF IsWalk
<1>7. \A s \in Seq(Lines), x \in Lines : W[Append(s, x)] = CommentLine(W[s], x, wanted)
  BY <1>3, <1>6 DEF IsWalk
<1>8. W[<<>>] = b
  BY <1>3 DEF IsWalk
<1> HIDE DEF G, b, Y
<1>9. Comment(<<>>, wanted) = b
  <2>1. <<>> \in Seq(Lines)
    OBVIOUS
  <2>2. QED  BY <1>4, <1>8, <2>1
<1>10. \A s \in Seq(Lines) : Comment(s, wanted) \in Y
  BY <1>4, <1>6
<1>11. \A s \in Seq(Lines), x \in Lines :
         Comment(Append(s, x), wanted) = CommentLine(Comment(s, wanted), x, wanted)
  <2> TAKE s \in Seq(Lines), x \in Lines
  <2>1. Append(s, x) \in Seq(Lines)
    BY <1>5
  <2>2. QED  BY <2>1, <1>4, <1>7
<1>12. QED  BY <1>9, <1>10, <1>11 DEF Y, b
(* Uncomment, line by line.                                                *)
LEMMA UncommentWalks ==
    ASSUME NEW only
    PROVE  /\ UncommentLines(<<>>, only) = UncommentStart
           /\ \A s \in Seq(Lines) : UncommentLines(s, only) \in UncommentStates
           /\ \A s \in Seq(Lines), x \in Lines :
                 UncommentLines(Append(s, x), only) = UncommentLine(UncommentLines(s, only), x, only)
<1> DEFINE Y == UncommentStates
           b == UncommentStart
           G == [a \in Y |-> [x \in Lines |-> UncommentLine(a, x, only)]]
<1>1. b \in Y
  BY DEF UncommentStart, UncommentStates
<1>2. StepFunction(G, Y, Lines)
  BY UncommentLineType DEF StepFunction
<1>3. PICK W : IsWalk(W, Y, b, G, Lines)
  <2> HIDE DEF Y, b, G
  <2>1. QED  BY <1>1, <1>2, Walk
<1>4. ASSUME NEW s \in Seq(Lines)
      PROVE  UncommentLines(s, only) = W[s]
  <2> DEFINE n == Len(s)
             IsAfter(f) == f = [k \in 0..n |-> IF k = 0 THEN b
                                              ELSE UncommentLine(f[k - 1], s[k], only)]
             f == CHOOSE f : IsAfter(f)
  <2>1. UncommentLines(s, only) = f[n]
    BY DEF UncommentLines, UncommentStart
  <2>2. n \in Nat /\ \A k \in 1..n : s[k] \in Lines
    OBVIOUS
  <2>3. PICK g : Steps(g, Y, b, G, s)
    BY <1>3 DEF IsWalk
  <2>4. IsAfter(g)
    <3>1. g \in [0..n -> Y] /\ g[0] = b /\ \A k \in 1..n : g[k] = G[g[k - 1]][s[k]]
      BY <2>3 DEF Steps
    <3>2. \A k \in 1..n : g[k] = UncommentLine(g[k - 1], s[k], only)
      BY <2>2, <3>1
    <3> HIDE DEF G, Y, b
    <3>3. QED  BY <2>2, <3>1, <3>2
  <2>5. IsAfter(f)
    <3> HIDE DEF IsAfter
    <3>1. QED  BY <2>4
  <2> HIDE DEF f
  <2>6. Follows(f, Y, b, G, s)
    <3>1. f[0] = b /\ \A k \in 1..n : f[k] = UncommentLine(f[k - 1], s[k], only)
      BY <2>2, <2>5
    <3>2. QED  BY <2>2, <3>1 DEF Follows
  <2>7. f[n] = W[s]
    <3> HIDE DEF Y, b, G
    <3>1. QED  BY <1>3, <2>6, WalkEnds
  <2>8. QED  BY <2>1, <2>7
<1>5. \A s \in Seq(Lines), x \in Lines : Append(s, x) \in Seq(Lines)
  OBVIOUS
<1>6. \A s \in Seq(Lines) : W[s] \in Y
  BY <1>3 DEF IsWalk
<1>7. \A s \in Seq(Lines), x \in Lines : W[Append(s, x)] = UncommentLine(W[s], x, only)
  BY <1>3, <1>6 DEF IsWalk
<1>8. W[<<>>] = b
  BY <1>3 DEF IsWalk
<1> HIDE DEF G, b, Y
<1>9. UncommentLines(<<>>, only) = b
  <2>1. <<>> \in Seq(Lines)
    OBVIOUS
  <2>2. QED  BY <1>4, <1>8, <2>1
<1>10. \A s \in Seq(Lines) : UncommentLines(s, only) \in Y
  BY <1>4, <1>6
<1>11. \A s \in Seq(Lines), x \in Lines :
         UncommentLines(Append(s, x), only) = UncommentLine(UncommentLines(s, only), x, only)
  <2> TAKE s \in Seq(Lines), x \in Lines
  <2>1. Append(s, x) \in Seq(Lines)
    BY <1>5
  <2>2. QED  BY <2>1, <1>4, <1>7
<1>12. QED  BY <1>9, <1>10, <1>11 DEF Y, b
-----------------------------------------------------------------------------
(* Markers.                                                                *)

(* Every marker is one a cutover left, above the line it commented out.    *)
Above(content, i) ==
    \E j \in Names : /\ content[i] = Marker(j)
                     /\ i < Len(content) => content[i + 1] = Hashed(1, Origin[j])

MarkersStand(content) == \A i \in DOMAIN content : IsMarker(content[i]) => Above(content, i)

Ends(content, j) == content # <<>> /\ content[Len(content)] = Marker(j)
Under(content)   == content # <<>> /\ IsMarker(content[Len(content)])

Paired(content) == MarkersStand(content) /\ ~Under(content)

(* What a line more may be.                                                *)
Fits(content, line) ==
    /\ Under(content) => \E j \in Names : Ends(content, j) /\ line = Hashed(1, Origin[j])
    /\ IsMarker(line) => \E j \in Names : line = Marker(j)

(* How each law of markers reads on a content one line longer.             *)
LEMMA StandAppend ==
    ASSUME NEW s \in Seq(Lines), NEW x \in Lines
    PROVE  /\ MarkersStand(Append(s, x)) <=> MarkersStand(s) /\ Fits(s, x)
           /\ Under(Append(s, x)) <=> IsMarker(x)
           /\ \A j : Ends(Append(s, x), j) <=> x = Marker(j)
           /\ MarkerJobs(Append(s, x)) = MarkerJobs(s) \cup (IF IsMarker(x) THEN {x.of} ELSE {})
<1> DEFINE t == Append(s, x)
           n == Len(s)
<1>1. /\ n \in Nat /\ Len(t) = n + 1 /\ t # <<>> /\ t[n + 1] = x
      /\ \A i \in 1..n : t[i] = s[i]
      /\ DOMAIN s = 1..n /\ DOMAIN t = 1..(n + 1)
      /\ s # <<>> <=> n # 0
  OBVIOUS
<1> HIDE DEF t, n
<1>2. Under(t) <=> IsMarker(x)
  BY <1>1 DEF Under
<1>3. \A j : Ends(t, j) <=> x = Marker(j)
  BY <1>1 DEF Ends
<1>4. MarkerJobs(t) = MarkerJobs(s) \cup (IF IsMarker(x) THEN {x.of} ELSE {})
  <2>1. ASSUME NEW i \in DOMAIN t, IsMarker(t[i])
        PROVE  t[i].of \in MarkerJobs(s) \cup (IF IsMarker(x) THEN {x.of} ELSE {})
    <3>1. CASE i = n + 1
      BY <1>1, <2>1, <3>1
    <3>2. CASE i # n + 1
      <4>1. i \in DOMAIN s /\ t[i] = s[i]
        BY <1>1, <3>2
      <4>2. QED  BY <2>1, <4>1 DEF MarkerJobs
    <3>3. QED  BY <3>1, <3>2
  <2>2. ASSUME NEW i \in DOMAIN s, IsMarker(s[i])
        PROVE  s[i].of \in MarkerJobs(t)
    <3>1. i \in DOMAIN t /\ t[i] = s[i]
      BY <1>1
    <3>2. QED  BY <2>2, <3>1 DEF MarkerJobs
  <2>3. IsMarker(x) => x.of \in MarkerJobs(t)
    <3>1. n + 1 \in DOMAIN t
      BY <1>1
    <3>2. QED  BY <1>1, <3>1 DEF MarkerJobs
  <2>4. MarkerJobs(t) \subseteq MarkerJobs(s) \cup (IF IsMarker(x) THEN {x.of} ELSE {})
    BY <2>1 DEF MarkerJobs
  <2>5. MarkerJobs(s) \subseteq MarkerJobs(t)
    BY <2>2 DEF MarkerJobs
  <2>6. QED  BY <2>3, <2>4, <2>5
<1>5. ASSUME MarkersStand(t)
      PROVE  MarkersStand(s) /\ Fits(s, x)
  <2>1. ASSUME NEW i \in DOMAIN s, IsMarker(s[i])
        PROVE  /\ Above(s, i)
               /\ \E j \in Names : s[i] = Marker(j) /\ t[i + 1] = Hashed(1, Origin[j])
    <3>1. i \in DOMAIN t /\ t[i] = s[i] /\ i < Len(t) /\ (i < n => t[i + 1] = s[i + 1])
      BY <1>1
    <3>2. PICK j \in Names : t[i] = Marker(j) /\ t[i + 1] = Hashed(1, Origin[j])
      BY <1>5, <2>1, <3>1 DEF MarkersStand, Above
    <3>3. QED  BY <3>1, <3>2 DEF Above, n
  <2>2. MarkersStand(s)
    BY <2>1 DEF MarkersStand
  <2>3. ASSUME Under(s)
        PROVE  \E j \in Names : Ends(s, j) /\ x = Hashed(1, Origin[j])
    <3>1. n \in DOMAIN s /\ IsMarker(s[n]) /\ s # <<>>
      BY <1>1, <2>3 DEF Under, n
    <3>2. QED  BY <1>1, <2>1, <3>1 DEF Ends, n
  <2>4. ASSUME IsMarker(x)
        PROVE  \E j \in Names : x = Marker(j)
    <3>1. n + 1 \in DOMAIN t
      BY <1>1
    <3>2. QED  BY <1>1, <1>5, <2>4, <3>1 DEF MarkersStand, Above
  <2>5. QED  BY <2>2, <2>3, <2>4 DEF Fits
<1>6. ASSUME MarkersStand(s), Fits(s, x)
      PROVE  MarkersStand(t)
  <2>1. SUFFICES ASSUME NEW i \in DOMAIN t, IsMarker(t[i])
                 PROVE  Above(t, i)
    BY DEF MarkersStand
  <2>2. CASE i = n + 1
    BY <1>1, <1>6, <2>1, <2>2 DEF Above, Fits
  <2>3. CASE i = n
    <3>1. Under(s) /\ i \in DOMAIN s /\ t[i] = s[i] /\ t[i + 1] = x
      BY <1>1, <2>1, <2>3 DEF Under, n
    <3>2. PICK j \in Names : s[n] = Marker(j) /\ x = Hashed(1, Origin[j])
      BY <1>6, <3>1 DEF Fits, Ends, n
    <3>3. QED  BY <2>3, <3>1, <3>2 DEF Above
  <2>4. CASE i # n + 1 /\ i # n
    <3>1. i \in DOMAIN s /\ i < n /\ t[i] = s[i] /\ t[i + 1] = s[i + 1]
      BY <1>1, <2>4
    <3>2. PICK j \in Names : s[i] = Marker(j) /\ s[i + 1] = Hashed(1, Origin[j])
      BY <1>6, <2>1, <3>1 DEF MarkersStand, Above, n
    <3>3. QED  BY <3>1, <3>2 DEF Above
  <2>5. QED  BY <2>2, <2>3, <2>4
<1>7. QED  BY <1>2, <1>3, <1>4, <1>5, <1>6 DEF t

(* ... and on no content at all.                                           *)
LEMMA StandStart ==
    MarkersStand(<<>>) /\ ~Under(<<>>) /\ MarkerJobs(<<>>) = {} /\ \A j : ~Ends(<<>>, j)
BY DEF MarkersStand, Under, MarkerJobs, Ends

-----------------------------------------------------------------------------
(* What the two rewritings do to markers and to each other.                *)

(* What a step of Uncomment writes depends on what was written and on      *)
(* whether a marker waits, and it leaves one waiting only over a marker.   *)
LEMMA UncommentLineReads ==
    ASSUME NEW a \in UncommentStates, NEW c \in UncommentStates, NEW x, NEW only,
           a.lines = c.lines, a.open = c.open
    PROVE  /\ UncommentLine(a, x, only).lines = UncommentLine(c, x, only).lines
           /\ UncommentLine(a, x, only).open = UncommentLine(c, x, only).open
BY DEF UncommentLine, UncommentStates, Closed

(* A marker waits for its line only right after it.                        *)
LEMMA OpenIsUnder ==
    ASSUME NEW only, NEW s \in Seq(Lines), UncommentLines(s, only).open
    PROVE  Under(s)
<1> DEFINE T == {c \in Seq(Lines) : UncommentLines(c, only).open => Under(c)}
<1>1. <<>> \in T
  BY UncommentWalks DEF UncommentStart
<1>2. ASSUME NEW c \in Seq(Lines), NEW x \in Lines, c \in T
      PROVE  Append(c, x) \in T
  <2>1. UncommentLines(c, only) \in UncommentStates
    BY UncommentWalks
  <2>2. UncommentLine(UncommentLines(c, only), x, only).open => IsMarker(x)
    BY <2>1 DEF UncommentLine, UncommentStates
  <2>3. Append(c, x) \in Seq(Lines)
    OBVIOUS
  <2>4. QED  BY <2>2, <2>3, UncommentWalks, StandAppend
<1>3. Seq(Lines) \subseteq T
  <2> HIDE DEF T
  <2>1. QED  BY <1>1, <1>2, AllSequences
<1>4. QED  BY <1>3

(* Without markers there is nothing to restore.                            *)
LEMMA NothingToRestore ==
    ASSUME NEW only, NEW s \in Seq(Lines), MarkerJobs(s) = {}
    PROVE  Uncomment(s, only).lines = s
<1> DEFINE T == {c \in Seq(Lines) : MarkerJobs(c) = {} =>
                    UncommentLines(c, only).lines = c /\ UncommentLines(c, only).open = FALSE}
<1>1. <<>> \in T
  BY UncommentWalks DEF UncommentStart
<1>2. ASSUME NEW c \in Seq(Lines), NEW x \in Lines, c \in T
      PROVE  Append(c, x) \in T
  <2>1. Append(c, x) \in Seq(Lines)
    OBVIOUS
  <2>2. CASE MarkerJobs(Append(c, x)) # {}
    BY <2>1, <2>2
  <2>3. CASE MarkerJobs(Append(c, x)) = {}
    <3>1. MarkerJobs(c) = {} /\ ~IsMarker(x)
      BY <2>3, StandAppend
    <3>2. UncommentLines(c, only) \in UncommentStates
      BY UncommentWalks
    <3>3. UncommentLines(Append(c, x), only) = UncommentLine(UncommentLines(c, only), x, only)
      BY UncommentWalks
    <3>4. QED  BY <1>2, <2>1, <3>1, <3>2, <3>3 DEF UncommentLine, UncommentStates, Closed
  <2>4. QED  BY <2>2, <2>3
<1>3. Seq(Lines) \subseteq T
  <2> HIDE DEF T
  <2>1. QED  BY <1>1, <1>2, AllSequences
<1>4. QED  BY <1>3 DEF Uncomment, Closed

(* Comment puts pairs of a marker and a line in the place of lines, and    *)
(* Uncomment takes both the same.                                          *)
SameEnd(s, t) == (Under(s) <=> Under(t)) /\ \A j \in Names : Ends(s, j) => Ends(t, j)

CommentIsUndone(s, wanted) ==
    LET c == Comment(s, wanted)
    IN  /\ MarkersStand(c.lines)
        /\ SameEnd(s, c.lines)
        /\ MarkerJobs(c.lines) = MarkerJobs(s) \cup c.hit
        /\ UncommentLines(c.lines, {}).lines = UncommentLines(s, {}).lines
        /\ UncommentLines(c.lines, {}).open = UncommentLines(s, {}).open

(* What the next line adds to the law of Comment.                          *)
LEMMA CommentIsUndoneStep ==
    ASSUME NEW wanted \in SUBSET Names, NEW s \in Seq(Lines), NEW x \in Lines,
           MarkersStand(s), Fits(s, x), CommentIsUndone(s, wanted)
    PROVE  CommentIsUndone(Append(s, x), wanted)
<1> DEFINE c == Comment(s, wanted)
           d == Comment(Append(s, x), wanted)
           j == Taker(x, wanted \ c.hit)
           U(q) == UncommentLines(q, {})
<1>1. c \in CommentStates /\ d = CommentLine(c, x, wanted) /\ c.lines \in Seq(Lines)
  BY CommentWalks DEF CommentStates
<1>2. /\ U(s) \in UncommentStates /\ U(c.lines) \in UncommentStates
      /\ U(Append(s, x)) = UncommentLine(U(s), x, {})
  BY <1>1, UncommentWalks
<1>3. /\ MarkersStand(c.lines) /\ SameEnd(s, c.lines)
      /\ MarkerJobs(c.lines) = MarkerJobs(s) \cup c.hit
      /\ U(c.lines).lines = U(s).lines /\ U(c.lines).open = U(s).open
  BY DEF CommentIsUndone
<1> HIDE DEF c, d, U
<1>4. CASE j = NoOne
  <2>1. d.lines = Append(c.lines, x) /\ d.hit = c.hit
    BY <1>1, <1>4 DEF CommentLine, CommentStates
  <2>2. Fits(c.lines, x)
    BY <1>3 DEF Fits, SameEnd
  <2>3. MarkersStand(d.lines) /\ SameEnd(Append(s, x), d.lines)
    BY <1>1, <1>3, <2>1, <2>2, StandAppend DEF SameEnd
  <2>4. MarkerJobs(d.lines) = MarkerJobs(Append(s, x)) \cup d.hit
    BY <1>1, <1>3, <2>1, StandAppend
  <2>5. U(d.lines) = UncommentLine(U(c.lines), x, {})
    BY <1>1, <2>1, UncommentWalks DEF U
  <2>6. U(d.lines).lines = U(Append(s, x)).lines /\ U(d.lines).open = U(Append(s, x)).open
    BY <1>2, <1>3, <2>5, UncommentLineReads
  <2>7. QED  BY <2>3, <2>4, <2>6 DEF CommentIsUndone, d, U
<1>5. CASE j # NoOne
  <2> DEFINE m == Append(c.lines, Marker(j))
             y == Hashed(1, Origin[j])
  <2>1. j \in Names /\ x = Entry(Origin[j])
    BY <1>5, TakerFits
  <2> HIDE DEF j
  <2>2. /\ Commented(x) = y /\ Restored(y) = x /\ y \in Lines /\ Marker(j) \in Lines
        /\ ~IsMarker(x) /\ ~IsMarker(y) /\ IsMarker(Marker(j)) /\ Marker(j).of = j
        /\ x.n = 0 /\ y.n = 1 /\ Marker(j).n = 1
    BY <2>1, LineTypes DEF Commented, Restored, Entry, Hashed, Marker
  <2>3. d.lines = Append(m, y) /\ d.hit = c.hit \cup {j}
    BY <1>1, <1>5, <2>2 DEF CommentLine, j
  <2>4. ~Under(s) /\ ~Under(c.lines) /\ m \in Seq(Lines)
    <3>1. ~Under(s)
      BY <2>2 DEF Fits, Hashed
    <3>2. QED  BY <1>1, <1>3, <2>2, <3>1 DEF SameEnd
  <2>5. Fits(c.lines, Marker(j)) /\ Fits(m, y)
    <3>1. Fits(c.lines, Marker(j))
      BY <2>1, <2>4 DEF Fits
    <3>2. Ends(m, j)
      BY <1>1, <2>2, StandAppend
    <3>3. QED  BY <2>1, <2>2, <3>1, <3>2 DEF Fits
  <2>6. /\ MarkersStand(d.lines) /\ SameEnd(Append(s, x), d.lines)
        /\ MarkerJobs(d.lines) = MarkerJobs(Append(s, x)) \cup d.hit
    <3>1. MarkersStand(m) /\ MarkerJobs(m) = MarkerJobs(c.lines) \cup {j}
      BY <1>1, <1>3, <2>2, <2>5, StandAppend
    <3>2. /\ MarkersStand(d.lines) /\ MarkerJobs(d.lines) = MarkerJobs(m)
          /\ ~Under(d.lines)
      <4> HIDE DEF m, y
      <4>1. /\ MarkersStand(Append(m, y)) <=> MarkersStand(m) /\ Fits(m, y)
            /\ Under(Append(m, y)) <=> IsMarker(y)
            /\ MarkerJobs(Append(m, y)) = MarkerJobs(m) \cup (IF IsMarker(y) THEN {y.of} ELSE {})
        BY <2>2, <2>4, StandAppend
      <4>2. QED  BY <2>2, <2>3, <2>5, <3>1, <4>1
    <3>3. /\ MarkerJobs(Append(s, x)) = MarkerJobs(s) /\ ~Under(Append(s, x))
          /\ \A k \in Names : ~Ends(Append(s, x), k)
      <4>1. \A k \in Names : x # Marker(k)
        BY <2>2, LineTypes
      <4>2. /\ Under(Append(s, x)) <=> IsMarker(x)
            /\ \A k : Ends(Append(s, x), k) <=> x = Marker(k)
            /\ MarkerJobs(Append(s, x)) = MarkerJobs(s) \cup (IF IsMarker(x) THEN {x.of} ELSE {})
        BY StandAppend
      <4>3. QED  BY <2>2, <4>1, <4>2
    <3>4. QED  BY <1>3, <2>3, <3>1, <3>2, <3>3 DEF SameEnd
  <2>7. U(s).open = FALSE
    BY <1>2, <2>4, OpenIsUnder DEF U, UncommentStates
  <2>8. U(Append(s, x)).lines = Append(U(s).lines, x) /\ U(Append(s, x)).open = FALSE
    BY <1>2, <2>2, <2>7 DEF UncommentLine, UncommentStates, Closed
  <2>9. U(m) = UncommentLine(U(c.lines), Marker(j), {}) /\ U(m) \in UncommentStates
    BY <1>1, <2>2, <2>4, UncommentWalks DEF U
  <2>10. U(m).lines = U(s).lines /\ U(m).open = TRUE
    BY <1>2, <1>3, <2>2, <2>7, <2>9 DEF UncommentLine, UncommentStates, Closed
  <2>11. U(d.lines) = UncommentLine(U(m), y, {})
    BY <2>2, <2>3, <2>4, UncommentWalks DEF U
  <2>12. U(d.lines).lines = Append(U(s).lines, x) /\ U(d.lines).open = FALSE
    BY <2>2, <2>9, <2>10, <2>11 DEF UncommentLine, UncommentStates
  <2>13. QED  BY <2>6, <2>8, <2>12 DEF CommentIsUndone, d, U
<1>6. QED  BY <1>4, <1>5

(* Commenting out and taking all back gives the user's own lines, and adds *)
(* the markers of the jobs that were hit.                                  *)
LEMMA CommentUndone ==
    ASSUME NEW wanted \in SUBSET Names, NEW s \in Seq(Lines), MarkersStand(s)
    PROVE  CommentIsUndone(s, wanted)
<1> DEFINE T == {c \in Seq(Lines) : MarkersStand(c) => CommentIsUndone(c, wanted)}
<1>1. <<>> \in T
  <2>1. Comment(<<>>, wanted) = CommentStart
    BY CommentWalks
  <2>2. CommentIsUndone(<<>>, wanted)
    BY <2>1, StandStart DEF CommentIsUndone, CommentStart, SameEnd
  <2>3. QED  BY <2>2
<1>2. ASSUME NEW c \in Seq(Lines), NEW x \in Lines, c \in T
      PROVE  Append(c, x) \in T
  <2>1. Append(c, x) \in Seq(Lines)
    OBVIOUS
  <2>2. MarkersStand(Append(c, x)) => MarkersStand(c) /\ Fits(c, x)
    BY StandAppend
  <2>3. QED  BY <1>2, <2>1, <2>2, CommentIsUndoneStep
<1>3. Seq(Lines) \subseteq T
  <2> HIDE DEF T
  <2>1. QED  BY <1>1, <1>2, AllSequences
<1>4. QED  BY <1>3

(* Uncomment takes the markers of its filter, and a second one takes the   *)
(* rest: together they do what one does without a filter.                  *)
UncommentComposes(s, only) ==
    LET part  == UncommentLines(s, only)
        after == UncommentLines(part.lines, {})
        whole == UncommentLines(s, {})
    IN  /\ MarkersStand(part.lines)
        /\ part.hit = {j \in MarkerJobs(s) : only = {} \/ j \in only}
        /\ MarkerJobs(part.lines) = MarkerJobs(s) \ part.hit
        /\ after.lines = whole.lines
        /\ whole.open <=> Under(s)
        /\ after.open <=> Under(part.lines)
        /\ IF part.open THEN Under(s) /\ ~Under(part.lines) ELSE SameEnd(s, part.lines)

(* What the next line adds to the law of Uncomment.                        *)
LEMMA UncommentComposesStep ==
    ASSUME NEW only, NEW s \in Seq(Lines), NEW x \in Lines,
           MarkersStand(s), Fits(s, x), UncommentComposes(s, only)
    PROVE  UncommentComposes(Append(s, x), only)
<1> DEFINE U(q) == UncommentLines(q, {})
           t == Append(s, x)
           a == UncommentLines(s, only)
           b == UncommentLines(t, only)
           chosen == only = {} \/ x.of \in only
<1>1. /\ a \in UncommentStates /\ a.lines \in Seq(Lines) /\ b = UncommentLine(a, x, only)
      /\ t \in Seq(Lines)
  <2>1. t \in Seq(Lines)
    OBVIOUS
  <2>2. a \in UncommentStates /\ b = UncommentLine(a, x, only)
    BY UncommentWalks
  <2> HIDE DEF a, b, t
  <2>3. QED  BY <2>1, <2>2 DEF UncommentStates
<1>2. /\ U(s) \in UncommentStates /\ U(a.lines) \in UncommentStates
      /\ U(t) = UncommentLine(U(s), x, {})
      /\ \A y \in Lines : U(Append(a.lines, y)) = UncommentLine(U(a.lines), y, {})
  BY <1>1, UncommentWalks
<1>3. /\ MarkersStand(a.lines)
      /\ a.hit = {j \in MarkerJobs(s) : only = {} \/ j \in only}
      /\ MarkerJobs(a.lines) = MarkerJobs(s) \ a.hit
      /\ U(a.lines).lines = U(s).lines
      /\ U(s).open <=> Under(s)
      /\ U(a.lines).open <=> Under(a.lines)
      /\ IF a.open THEN Under(s) /\ ~Under(a.lines) ELSE SameEnd(s, a.lines)
  BY DEF UncommentComposes
<1>4. /\ Under(t) <=> IsMarker(x)
      /\ \A j : Ends(t, j) <=> x = Marker(j)
      /\ MarkerJobs(t) = MarkerJobs(s) \cup (IF IsMarker(x) THEN {x.of} ELSE {})
  BY StandAppend
<1>5. \A y \in Lines :
        /\ MarkersStand(Append(a.lines, y)) <=> Fits(a.lines, y)
        /\ Under(Append(a.lines, y)) <=> IsMarker(y)
        /\ \A j : Ends(Append(a.lines, y), j) <=> y = Marker(j)
        /\ MarkerJobs(Append(a.lines, y)) = MarkerJobs(a.lines) \cup (IF IsMarker(y) THEN {y.of} ELSE {})
  BY <1>1, <1>3, StandAppend
<1> HIDE DEF U, a, b, t
<1>6. CASE a.open
  (* The line under a marker that went.                                    *)
  <2>1. PICK k \in Names : x = Hashed(1, Origin[k])
    BY <1>3, <1>6 DEF Fits
  <2> DEFINE y == Entry(Origin[k])
  <2>2. y \in Lines /\ Restored(x) = y /\ ~IsMarker(x) /\ ~IsMarker(y) /\ x.n = 1 /\ y.n = 0
    <3>1. y \in Lines /\ ~IsMarker(x) /\ ~IsMarker(y)
      BY <2>1, LineTypes DEF Entry
    <3>2. Restored(x) = y /\ x.n = 1 /\ y.n = 0
      BY <2>1 DEF Restored, Hashed, Entry
    <3>3. QED  BY <3>1, <3>2
  <2> HIDE DEF y
  <2>0. U(s).open = TRUE /\ U(a.lines).open = FALSE
    BY <1>2, <1>3, <1>6 DEF UncommentStates
  <2>3. b.lines = Append(a.lines, y) /\ b.open = FALSE /\ b.hit = a.hit
    BY <1>1, <1>6, <2>2 DEF UncommentLine, UncommentStates
  <2>4. U(t).lines = Append(U(s).lines, y) /\ U(t).open = FALSE
    <3>1. UncommentLine(U(s), x, {})
            = [U(s) EXCEPT !.lines = Append(@, Restored(x)), !.open = FALSE]
      BY <2>0, <2>2 DEF UncommentLine
    <3>2. QED  BY <1>2, <2>2, <3>1 DEF UncommentStates
  <2>5. U(b.lines).lines = Append(U(a.lines).lines, y) /\ U(b.lines).open = FALSE
    <3>1. U(b.lines) = UncommentLine(U(a.lines), y, {})
      BY <1>2, <2>2, <2>3
    <3>2. QED  BY <1>2, <2>2, <2>0, <3>1 DEF UncommentLine, UncommentStates, Closed
  <2>6. Fits(a.lines, y)
    BY <1>3, <1>6, <2>2 DEF Fits
  <2>7. MarkersStand(b.lines) /\ ~Under(b.lines) /\ MarkerJobs(b.lines) = MarkerJobs(a.lines)
    BY <1>5, <2>2, <2>3, <2>6
  <2>8. ~Under(t) /\ MarkerJobs(t) = MarkerJobs(s) /\ \A j \in Names : ~Ends(t, j)
    BY <1>4, <2>2, LineTypes
  <2>9. QED  BY <1>3, <2>3, <2>4, <2>5, <2>7, <2>8 DEF UncommentComposes, SameEnd, U, b, t
<1>7. CASE ~a.open /\ IsMarker(x) /\ chosen
  (* A marker that goes.                                                   *)
  <2>1. PICK k \in Names : x = Marker(k)
    BY <1>7 DEF Fits
  <2>2. ~Under(s)
    BY <1>7, LineTypes DEF Fits
  <2>3. b.lines = a.lines /\ b.open = TRUE /\ b.hit = a.hit \cup {x.of}
    BY <1>1, <1>7 DEF UncommentLine, UncommentStates, Closed
  <2>4. U(t).lines = U(s).lines /\ U(t).open = TRUE
    <3>1. U(s).open = FALSE
      BY <1>2, <1>3, <2>2 DEF UncommentStates
    <3>2. UncommentLine(U(s), x, {})
            = [lines |-> U(s).lines, open |-> TRUE, hit |-> U(s).hit \cup {x.of}]
      BY <1>7, <3>1 DEF UncommentLine, Closed
    <3>3. QED  BY <1>2, <3>2
  <2>5. ~Under(a.lines)
    BY <1>3, <1>7, <2>2 DEF SameEnd
  <2>6. b.hit = {j \in MarkerJobs(t) : only = {} \/ j \in only}
    BY <1>3, <1>4, <1>7, <2>3
  <2>7. MarkerJobs(b.lines) = MarkerJobs(t) \ b.hit
    BY <1>3, <1>4, <1>7, <2>3
  <2>8. QED  BY <1>3, <1>4, <1>7, <2>3, <2>4, <2>5, <2>6, <2>7 DEF UncommentComposes, U, b, t
<1>8. CASE ~a.open /\ ~(IsMarker(x) /\ chosen)
  (* A line that stays.                                                    *)
  <2>1. b.lines = Append(a.lines, x) /\ b.open = FALSE /\ b.hit = a.hit
    BY <1>1, <1>8 DEF UncommentLine, UncommentStates, Closed
  <2>2. SameEnd(s, a.lines) /\ U(a.lines).open = U(s).open
    BY <1>2, <1>3, <1>8 DEF SameEnd, UncommentStates
  <2>3. Fits(a.lines, x)
    BY <2>2 DEF Fits, SameEnd
  <2>4. MarkersStand(b.lines) /\ SameEnd(t, b.lines)
    BY <1>4, <1>5, <2>1, <2>3 DEF SameEnd
  <2>5. U(b.lines).lines = U(t).lines /\ U(b.lines).open = U(t).open
    BY <1>2, <1>3, <2>1, <2>2, UncommentLineReads
  <2>6. U(t).open <=> Under(t)
    <3>1. ASSUME Under(s)
          PROVE  x.n > 0 /\ ~IsMarker(x)
      BY <3>1, LineTypes DEF Fits, Hashed
    <3>2. U(s).open = Under(s) /\ U(s).open \in BOOLEAN
      BY <1>2, <1>3 DEF UncommentStates, Under
    <3>3. CASE U(s).open /\ x.n > 0
      BY <1>2, <1>4, <3>1, <3>2, <3>3 DEF UncommentLine, UncommentStates
    <3>4. CASE ~(U(s).open /\ x.n > 0)
      <4>1. UncommentLine(U(s), x, {}).open = IsMarker(x)
        BY <1>2, <3>4 DEF UncommentLine, UncommentStates, IsMarker
      <4>2. QED  BY <1>2, <1>4, <4>1
    <3>5. QED  BY <3>3, <3>4
  <2>7. b.hit = {j \in MarkerJobs(t) : only = {} \/ j \in only}
    BY <1>3, <1>4, <1>8, <2>1
  <2>8. MarkerJobs(b.lines) = MarkerJobs(t) \ b.hit
    BY <1>3, <1>4, <1>5, <1>8, <2>1
  <2>9. U(b.lines).open <=> Under(b.lines)
    BY <2>4, <2>5, <2>6 DEF SameEnd
  <2>10. QED  BY <2>1, <2>4, <2>5, <2>6, <2>7, <2>8, <2>9 DEF UncommentComposes, U, b, t
<1>9. QED  BY <1>6, <1>7, <1>8

(* Taking some back and then all is taking all back at once.               *)
LEMMA UncommentedTwice ==
    ASSUME NEW only, NEW s \in Seq(Lines), MarkersStand(s)
    PROVE  UncommentComposes(s, only)
<1> DEFINE T == {c \in Seq(Lines) : MarkersStand(c) => UncommentComposes(c, only)}
<1>1. <<>> \in T
  <2>1. \A o : UncommentLines(<<>>, o) = UncommentStart
    BY UncommentWalks
  <2>2. UncommentComposes(<<>>, only)
    BY <2>1, StandStart DEF UncommentComposes, UncommentStart, SameEnd
  <2>3. QED  BY <2>2
<1>2. ASSUME NEW c \in Seq(Lines), NEW x \in Lines, c \in T
      PROVE  Append(c, x) \in T
  <2>1. Append(c, x) \in Seq(Lines)
    OBVIOUS
  <2>2. MarkersStand(Append(c, x)) => MarkersStand(c) /\ Fits(c, x)
    BY StandAppend
  <2>3. QED  BY <1>2, <2>1, <2>2, UncommentComposesStep
<1>3. Seq(Lines) \subseteq T
  <2> HIDE DEF T
  <2>1. QED  BY <1>1, <1>2, AllSequences
<1>4. QED  BY <1>3

(* The laws of the whole crontab.                                          *)
LEMMA CommentLaw ==
    ASSUME NEW c \in Seq(Lines), Paired(c), NEW wanted \in SUBSET Names
    PROVE  LET r == Comment(c, wanted)
           IN  /\ r.lines \in Seq(Lines) /\ Paired(r.lines) /\ r.hit \in SUBSET Names
               /\ Uncomment(r.lines, {}).lines = Uncomment(c, {}).lines
               /\ MarkerJobs(r.lines) = MarkerJobs(c) \cup r.hit
<1> DEFINE r == Comment(c, wanted)
<1>1. r \in CommentStates
  BY CommentWalks
<1>2. CommentIsUndone(c, wanted)
  BY CommentUndone DEF Paired
<1>3. Paired(r.lines)
  BY <1>2 DEF CommentIsUndone, Paired, SameEnd
<1>4. Uncomment(r.lines, {}).lines = Uncomment(c, {}).lines
  BY <1>2 DEF CommentIsUndone, Uncomment, Closed
<1>5. QED  BY <1>1, <1>2, <1>3, <1>4 DEF CommentIsUndone, CommentStates

(* The same of Uncomment as the command calls it, on a content whose       *)
(* markers stand over what they mark.                                      *)
LEMMA UncommentLaw ==
    ASSUME NEW c \in Seq(Lines), Paired(c), NEW only
    PROVE  LET r == Uncomment(c, only)
           IN  /\ r.lines \in Seq(Lines) /\ Paired(r.lines) /\ r.hit \in SUBSET MarkerJobs(c)
               /\ Uncomment(r.lines, {}).lines = Uncomment(c, {}).lines
               /\ MarkerJobs(r.lines) = MarkerJobs(c) \ r.hit
<1> DEFINE p == UncommentLines(c, only)
           q == UncommentLines(p.lines, {})
           w == UncommentLines(c, {})
<1>1. p \in UncommentStates /\ p.lines \in Seq(Lines)
  BY UncommentWalks DEF UncommentStates
<1>2. /\ MarkersStand(p.lines) /\ p.hit \subseteq MarkerJobs(c)
      /\ MarkerJobs(p.lines) = MarkerJobs(c) \ p.hit
      /\ q.lines = w.lines
      /\ ~w.open /\ (q.open <=> Under(p.lines))
      /\ ~p.open /\ ~Under(p.lines)
  <2>1. UncommentComposes(c, only)
    BY UncommentedTwice DEF Paired
  <2>2. QED  BY <2>1 DEF UncommentComposes, Paired, SameEnd
<1> HIDE DEF p
<1>3. Uncomment(c, only).lines = p.lines /\ Uncomment(c, only).hit = p.hit
  BY <1>2 DEF Uncomment, Closed, p
<1>4. Uncomment(p.lines, {}).lines = q.lines
  BY <1>2 DEF Uncomment, Closed
<1>5. Uncomment(c, {}).lines = w.lines
  BY <1>2 DEF Uncomment, Closed
<1> HIDE DEF q, w
<1>6. QED  BY <1>1, <1>2, <1>3, <1>4, <1>5 DEF Paired

(* A line of the user's is no marker, and stays where it is.               *)
LEMMA EditLaw ==
    ASSUME NEW c \in Seq(Lines), Paired(c), NEW line \in Lines, ~IsMarker(line)
    PROVE  /\ Append(c, line) \in Seq(Lines) /\ Paired(Append(c, line))
           /\ Uncomment(Append(c, line), {}).lines = Append(Uncomment(c, {}).lines, line)
           /\ MarkerJobs(Append(c, line)) = MarkerJobs(c)
<1> DEFINE u == UncommentLines(c, {})
           v == UncommentLines(Append(c, line), {})
<1>1. u \in UncommentStates /\ v = UncommentLine(u, line, {})
  BY UncommentWalks
<1>2. u.open = FALSE
  BY <1>1, OpenIsUnder DEF Paired, UncommentStates
<1> HIDE DEF u, v
<1>3. v.lines = Append(u.lines, line) /\ v.open = FALSE
  BY <1>1, <1>2 DEF UncommentLine, UncommentStates, Closed
<1>4. /\ Uncomment(c, {}).lines = u.lines
      /\ Uncomment(Append(c, line), {}).lines = v.lines
  BY <1>2, <1>3 DEF Uncomment, Closed, u, v
<1>5. /\ MarkersStand(Append(c, line)) <=> MarkersStand(c) /\ Fits(c, line)
      /\ Under(Append(c, line)) <=> IsMarker(line)
      /\ MarkerJobs(Append(c, line)) = MarkerJobs(c) \cup (IF IsMarker(line) THEN {line.of} ELSE {})
  BY StandAppend
<1>6. Fits(c, line)
  BY DEF Fits, Paired
<1>7. QED  BY <1>3, <1>4, <1>5, <1>6 DEF Paired

(* Markers name imported jobs.                                             *)
LEMMA MarkerJobsAreNames ==
    ASSUME NEW c \in Seq(Lines), Paired(c)
    PROVE  MarkerJobs(c) \in SUBSET Names
<1>1. ASSUME NEW i \in DOMAIN c, IsMarker(c[i])
      PROVE  c[i].of \in Names
  <2>1. PICK j \in Names : c[i] = Marker(j)
    BY <1>1 DEF Paired, MarkersStand, Above
  <2>2. QED  BY <2>1, LineTypes
<1>2. QED  BY <1>1 DEF MarkerJobs

-----------------------------------------------------------------------------
(* Cutover: the inductive invariant                                        *)

(* A command in hand: what it read and what it will write keep markers     *)
(* over what they mark, give the same crontab back, and differ in markers  *)
(* by what it will record.                                                 *)
Holding(o) == task[o].pc \in {"locked", "backed", "written"}

Changed(t) ==
    CASE t.kind = "cutover"  -> MarkerJobs(t.read) \cup t.hit
      [] t.kind = "rollback" -> MarkerJobs(t.read) \ t.hit
      [] OTHER               -> MarkerJobs(t.result)

(* A whole-file restore turns lines no row of its own will name.           *)
Sound(t) ==
    /\ Paired(t.read) /\ Paired(t.result)
    /\ t.pc # "idle" => t.own = Uncomment(t.read, {}).lines
    /\ t.pc = "backed" =>
          /\ t.kind # "restore" => Uncomment(t.result, {}).lines = t.own
          /\ MarkerJobs(t.result) = Changed(t)
          /\ t.kind \in {"cutover", "rollback"} \/ (t.kind = "restore" /\ t.hit = {})

ContentsArePaired == Paired(tab) /\ \A b \in backups : Paired(b)

CommandsAreSound == \A o \in Operators : Sound(task[o]) /\ (Holding(o) => holder = o)

(* What the trail will be wrong about once the rows of a write are in.     *)
RowsAreOnTheWay ==
    \A o \in Operators : task[o].pc = "written" /\ ~strayed =>
        SymDiff(Recorded(o), MarkerJobs(tab)) = turned \ task[o].hit

CutoverInv ==
    /\ CutoverTypes /\ ContentsArePaired /\ CommandsAreSound
    /\ RollbackRestores /\ TrailTellsTheTruth /\ RowsAreOnTheWay

(* The empty crontab keeps its markers in place.                           *)
LEMMA NoContent == Paired(<<>>)
BY StandStart DEF Paired

(* A command that ends leaves nothing behind.                              *)
LEMMA IdleIsSound == Idle \in Tasks /\ Sound(Idle) /\ Idle.pc = "idle"
<1>1. <<>> \in Seq(Lines)
  OBVIOUS
<1>2. Idle \in Tasks
  BY <1>1 DEF Idle, Tasks
<1>3. QED  BY <1>2, NoContent DEF Idle, Sound

(* What a step of one command does beside its own record: the others keep  *)
(* theirs, and the lock if they have it.                                   *)
ActsAlone(o) ==
    /\ \A p \in Operators \ {o} : task'[p] = task[p]
    /\ \/ UNCHANGED holder
       \/ holder' = IF holder = o THEN NoOne ELSE holder
       \/ holder = NoOne /\ holder' = o

(* The part of the invariant on commands is kept by a step that leaves its *)
(* own command sound and with the lock it needs.                           *)
LEMMA SoundStep ==
    ASSUME CutoverInv, NEW o \in Operators, ActsAlone(o), Sound(task'[o]),
           task'[o].pc \in {"locked", "backed", "written"} => holder' = o
    PROVE  CommandsAreSound'
<1> SUFFICES ASSUME NEW p \in Operators
             PROVE  Sound(task'[p]) /\ (Holding(p)' => holder' = p)
  BY DEF CommandsAreSound, Sound, Changed, Paired, Uncomment
<1>1. CASE p = o
  BY <1>1 DEF Holding
<1>2. CASE p # o
  <2>1. task'[p] = task[p]
    BY <1>2 DEF ActsAlone
  <2>2. Sound(task[p]) /\ (Holding(p) => holder = p)
    BY DEF CutoverInv, CommandsAreSound
  <2>3. NoOne # p
    BY CommandsAssumption
  <2>4. Holding(p) => holder' = p
    BY <1>2, <2>2, <2>3 DEF ActsAlone
  <2>5. QED  BY <2>1, <2>2, <2>4 DEF Holding
<1>3. QED  BY <1>1, <1>2

(* A step that writes neither the crontab nor a row, of a command that has *)
(* no row to write, keeps the trail.                                       *)
LEMMA TrailStep ==
    ASSUME CutoverInv, NEW o \in Operators, ActsAlone(o), UNCHANGED <<tab, trail, turned>>, strayed' = strayed,
           task[o].pc # "written", task'[o].pc # "written"
    PROVE  TrailTellsTheTruth' /\ RowsAreOnTheWay'
<1>1. \A p \in Operators : (task'[p].pc = "written") <=> (task[p].pc = "written")
  BY DEF ActsAlone
<1>2. MarkerJobs(tab)' = MarkerJobs(tab)
  BY DEF MarkerJobs
<1>3. TrailTellsTheTruth'
  BY <1>1, <1>2 DEF CutoverInv, TrailTellsTheTruth, NoRowsToCome, SymDiff
<1>4. ASSUME NEW p \in Operators, task'[p].pc = "written", ~strayed
      PROVE  SymDiff(Recorded(p), MarkerJobs(tab))' = (turned \ task[p].hit)'
  <2>1. p # o /\ task'[p] = task[p] /\ task[p].pc = "written"
    BY <1>1, <1>4 DEF ActsAlone
  <2>2. Recorded(p)' = Recorded(p)
    BY <2>1 DEF Recorded, MarkerJobs
  <2>3. QED  BY <1>2, <1>4, <2>1, <2>2 DEF CutoverInv, RowsAreOnTheWay, SymDiff
<1>5. QED  BY <1>3, <1>4 DEF RowsAreOnTheWay

(* A command that leaves.                                                  *)
LEMMA Leaves ==
    ASSUME CutoverInv, NEW o \in Operators, Leave(o)
    PROVE  /\ task' \in [Operators -> Tasks] /\ holder' \in Operators \cup {NoOne}
           /\ ActsAlone(o) /\ task'[o] = Idle /\ CommandsAreSound'
<1>1. task \in [Operators -> Tasks] /\ holder \in Operators \cup {NoOne}
  BY DEF CutoverInv, CutoverTypes
<1>2. task' \in [Operators -> Tasks] /\ task'[o] = Idle
  BY <1>1, IdleIsSound DEF Leave
<1>3. ActsAlone(o)
  BY <1>1 DEF ActsAlone, Leave
<1>4. CommandsAreSound'
  BY <1>2, <1>3, SoundStep, IdleIsSound
<1>5. QED  BY <1>1, <1>2, <1>3, <1>4 DEF Leave

-----------------------------------------------------------------------------

(* The first state.                                                        *)
LEMMA CutoverInvInit == CutoverInit => CutoverInv
<1> SUFFICES ASSUME CutoverInit PROVE CutoverInv
  OBVIOUS
<1>1. tab \in Seq(Lines) /\ MarkerJobs(tab) = {}
  BY ContentsAssumption DEF CutoverInit
<1>2. Paired(tab)
  <2>1. \A i \in DOMAIN tab : ~IsMarker(tab[i])
    BY <1>1 DEF MarkerJobs
  <2>2. tab # <<>> => Len(tab) \in DOMAIN tab
    BY <1>1
  <2>3. QED  BY <2>1, <2>2 DEF Paired, MarkersStand, Under
<1>3. CutoverTypes
  <2>1. task \in [Operators -> Tasks]
    BY IdleIsSound DEF CutoverInit
  <2>2. 0 \in 0..MaxCommands /\ 0 \in 0..MaxEdits
    BY CommandsAssumption
  <2>3. {tab, base} \subseteq Seq(Lines)
    BY <1>1 DEF CutoverInit
  <2>4. QED  BY <2>1, <2>2, <2>3 DEF CutoverInit, CutoverTypes
<1>4. RollbackRestores
  <2>1. Uncomment(tab, {}).lines = tab
    BY <1>1, NothingToRestore
  <2>2. QED  BY <2>1 DEF CutoverInit, RollbackRestores
<1>5. CommandsAreSound
  <2>1. ASSUME NEW o \in Operators
        PROVE  Sound(task[o]) /\ ~Holding(o)
    <3>1. task[o] = Idle
      BY DEF CutoverInit
    <3>2. Sound(task[o]) /\ task[o].pc = "idle"
      BY <3>1, IdleIsSound
    <3>3. QED  BY <3>2 DEF Holding
  <2>2. QED  BY <2>1 DEF CommandsAreSound
<1>6. QED
  BY <1>1, <1>2, <1>3, <1>4, <1>5, IdleIsSound
  DEF CutoverInv, ContentsArePaired, CutoverInit, TrailTellsTheTruth, NoRowsToCome, RowsAreOnTheWay, SymDiff

(* A step that writes neither the crontab nor a row, and at most a backup. *)
LEMMA QuietStep ==
    ASSUME CutoverInv, NEW o \in Operators, ActsAlone(o), UNCHANGED tabVars,
           task' \in [Operators -> Tasks], holder' \in Operators \cup {NoOne},
           CommandsAreSound', task[o].pc # "written", task'[o].pc # "written",
           UNCHANGED backups \/ backups' = backups \cup {task[o].read},
           UNCHANGED <<proved, edits>>, commands' \in 0..MaxCommands
    PROVE  CutoverInv'
<1>1. CutoverTypes'
  <2>1. task[o].read \in Seq(Lines)
    BY DEF CutoverInv, CutoverTypes, Tasks
  <2>2. QED  BY <2>1 DEF CutoverInv, CutoverTypes, tabVars
<1>2. ContentsArePaired'
  <2>1. Paired(task[o].read)
    BY DEF CutoverInv, CommandsAreSound, Sound
  <2>2. Paired(tab') /\ \A b \in backups' : Paired(b)
    BY <2>1 DEF CutoverInv, ContentsArePaired, tabVars
  <2>3. QED  BY <2>2 DEF ContentsArePaired
<1>3. RollbackRestores'
  BY DEF CutoverInv, RollbackRestores, tabVars
<1>4. TrailTellsTheTruth' /\ RowsAreOnTheWay'
  BY TrailStep DEF tabVars
<1>5. QED  BY <1>1, <1>2, <1>3, <1>4 DEF CutoverInv

-----------------------------------------------------------------------------
(* The steps of a command.                                                 *)

(* The command line is read, and the crontab with it.                      *)
LEMMA ReadStep ==
    ASSUME CutoverInv, NEW o \in Operators, NEW kind \in {"cutover", "dryrun", "rollback", "restore"},
           NEW force \in BOOLEAN, NEW only \in {{}} \cup {{j} : j \in Names},
           ReadCutoverSource(o, kind, only, force)
    PROVE  CutoverInv'
<1> DEFINE t == [Idle EXCEPT !.pc = "read", !.kind = kind, !.only = only,
                             !.force = force, !.read = Read, !.own = base]
<1>1. task \in [Operators -> Tasks] /\ tab \in Seq(Lines) /\ base \in Seq(Lines)
  BY DEF CutoverInv, CutoverTypes
<1>2. t \in Tasks
  <2>1. only \in SUBSET Names /\ <<>> \in Seq(Lines)
    OBVIOUS
  <2>2. QED  BY <1>1, <2>1 DEF Idle, Tasks, Read
<1>3. t.pc = "read" /\ t.read = tab /\ t.own = base /\ t.result = <<>>
  BY DEF Idle, Read
<1>4. Sound(t)
  BY <1>3, NoContent DEF Sound, CutoverInv, ContentsArePaired, RollbackRestores
<1> HIDE DEF t
<1>5. task' = [task EXCEPT ![o] = t] /\ task[o].pc = "idle"
  BY DEF ReadCutoverSource, t
<1>6. task' \in [Operators -> Tasks] /\ task'[o] = t /\ ActsAlone(o)
  BY <1>1, <1>2, <1>5 DEF ActsAlone, ReadCutoverSource
<1>7. CommandsAreSound'
  BY <1>3, <1>4, <1>6, SoundStep
<1>8. commands' \in 0..MaxCommands /\ holder' \in Operators \cup {NoOne}
  BY CommandsAssumption DEF ReadCutoverSource, CutoverInv, CutoverTypes
<1>9. QED
  BY <1>3, <1>5, <1>6, <1>7, <1>8, QuietStep DEF ReadCutoverSource

(* A command whose place alone changes.                                    *)
LEMMA GoesOn ==
    ASSUME CutoverInv, NEW o \in Operators, NEW place \in {"locked", "written"}, Go(o, place)
    PROVE  /\ task' \in [Operators -> Tasks] /\ task'[o] = [task[o] EXCEPT !.pc = place]
           /\ \A p \in Operators \ {o} : task'[p] = task[p]
           /\ task[o].pc # "idle" => Sound(task'[o])
<1>1. task \in [Operators -> Tasks] /\ Sound(task[o])
  BY DEF CutoverInv, CutoverTypes, CommandsAreSound
<1>2. [task[o] EXCEPT !.pc = place] \in Tasks
  BY <1>1 DEF Tasks
<1>3. /\ task' \in [Operators -> Tasks] /\ task'[o] = [task[o] EXCEPT !.pc = place]
      /\ \A p \in Operators \ {o} : task'[p] = task[p]
  BY <1>1, <1>2 DEF Go
<1>4. task[o].pc # "idle" => Sound(task'[o])
  <2>1. task[o] \in Tasks
    BY <1>1
  <2>2. /\ task'[o].pc = place /\ task'[o].read = task[o].read /\ task'[o].own = task[o].own
        /\ task'[o].result = task[o].result
    BY <1>3, <2>1 DEF Tasks
  <2>3. QED  BY <1>1, <2>2 DEF Sound
<1>5. QED  BY <1>3, <1>4

(* Taking the lock, and loading what the state says of the jobs.           *)
LEMMA LockStep ==
    ASSUME CutoverInv, NEW o \in Operators, LoadCutoverStore(o)
    PROVE  CutoverInv'
<1>1. CASE holder = NoOne /\ holder' = o /\ Go(o, "locked")
  <2>1. /\ task' \in [Operators -> Tasks] /\ task'[o].pc = "locked" /\ Sound(task'[o])
        /\ \A p \in Operators \ {o} : task'[p] = task[p]
    BY <1>1, GoesOn DEF LoadCutoverStore, CutoverInv, CutoverTypes, Tasks
  <2>2. ActsAlone(o)
    BY <1>1, <2>1 DEF ActsAlone
  <2>3. CommandsAreSound'
    BY <1>1, <2>1, <2>2, SoundStep
  <2>4. commands' \in 0..MaxCommands /\ task[o].pc # "written"
    BY DEF LoadCutoverStore, CutoverInv, CutoverTypes
  <2>5. QED  BY <1>1, <2>1, <2>2, <2>3, <2>4, QuietStep DEF LoadCutoverStore
<1>2. CASE Leave(o)
  <2>1. commands' \in 0..MaxCommands /\ task[o].pc # "written" /\ Idle.pc # "written"
    BY IdleIsSound DEF LoadCutoverStore, CutoverInv, CutoverTypes
  <2>2. QED  BY <1>2, <2>1, Leaves, QuietStep DEF LoadCutoverStore
<1>3. QED  BY <1>1, <1>2 DEF LoadCutoverStore

(* A command leaves before it has written.                                 *)
LEMMA LeaveStep ==
    ASSUME CutoverInv, NEW o \in Operators, Leave(o), task[o].pc # "written", UNCHANGED tabVars,
           UNCHANGED backups \/ Keep(o), UNCHANGED <<proved, commands, edits>>
    PROVE  CutoverInv'
<1>1. commands' \in 0..MaxCommands /\ Idle.pc # "written"
  BY IdleIsSound DEF CutoverInv, CutoverTypes
<1>2. QED  BY <1>1, Leaves, QuietStep DEF Keep

(* A command settles on what it will write.                                *)
LEMMA PreparedStep ==
    ASSUME CutoverInv, NEW o \in Operators, NEW r, Prepared(o, r), task[o].pc = "locked",
           r.lines \in Seq(Lines), r.hit \in SUBSET Names, Paired(r.lines),
           task[o].kind # "restore" => Uncomment(r.lines, {}).lines = task[o].own,
           CASE task[o].kind = "cutover"  -> MarkerJobs(r.lines) = MarkerJobs(task[o].read) \cup r.hit
             [] task[o].kind = "rollback" -> MarkerJobs(r.lines) = MarkerJobs(task[o].read) \ r.hit
             [] OTHER -> task[o].kind = "restore" /\ r.hit = {},
           Keep(o), UNCHANGED <<tabVars, holder, proved, commands, edits>>
    PROVE  CutoverInv'
<1> DEFINE t == [task[o] EXCEPT !.pc = "backed", !.result = r.lines, !.hit = r.hit]
<1>1. task \in [Operators -> Tasks] /\ task[o] \in Tasks /\ Sound(task[o]) /\ holder = o
  BY DEF CutoverInv, CutoverTypes, CommandsAreSound, Holding
<1>2. /\ t.pc = "backed" /\ t.result = r.lines /\ t.hit = r.hit /\ t.kind = task[o].kind
      /\ t.read = task[o].read /\ t.own = task[o].own /\ t \in Tasks
  BY <1>1 DEF Tasks
<1>3. task' = [task EXCEPT ![o] = t]
  BY DEF Prepared
<1> HIDE DEF t
<1>4. Sound(t)
  <2>1. MarkerJobs(t.result) = Changed(t)
    BY <1>2 DEF Changed
  <2>2. t.kind \in {"cutover", "rollback"} \/ (t.kind = "restore" /\ t.hit = {})
    BY <1>2
  <2>3. QED  BY <1>1, <1>2, <2>1, <2>2 DEF Sound
<1>5. task' \in [Operators -> Tasks] /\ task'[o] = t /\ ActsAlone(o)
  BY <1>1, <1>2, <1>3 DEF ActsAlone
<1>6. CommandsAreSound'
  BY <1>1, <1>2, <1>4, <1>5, SoundStep
<1>7. commands' \in 0..MaxCommands /\ holder' \in Operators \cup {NoOne}
  BY DEF CutoverInv, CutoverTypes
<1>8. QED  BY <1>2, <1>5, <1>6, <1>7, QuietStep DEF Keep

(* The new content of a cutover ...                                        *)
LEMMA ApplyStep ==
    ASSUME CutoverInv, NEW o \in Operators, RunCutoverApply(o)
    PROVE  CutoverInv'
<1> DEFINE r == Comment(task[o].read, ReadyJobs(o))
<1>1. /\ task[o] \in Tasks /\ task[o].read \in Seq(Lines) /\ Paired(task[o].read)
      /\ task[o].pc = "locked" /\ task[o].kind = "cutover"
      /\ task[o].own = Uncomment(task[o].read, {}).lines
  BY DEF CutoverInv, CutoverTypes, CommandsAreSound, Sound, RunCutoverApply, Tasks
<1>2. ReadyJobs(o) \in SUBSET Names
  BY <1>1 DEF ReadyJobs, Wanted, Tasks
<1>3. /\ r.lines \in Seq(Lines) /\ Paired(r.lines) /\ r.hit \in SUBSET Names
      /\ Uncomment(r.lines, {}).lines = task[o].own
      /\ MarkerJobs(r.lines) = MarkerJobs(task[o].read) \cup r.hit
  BY <1>1, <1>2, CommentLaw
<1>4. CASE r.hit = {}
  BY <1>1, <1>4, LeaveStep DEF RunCutoverApply
<1>5. CASE r.hit # {}
  <2>1. Keep(o) /\ Prepared(o, r) /\ UNCHANGED <<tabVars, holder, proved, commands, edits>>
    BY <1>5 DEF RunCutoverApply
  <2> HIDE DEF r
  <2>2. QED  BY <1>1, <1>3, <2>1, PreparedStep
<1>6. QED  BY <1>4, <1>5

(* ... of a rollback ...                                                   *)
LEMMA RollbackStep ==
    ASSUME CutoverInv, NEW o \in Operators, RunCutoverRollback(o)
    PROVE  CutoverInv'
<1> DEFINE r == Uncomment(task[o].read, task[o].only)
<1>1. /\ task[o] \in Tasks /\ task[o].read \in Seq(Lines) /\ Paired(task[o].read)
      /\ task[o].pc = "locked" /\ task[o].kind = "rollback" /\ Keep(o)
      /\ task[o].own = Uncomment(task[o].read, {}).lines
  BY DEF CutoverInv, CutoverTypes, CommandsAreSound, Sound, RunCutoverRollback, Tasks
<1>2. /\ r.lines \in Seq(Lines) /\ Paired(r.lines) /\ r.hit \in SUBSET Names
      /\ Uncomment(r.lines, {}).lines = task[o].own
      /\ MarkerJobs(r.lines) = MarkerJobs(task[o].read) \ r.hit
  BY <1>1, UncommentLaw, MarkerJobsAreNames
<1>3. CASE r.hit = {}
  BY <1>1, <1>3, LeaveStep DEF RunCutoverRollback
<1>4. CASE r.hit # {}
  <2>1. Prepared(o, r) /\ UNCHANGED <<tabVars, holder, proved, commands, edits>>
    BY <1>4 DEF RunCutoverRollback
  <2> HIDE DEF r
  <2>2. QED  BY <1>1, <1>2, <2>1, PreparedStep
<1>5. QED  BY <1>3, <1>4

(* ... and of a backup brought back.                                       *)
LEMMA RestoreStep ==
    ASSUME CutoverInv, NEW o \in Operators, NEW b \in backups, RestoreBackup(o, b)
    PROVE  CutoverInv'
<1> DEFINE r == [lines |-> b, hit |-> {}]
<1>1. task[o].pc = "locked" /\ task[o].kind = "restore" /\ Keep(o) /\ Prepared(o, r)
  BY DEF RestoreBackup
<1>2. r.lines \in Seq(Lines) /\ Paired(r.lines) /\ r.hit \in SUBSET Names /\ r.hit = {}
  BY DEF CutoverInv, CutoverTypes, ContentsArePaired
<1>3. UNCHANGED <<tabVars, holder, proved, commands, edits>>
  BY DEF RestoreBackup
<1> HIDE DEF r
<1>4. QED  BY <1>1, <1>2, <1>3, PreparedStep

(* Only the holder of the lock is at its write or its rows.                *)
LEMMA OneWrites ==
    ASSUME CutoverInv, NEW o \in Operators, Holding(o)
    PROVE  holder = o /\ \A p \in Operators \ {o} : ~Holding(p)
BY DEF CutoverInv, CommandsAreSound

(* The crontab is written whatever it holds by now, or the write is        *)
(* refused.                                                                *)
LEMMA WriteStep ==
    ASSUME CutoverInv, NEW o \in Operators, WriteCrontab(o)
    PROVE  CutoverInv'
<1>1. CASE Leave(o) /\ UNCHANGED <<tab, base, turned, strayed>>
  BY <1>1, LeaveStep DEF WriteCrontab, tabVars
<1>2. CASE /\ Write(task[o].result) /\ Go(o, "written") /\ UNCHANGED holder
           /\ strayed' = (strayed \/ tab # task[o].read)
           /\ base' = IF task[o].kind = "restore" THEN Uncomment(task[o].result, {}).lines
                      ELSE task[o].own
           /\ turned' = IF task[o].kind = "restore"
                        THEN SymDiff(turned, SymDiff(MarkerJobs(tab), MarkerJobs(task[o].result)))
                        ELSE turned
  <2>1. /\ task[o] \in Tasks /\ Sound(task[o]) /\ task[o].pc = "backed" /\ Holding(o)
        /\ task[o].result \in Seq(Lines) /\ task[o].own \in Seq(Lines) /\ Paired(task[o].result)
    BY DEF CutoverInv, CutoverTypes, CommandsAreSound, WriteCrontab, Tasks, Sound, Holding
  <2>2. holder = o /\ \A p \in Operators \ {o} : ~Holding(p)
    BY <2>1, OneWrites
  <2>3. /\ task' \in [Operators -> Tasks] /\ task'[o] = [task[o] EXCEPT !.pc = "written"]
        /\ Sound(task'[o]) /\ \A p \in Operators \ {o} : task'[p] = task[p]
    BY <1>2, <2>1, GoesOn
  <2>4. CommandsAreSound'
    BY <1>2, <2>2, <2>3, SoundStep DEF ActsAlone
  <2>5. tab' = task[o].result /\ base' = Uncomment(tab', {}).lines /\ base' \in Seq(Lines)
    BY <1>2, <2>1, UncommentLaw DEF Sound, Write
  <2>6. RollbackRestores'
    BY <2>5 DEF RollbackRestores
  <2>7. CutoverTypes'
    <3>1. MarkerJobs(tab) \subseteq Names /\ MarkerJobs(task[o].result) \subseteq Names
      BY <2>1, MarkerJobsAreNames DEF CutoverInv, CutoverTypes, ContentsArePaired
    <3>2. turned' \subseteq Names
      BY <1>2, <3>1 DEF CutoverInv, CutoverTypes, SymDiff
    <3>3. QED  BY <1>2, <2>1, <2>3, <2>5, <3>2 DEF CutoverInv, CutoverTypes, WriteCrontab
  <2>8. ContentsArePaired'
    <3>1. Paired(tab') /\ \A b \in backups' : Paired(b)
      BY <2>1, <2>5 DEF CutoverInv, ContentsArePaired, WriteCrontab
    <3>2. QED  BY <3>1 DEF ContentsArePaired
  <2>9. task'[o].pc = "written" /\ task'[o].kind = task[o].kind /\ task'[o].hit = task[o].hit
        /\ task'[o].result = task[o].result
    BY <2>1, <2>3 DEF Tasks
  <2>10. TrailTellsTheTruth'
    BY <2>9 DEF TrailTellsTheTruth, NoRowsToCome
  <2>11. ASSUME ~strayed'
         PROVE  SymDiff(Recorded(o), MarkerJobs(tab))' = (turned \ task[o].hit)'
    <3>1. ~strayed /\ tab = task[o].read
      BY <1>2, <2>11 DEF CutoverInv, CutoverTypes
    <3>2. SymDiff(trail, MarkerJobs(task[o].read)) = turned /\ trail' = trail
      BY <2>1, <2>2, <3>1 DEF CutoverInv, TrailTellsTheTruth, NoRowsToCome, Holding, WriteCrontab
    <3>3. /\ MarkerJobs(task[o].result) = Changed(task[o])
          /\ task[o].kind \in {"cutover", "rollback"} \/ (task[o].kind = "restore" /\ task[o].hit = {})
      BY <2>1 DEF Sound
    <3>4. /\ Recorded(o)' = CASE task[o].kind = "cutover"  -> trail \cup task[o].hit
                              [] task[o].kind = "rollback" -> trail \ task[o].hit
                              [] OTHER                     -> trail
          /\ (turned \ task[o].hit)' = turned' \ task[o].hit
      BY <2>9, <3>2 DEF Recorded
    <3>5. MarkerJobs(tab)' = MarkerJobs(task[o].result)
      BY <2>5
    <3>6. SymDiff(Recorded(o), MarkerJobs(tab))' = SymDiff(Recorded(o)', MarkerJobs(task[o].result))
      BY <3>5 DEF SymDiff
    <3> DEFINE R == MarkerJobs(task[o].read)
               M == MarkerJobs(task[o].result)
               H == task[o].hit
    <3>7. SymDiff(trail, R) = turned
      BY <3>2
    <3>8. CASE task[o].kind = "cutover"
      <4>1. M = R \cup H /\ turned' = turned /\ Recorded(o)' = trail \cup H
        BY <1>2, <3>3, <3>4, <3>8 DEF Changed
      <4> HIDE DEF R, M, H
      <4>2. SymDiff(trail \cup H, R \cup H) = turned \ H
        BY <3>7 DEF SymDiff
      <4>3. QED  BY <3>4, <3>6, <4>1, <4>2 DEF M, H
    <3>9. CASE task[o].kind = "rollback"
      <4>1. M = R \ H /\ turned' = turned /\ Recorded(o)' = trail \ H
        BY <1>2, <3>3, <3>4, <3>9 DEF Changed
      <4> HIDE DEF R, M, H
      <4>2. SymDiff(trail \ H, R \ H) = turned \ H
        BY <3>7 DEF SymDiff
      <4>3. QED  BY <3>4, <3>6, <4>1, <4>2 DEF M, H
    <3>10. CASE task[o].kind = "restore"
      <4>1. H = {} /\ turned' = SymDiff(turned, SymDiff(R, M)) /\ Recorded(o)' = trail
        BY <1>2, <3>1, <3>3, <3>4, <3>10
      <4> HIDE DEF R, M, H
      <4>2. SymDiff(trail, M) = turned' \ H
        BY <3>7, <4>1 DEF SymDiff
      <4>3. QED  BY <3>4, <3>6, <4>1, <4>2 DEF M, H
    <3>11. QED  BY <3>3, <3>8, <3>9, <3>10
  <2>12. RowsAreOnTheWay'
    <3>1. \A p \in Operators \ {o} : task'[p].pc # "written"
      BY <2>2, <2>3 DEF Holding
    <3>2. QED  BY <2>11, <3>1 DEF RowsAreOnTheWay
  <2>13. QED  BY <2>4, <2>6, <2>7, <2>8, <2>10, <2>12 DEF CutoverInv
<1>3. QED  BY <1>1, <1>2 DEF WriteCrontab

(* The rows commit and the trail names what is marked, or they are lost    *)
(* and nothing more is claimed.                                            *)
LEMMA RecordStep ==
    ASSUME CutoverInv, NEW o \in Operators, RecordCutoverEvents(o)
    PROVE  CutoverInv'
<1>1. /\ task' \in [Operators -> Tasks] /\ holder' \in Operators \cup {NoOne}
      /\ ActsAlone(o) /\ task'[o] = Idle /\ CommandsAreSound'
  BY Leaves DEF RecordCutoverEvents
<1>2. task[o] \in Tasks /\ task[o].pc = "written" /\ tab \in Seq(Lines)
  BY DEF CutoverInv, CutoverTypes, RecordCutoverEvents
<1>3. \A p \in Operators : task'[p].pc # "written"
  <2>1. \A p \in Operators \ {o} : task[p].pc # "written"
    BY <1>2, OneWrites DEF Holding
  <2>2. QED  BY <1>1, <2>1, IdleIsSound DEF ActsAlone
<1>4. /\ trail' \subseteq Names /\ turned' \subseteq Names /\ strayed' \in BOOLEAN
      /\ ~strayed' => SymDiff(trail', MarkerJobs(tab)) = turned'
  <2>1. CASE strayed' = TRUE /\ UNCHANGED <<trail, turned>>
    BY <2>1 DEF CutoverInv, CutoverTypes
  <2>2. CASE trail' = Recorded(o) /\ turned' = turned \ task[o].hit /\ UNCHANGED strayed
    <3>1. Recorded(o) \subseteq Names
      <4>1. task[o].hit \subseteq Names
        BY <1>2 DEF Tasks
      <4>2. trail \subseteq Names
        BY DEF CutoverInv, CutoverTypes
      <4>3. QED  BY <4>1, <4>2 DEF Recorded
    <3>2. ~strayed => SymDiff(Recorded(o), MarkerJobs(tab)) = turned \ task[o].hit
      BY <1>2 DEF CutoverInv, RowsAreOnTheWay
    <3>3. QED  BY <2>2, <3>1, <3>2 DEF CutoverInv, CutoverTypes
  <2>3. QED  BY <2>1, <2>2 DEF RecordCutoverEvents
<1>5. CutoverTypes'
  BY <1>1, <1>4 DEF CutoverInv, CutoverTypes, RecordCutoverEvents
<1>6. ContentsArePaired' /\ RollbackRestores'
  BY DEF CutoverInv, ContentsArePaired, RollbackRestores, RecordCutoverEvents
<1>7. MarkerJobs(tab)' = MarkerJobs(tab)
  BY DEF RecordCutoverEvents, MarkerJobs
<1>8. TrailTellsTheTruth' /\ RowsAreOnTheWay'
  BY <1>3, <1>4, <1>7 DEF TrailTellsTheTruth, RowsAreOnTheWay, SymDiff
<1>9. QED  BY <1>1, <1>5, <1>6, <1>8 DEF CutoverInv

(* A command that dies before its write leaves as one that gives up; after *)
(* it, its rows are lost.                                                  *)
LEMMA CrashStep ==
    ASSUME CutoverInv, NEW o \in Operators, Crash(o)
    PROVE  CutoverInv'
<1>1. CASE task[o].pc # "written"
  <2>1. strayed' = strayed
    BY <1>1 DEF Crash, CutoverInv, CutoverTypes
  <2>2. QED  BY <1>1, <2>1, LeaveStep DEF Crash, tabVars
<1>2. CASE task[o].pc = "written"
  <2>1. RecordCutoverEvents(o)
    BY <1>2 DEF Crash, RecordCutoverEvents
  <2>2. QED  BY <2>1, RecordStep
<1>3. QED  BY <1>1, <1>2

(* The user's line lands beneath what is there, whether a command is in    *)
(* hand or not.                                                            *)
LEMMA EditStep ==
    ASSUME CutoverInv, NEW line \in Extra, EditCrontab(line)
    PROVE  CutoverInv'
<1>1. /\ line \in Lines /\ ~IsMarker(line) /\ tab \in Seq(Lines) /\ base \in Seq(Lines)
      /\ Paired(tab) /\ Uncomment(tab, {}).lines = base
  BY ContentsAssumption DEF CutoverInv, CutoverTypes, ContentsArePaired, RollbackRestores
<1>2. /\ tab' \in Seq(Lines) /\ base' \in Seq(Lines) /\ Paired(tab')
      /\ Uncomment(tab', {}).lines = base' /\ MarkerJobs(tab') = MarkerJobs(tab)
  BY <1>1, EditLaw DEF EditCrontab
<1>3. CutoverTypes'
  BY <1>2, CommandsAssumption DEF CutoverInv, CutoverTypes, EditCrontab
<1>4. ContentsArePaired' /\ RollbackRestores'
  BY <1>2 DEF CutoverInv, ContentsArePaired, RollbackRestores, EditCrontab
<1>5. CommandsAreSound'
  BY DEF CutoverInv, CommandsAreSound, Sound, Changed, Paired, Uncomment, Holding, EditCrontab
<1>6. TrailTellsTheTruth'
  BY <1>2 DEF CutoverInv, TrailTellsTheTruth, NoRowsToCome, EditCrontab
<1>7. RowsAreOnTheWay'
  <2>1. \A o \in Operators : Recorded(o)' = Recorded(o)
    BY DEF Recorded, EditCrontab
  <2>2. QED  BY <1>2, <2>1 DEF CutoverInv, RowsAreOnTheWay, EditCrontab
<1>8. QED  BY <1>3, <1>4, <1>5, <1>6, <1>7 DEF CutoverInv

(* A step that leaves all but the history of runs and the counters alone.  *)
LEMMA ElsewhereStep ==
    ASSUME CutoverInv, UNCHANGED <<tabVars, backups, holder, task, commands, edits>>,
           proved' \in SUBSET Names
    PROVE  CutoverInv'
<1>1. CutoverTypes'
  BY DEF CutoverInv, CutoverTypes, tabVars
<1>2. ContentsArePaired' /\ RollbackRestores'
  BY DEF CutoverInv, ContentsArePaired, RollbackRestores, tabVars
<1>3. CommandsAreSound'
  BY DEF CutoverInv, CommandsAreSound, Sound, Changed, Paired, Uncomment, Holding
<1>4. MarkerJobs(tab)' = MarkerJobs(tab) /\ \A o \in Operators : Recorded(o)' = Recorded(o)
  BY DEF MarkerJobs, Recorded, tabVars
<1>5. TrailTellsTheTruth' /\ RowsAreOnTheWay'
  BY <1>4 DEF CutoverInv, TrailTellsTheTruth, NoRowsToCome, RowsAreOnTheWay, tabVars, SymDiff
<1>6. QED  BY <1>1, <1>2, <1>3, <1>5 DEF CutoverInv

(* Every step keeps the invariant.                                         *)
LEMMA CutoverInvStep ==
    ASSUME CutoverInv, [CutoverNext]_cutoverVars
    PROVE  CutoverInv'
<1>1. ASSUME NEW o \in Operators, NEW kind \in {"cutover", "dryrun", "rollback", "restore"},
             NEW force \in BOOLEAN, NEW only \in {{}} \cup {{j} : j \in Names},
             ReadCutoverSource(o, kind, only, force)
      PROVE  CutoverInv'
  BY <1>1, ReadStep
<1>2. ASSUME NEW o \in Operators, LoadCutoverStore(o)
      PROVE  CutoverInv'
  BY <1>2, LockStep
<1>3. ASSUME NEW o \in Operators, DryRun(o)
      PROVE  CutoverInv'
  BY <1>3, LeaveStep DEF DryRun
<1>4. ASSUME NEW o \in Operators, RunCutoverApply(o)
      PROVE  CutoverInv'
  BY <1>4, ApplyStep
<1>5. ASSUME NEW o \in Operators, RunCutoverRollback(o)
      PROVE  CutoverInv'
  BY <1>5, RollbackStep
<1>6. ASSUME NEW o \in Operators, NEW b \in backups, RestoreBackup(o, b)
      PROVE  CutoverInv'
  BY <1>6, RestoreStep
<1>7. ASSUME NEW o \in Operators, BackupFails(o)
      PROVE  CutoverInv'
  BY <1>7, LeaveStep DEF BackupFails
<1>8. ASSUME NEW o \in Operators, WriteCrontab(o)
      PROVE  CutoverInv'
  BY <1>8, WriteStep
<1>9. ASSUME NEW o \in Operators, RecordCutoverEvents(o)
      PROVE  CutoverInv'
  BY <1>9, RecordStep
<1>10. ASSUME NEW o \in Operators, Crash(o)
       PROVE  CutoverInv'
  BY <1>10, CrashStep
<1>11. ASSUME NEW line \in Extra, EditCrontab(line)
       PROVE  CutoverInv'
  BY <1>11, EditStep
<1>12. ASSUME NEW j \in Names, RunSucceeds(j)
       PROVE  CutoverInv'
  BY <1>12, ElsewhereStep DEF RunSucceeds, CutoverInv, CutoverTypes
<1>13. CASE UNCHANGED cutoverVars
  BY <1>13, ElsewhereStep DEF cutoverVars, CutoverInv, CutoverTypes
<1>14. QED
  BY <1>1, <1>2, <1>3, <1>4, <1>5, <1>6, <1>7, <1>8, <1>9, <1>10, <1>11, <1>12, <1>13
  DEF CutoverNext

(* The invariant holds in every state.                                     *)
THEOREM CutoverInvariant == CutoverSpec => []CutoverInv
<1>1. CutoverInit => CutoverInv
  BY CutoverInvInit
<1>2. CutoverInv /\ [CutoverNext]_cutoverVars => CutoverInv'
  BY CutoverInvStep
<1>3. QED  BY <1>1, <1>2, PTL DEF CutoverSpec

(* The round trip: at any moment one rollback gives back the user's own    *)
(* crontab, line for line.                                                 *)
THEOREM RollbackGivesBack == CutoverSpec => []RollbackRestores
<1>1. CutoverInv => RollbackRestores
  BY DEF CutoverInv
<1>2. QED  BY <1>1, CutoverInvariant, PTL

(* The trail is wrong about exactly the jobs that whole-file restores      *)
(* turned since a row last named them, unless a write or its rows went     *)
(* astray: cutovers and rollbacks leave it right, whatever they overlap.   *)
THEOREM TheTrailIsTrue == CutoverSpec => []TrailTellsTheTruth
<1>1. CutoverInv => TrailTellsTheTruth
  BY DEF CutoverInv
<1>2. QED  BY <1>1, CutoverInvariant, PTL

-----------------------------------------------------------------------------
(* Apply: what a plan does to rows                                         *)

(* One apply's files: no two of a job where it matters, no two that name   *)
(* one sensor.                                                             *)
NamesAreApart(batch) ==
    \A i, k \in DOMAIN batch : i # k => Named(batch[i]) \cap Named(batch[k]) = {}

RowsAreOwned(sens) == \A s \in Sensors : (sens[s].job = NoJob) <=> (sens[s].def = NoDef)

(* What an apply makes of a schedule's row, and of a sensor's.             *)
SyncedRow(old, def) ==
    IF def = NoDef THEN IF old.def = NoDef THEN old ELSE NoSchedule
    ELSE [def |-> def, drift |-> IF old.def = NoDef THEN 0 ELSE old.drift]

DeclaredRow(old, file, s) ==
    [job |-> file.job, def |-> file.doc.sensors[s],
     drift |-> IF old.job = file.job THEN old.drift ELSE 0]

(* A name some file declares while a job outside the batch owns its row.   *)
ForeignName(batch, sens) ==
    \E s \in Sensors, i \in DOMAIN batch :
        /\ Declares(batch[i], s) /\ sens[s].job # NoJob
        /\ \A k \in DOMAIN batch : sens[s].job # batch[k].job

ScheduleRow == [def : Definitions \cup {NoDef}, drift : 0..MaxDrift]
SensorRow   == [job : Jobs \cup {NoJob}, def : Definitions \cup {NoDef}, drift : 0..MaxDrift]

(* A job file names a job and gives definitions to names of its own.       *)
LEMMA FileTypes ==
    ASSUME NEW file \in File
    PROVE  /\ file.job \in Jobs /\ file.job # NoJob
           /\ \A n \in Schedules : file.doc.schedules[n] \in Definitions \cup {NoDef}
           /\ \A s \in Sensors : file.doc.sensors[s] \in Definitions \cup {NoDef}
<1>1. file.job \in Jobs /\ file.doc \in Documents
  BY DEF File
<1>2. file.doc \in [schedules : [Schedules -> Definitions \cup {NoDef}],
                    sensors   : [Sensors -> Definitions \cup {NoDef}]]
  BY <1>1, DocumentsAssumption
<1>3. QED  BY <1>1, <1>2, NoDefAssumption

(* The plan of a batch is the plan of each of its files.                   *)
LEMMA PlanOf ==
    ASSUME NEW batch \in Seq(File), NEW sched, NEW sens, NEW i \in DOMAIN batch
    PROVE  /\ PlansFor(batch, sched, sens)[i].schedules = BuildSchedulePlan(batch[i], sched)
           /\ PlansFor(batch, sched, sens)[i].sensors = BuildSensorPlan(batch[i], sens)
           /\ PlansFor(batch, sched, sens)[i] \in FilePlans
<1>1. \A was, def : KindOf(was, def) \in KindNames
  BY DEF KindOf, KindNames
<1>2. BuildSchedulePlan(batch[i], sched) \in [Schedules -> KindNames]
  BY <1>1 DEF BuildSchedulePlan
<1>3. BuildSensorPlan(batch[i], sens) \in [Sensors -> KindNames]
  BY <1>1 DEF BuildSensorPlan
<1>4. QED  BY <1>2, <1>3 DEF PlansFor, FilePlans

-----------------------------------------------------------------------------
(* The pointers                                                            *)

(* The pointers after each file of the batch in turn.                      *)
LEMMA PointersWalk ==
    ASSUME NEW batch \in Seq(File), current \in Pointers
    PROVE  \E h \in [0..Len(batch) -> Pointers] :
              /\ h[0] = current /\ CurrentAfter(batch) = h[Len(batch)]
              /\ \A k \in 1..Len(batch) : h[k] = PointTo(h[k - 1], batch[k])
<1> DEFINE n == Len(batch)
           Y == Pointers
           G == [y \in Y |-> [x \in File |-> PointTo(y, x)]]
           IsAfter(f) == f = [k \in 0..n |-> IF k = 0 THEN current
                                            ELSE PointTo(f[k - 1], batch[k])]
           f == CHOOSE f : IsAfter(f)
<1>1. StepFunction(G, Y, File)
  <2>1. \A y \in Y, x \in File : PointTo(y, x) \in Y
    BY DEF PointTo, Pointers, File
  <2>2. QED  BY <2>1 DEF StepFunction
<1>2. PICK g : Steps(g, Y, current, G, batch)
  <2> HIDE DEF Y, G
  <2>1. QED  BY <1>1, StepsExist DEF Y
<1>3. n \in Nat /\ \A k \in 1..n : batch[k] \in File
  OBVIOUS
<1>4. g \in [0..n -> Y] /\ g[0] = current /\ \A k \in 1..n : g[k] = PointTo(g[k - 1], batch[k])
  <2>1. g \in [0..n -> Y] /\ g[0] = current /\ \A k \in 1..n : g[k] = G[g[k - 1]][batch[k]]
    BY <1>2 DEF Steps
  <2>2. \A k \in 1..n : k - 1 \in 0..n
    BY <1>3
  <2> HIDE DEF Y
  <2>3. QED  BY <1>3, <2>1, <2>2
<1> HIDE DEF G, Y
<1>5. IsAfter(g)
  BY <1>3, <1>4
<1>6. IsAfter(f)
  <2> HIDE DEF IsAfter
  <2>1. QED  BY <1>5
<1>7. CurrentAfter(batch) = f[n]
  BY DEF CurrentAfter
<1> HIDE DEF f
<1>8. f[0] = current /\ \A k \in 1..n : f[k] = PointTo(f[k - 1], batch[k])
  BY <1>3, <1>6
<1>9. f[n] = g[n]
  <2>1. Follows(f, Y, current, G, batch)
    <3>1. \A k \in 1..n : f[k - 1] \in Y => f[k] = G[f[k - 1]][batch[k]]
      BY <1>3, <1>8 DEF G
    <3>2. QED  BY <1>8, <3>1 DEF Follows
  <2>2. QED  BY <1>2, <1>3, <2>1, StepsAgree
<1>10. QED  BY <1>4, <1>7, <1>9 DEF Y

(* The last file of a job decides: the job's only one, where it has one.   *)
LEMMA PointersAfter ==
    ASSUME NEW batch \in Seq(File), current \in Pointers
    PROVE  /\ CurrentAfter(batch) \in Pointers
           /\ OneFileAJob(batch) =>
                 \A i \in DOMAIN batch : CurrentAfter(batch)[batch[i].job] = batch[i].doc
           /\ \A j \in Jobs \ {batch[i].job : i \in DOMAIN batch} :
                 CurrentAfter(batch)[j] = current[j]
<1> DEFINE n == Len(batch)
<1>1. PICK h \in [0..n -> Pointers] :
              /\ h[0] = current /\ CurrentAfter(batch) = h[n]
              /\ \A k \in 1..n : h[k] = PointTo(h[k - 1], batch[k])
  BY PointersWalk
<1>2. n \in Nat /\ DOMAIN batch = 1..n /\ \A i \in 1..n : batch[i] \in File /\ batch[i].job \in Jobs
  BY DEF File
<1> DEFINE Right(k) ==
              /\ OneFileAJob(batch) => \A i \in 1..k : h[k][batch[i].job] = batch[i].doc
              /\ \A j \in Jobs \ {batch[i].job : i \in 1..n} : h[k][j] = current[j]
           T == {k \in 0..n : Right(k)}
<1>3. 0 \in T
  BY <1>1, <1>2
<1>4. ASSUME NEW k \in 0..n, k \in T, k < n
      PROVE  k + 1 \in T
  <2>1. k + 1 \in 1..n /\ k \in 0..n /\ (k + 1) - 1 = k
    BY <1>2, <1>4
  <2>2. h[k + 1] = PointTo(h[k], batch[k + 1]) /\ h[k] \in Pointers
    BY <1>1, <2>1
  <2>3. \A j \in Jobs : h[k + 1][j] = IF j = batch[k + 1].job THEN batch[k + 1].doc ELSE h[k][j]
    BY <1>2, <2>1, <2>2 DEF PointTo, Pointers
  <2>4. ASSUME OneFileAJob(batch), NEW i \in 1..(k + 1)
        PROVE  h[k + 1][batch[i].job] = batch[i].doc
    <3>1. i \in 1..n /\ (i = k + 1 \/ i \in 1..k)
      BY <2>1
    <3>2. CASE i = k + 1
      BY <1>2, <2>3, <3>1, <3>2
    <3>3. CASE i # k + 1 /\ i \in 1..k
      <4>1. batch[i].job # batch[k + 1].job
        BY <1>2, <2>1, <2>4, <3>1, <3>3 DEF OneFileAJob
      <4>2. h[k][batch[i].job] = batch[i].doc
        BY <1>4, <2>4, <3>3
      <4>3. QED  BY <1>2, <2>3, <3>1, <4>1, <4>2
    <3>4. QED  BY <3>1, <3>2, <3>3
  <2>5. \A j \in Jobs \ {batch[i].job : i \in 1..n} : h[k + 1][j] = current[j]
    BY <1>4, <2>1, <2>3
  <2>6. QED  BY <2>1, <2>4, <2>5
<1>5. n \in T
  <2> HIDE DEF T, n
  <2>1. 0..n \subseteq T
    BY <1>2, <1>3, <1>4, AllUpTo
  <2>2. QED  BY <1>2, <2>1
<1>6. QED  BY <1>1, <1>2, <1>5

-----------------------------------------------------------------------------
(* The schedules                                                           *)

(* What the plan of a file makes of the rows of its job.                   *)
LEMMA RowSynced ==
    ASSUME NEW file \in File, NEW sched \in ScheduleRows, NEW plan,
           plan.schedules = BuildSchedulePlan(file, sched)
    PROVE  /\ SyncRows(sched[file.job], file, plan)
                = [n \in Schedules |-> SyncedRow(sched[file.job][n], file.doc.schedules[n])]
           /\ SyncRows(sched[file.job], file, plan) \in [Schedules -> ScheduleRow]
<1> DEFINE rows == sched[file.job]
<1>1. ASSUME NEW n \in Schedules, NEW kind, kind = plan.schedules[n],
             NEW new, new = (CASE Writes(kind) -> UpsertSchedule(rows[n], file.doc.schedules[n])
                               [] kind = "removed" -> NoSchedule
                               [] OTHER -> rows[n])
      PROVE  new = SyncedRow(rows[n], file.doc.schedules[n]) /\ new \in ScheduleRow
  <2>1. rows[n] \in ScheduleRow /\ file.doc.schedules[n] \in Definitions \cup {NoDef}
    BY FileTypes DEF ScheduleRows, ScheduleRow
  <2>2. kind = KindOf(rows[n].def, file.doc.schedules[n])
    BY <1>1 DEF BuildSchedulePlan
  <2>3. 0 \in 0..MaxDrift
    BY FilesAssumption
  <2> DEFINE old == rows[n]
             def == file.doc.schedules[n]
  <2> HIDE DEF rows, old, def
  <2>4. CASE def = NoDef /\ old.def = NoDef
    <3>1. kind = "none"
      BY <2>2, <2>4 DEF KindOf, old, def
    <3>2. new = old
      BY <1>1, <3>1 DEF Writes, old
    <3>3. QED  BY <2>1, <2>4, <3>2 DEF SyncedRow, old, def
  <2>5. CASE def = NoDef /\ old.def # NoDef
    <3>1. kind = "removed"
      BY <2>2, <2>5 DEF KindOf, old, def
    <3>2. new = NoSchedule
      BY <1>1, <3>1 DEF Writes
    <3>3. NoSchedule \in ScheduleRow
      BY <2>3 DEF NoSchedule, ScheduleRow
    <3>4. QED  BY <2>5, <3>2, <3>3 DEF SyncedRow, old, def
  <2>6. CASE def # NoDef /\ old.def = NoDef
    <3>1. kind = "created"
      BY <2>2, <2>6 DEF KindOf, old, def
    <3>2. new = [def |-> def, drift |-> 0]
      BY <1>1, <2>6, <3>1 DEF Writes, UpsertSchedule, NewSchedule, old, def
    <3>3. QED  BY <2>1, <2>3, <2>6, <3>2 DEF SyncedRow, ScheduleRow, old, def
  <2>7. CASE def # NoDef /\ old.def # NoDef
    <3>1. old = [def |-> old.def, drift |-> old.drift]
      BY <2>1 DEF ScheduleRow, old
    <3>2. SyncedRow(old, def) = [def |-> def, drift |-> old.drift]
      BY <2>7 DEF SyncedRow
    <3>3. CASE old.def = def
      <4>1. kind = "unchanged"
        BY <2>2, <2>7, <3>3 DEF KindOf, old, def
      <4>2. new = old
        BY <1>1, <4>1 DEF Writes, old
      <4>3. QED  BY <2>1, <3>1, <3>2, <3>3, <4>2 DEF old, def
    <3>4. CASE old.def # def
      <4>1. kind = "spec_changed"
        BY <2>2, <2>7, <3>4 DEF KindOf, old, def
      <4>2. new = [old EXCEPT !.def = def]
        BY <1>1, <2>7, <4>1 DEF Writes, UpsertSchedule, old, def
      <4>3. new = [def |-> def, drift |-> old.drift]
        BY <2>1, <4>2 DEF ScheduleRow, old
      <4>4. QED  BY <2>1, <3>2, <4>3 DEF ScheduleRow, old, def
    <3>5. QED  BY <3>3, <3>4
  <2>8. QED  BY <2>4, <2>5, <2>6, <2>7
<1>2. QED  BY <1>1 DEF SyncRows

(* One file after another.                                                 *)
Syncs(batch, plan) ==
    \A y \in ScheduleRows, k \in 1..Len(batch) :
        SyncSchedules(y, batch[k], plan[k]) \in ScheduleRows

SyncsOneByOne(h, batch, plan, sched) ==
    /\ h \in [0..Len(batch) -> ScheduleRows] /\ h[0] = sched
    /\ SchedulesAfter(batch, plan, sched) = h[Len(batch)]
    /\ \A k \in 1..Len(batch) : h[k] = SyncSchedules(h[k - 1], batch[k], plan[k])

(* The rows after each file, from one application of the file's plan to    *)
(* the next.                                                               *)
LEMMA SchedulesWalk ==
    ASSUME NEW batch \in Seq(File), NEW sched \in ScheduleRows, NEW plan, Syncs(batch, plan)
    PROVE  \E h : SyncsOneByOne(h, batch, plan, sched)
<1> DEFINE n == Len(batch)
           Y == ScheduleRows
           G == [y \in Y |-> [k \in 1..n |-> SyncSchedules(y, batch[k], plan[k])]]
           s == [k \in 1..n |-> k]
           IsAfter(f) == f = [k \in 0..n |-> IF k = 0 THEN sched
                                            ELSE SyncSchedules(f[k - 1], batch[k], plan[k])]
           f == CHOOSE f : IsAfter(f)
<1>1. StepFunction(G, Y, 1..n)
  BY DEF StepFunction, Syncs
<1>2. n \in Nat
  OBVIOUS
<1>3. s \in Seq(1..n) /\ Len(s) = n
  BY <1>2
<1>4. PICK g : Steps(g, Y, sched, G, s)
  <2> HIDE DEF Y, G, s
  <2>1. QED  BY <1>1, <1>3, StepsExist DEF Y
<1>5. g \in [0..n -> Y] /\ g[0] = sched
      /\ \A k \in 1..n : g[k] = SyncSchedules(g[k - 1], batch[k], plan[k])
  <2>1. g \in [0..n -> Y] /\ g[0] = sched /\ \A k \in 1..n : g[k] = G[g[k - 1]][s[k]]
    BY <1>3, <1>4 DEF Steps
  <2>2. \A k \in 1..n : k - 1 \in 0..n
    BY <1>2
  <2> HIDE DEF Y
  <2>3. QED  BY <1>2, <2>1, <2>2
<1>6. \A k \in 1..n : s[k] = k
  OBVIOUS
<1>7. \A y \in Y, k \in 1..n : G[y][k] = SyncSchedules(y, batch[k], plan[k])
  OBVIOUS
<1> HIDE DEF G, Y, s
<1>8. IsAfter(g)
  BY <1>2, <1>5
<1>9. IsAfter(f)
  <2> HIDE DEF IsAfter
  <2>1. QED  BY <1>8
<1>10. SchedulesAfter(batch, plan, sched) = f[n]
  BY DEF SchedulesAfter
<1> HIDE DEF f
<1>11. f[0] = sched /\ \A k \in 1..n : f[k] = SyncSchedules(f[k - 1], batch[k], plan[k])
  BY <1>2, <1>9
<1>12. f[n] = g[n]
  <2>1. Follows(f, Y, sched, G, s)
    BY <1>3, <1>6, <1>7, <1>11 DEF Follows
  <2>2. QED  BY <1>2, <1>3, <1>4, <2>1, StepsAgree
<1>13. SyncsOneByOne(g, batch, plan, sched)
  BY <1>5, <1>10, <1>12 DEF Y, SyncsOneByOne
<1>14. QED  BY <1>13

(* What one sync does: its own job's rows, and nobody else's.              *)
LEMMA SyncOne ==
    ASSUME NEW y \in ScheduleRows, NEW file \in File, NEW plan \in FilePlans
    PROVE  /\ SyncSchedules(y, file, plan) \in ScheduleRows
           /\ \A j \in Jobs : SyncSchedules(y, file, plan)[j]
                 = IF j = file.job THEN SyncRows(y[j], file, plan) ELSE y[j]
<1>1. \A n \in Schedules : y[file.job][n] \in ScheduleRow
  BY FileTypes DEF ScheduleRows, ScheduleRow
<1>2. NoSchedule \in ScheduleRow
  BY FilesAssumption DEF NoSchedule, ScheduleRow
<1>3. ASSUME NEW n \in Schedules, Writes(plan.schedules[n])
      PROVE  UpsertSchedule(y[file.job][n], file.doc.schedules[n]) \in ScheduleRow
  <2>1. file.doc.schedules[n] \in Definitions \cup {NoDef} /\ 0 \in 0..MaxDrift
    BY FileTypes, FilesAssumption
  <2>2. QED  BY <1>1, <2>1 DEF UpsertSchedule, NewSchedule, ScheduleRow
<1>4. SyncRows(y[file.job], file, plan) \in [Schedules -> ScheduleRow]
  BY <1>1, <1>2, <1>3 DEF SyncRows
<1>5. file.job \in Jobs
  BY FileTypes
<1>6. QED  BY <1>4, <1>5 DEF SyncSchedules, ScheduleRows, ScheduleRow

(* One file a job: every named job's rows are its file's, the rest stay.   *)
LEMMA SchedulesSynced ==
    ASSUME NEW batch \in Seq(File), NEW sched \in ScheduleRows, NEW sens
    PROVE  LET after == SchedulesAfter(batch, PlansFor(batch, sched, sens), sched)
           IN  /\ after \in ScheduleRows
               /\ OneFileAJob(batch) =>
                     \A i \in DOMAIN batch : after[batch[i].job] =
                        [n \in Schedules |-> SyncedRow(sched[batch[i].job][n], batch[i].doc.schedules[n])]
               /\ \A j \in Jobs \ {batch[i].job : i \in DOMAIN batch} : after[j] = sched[j]
<1> DEFINE m == Len(batch)
           plan == PlansFor(batch, sched, sens)
           New(i) == [n \in Schedules |-> SyncedRow(sched[batch[i].job][n], batch[i].doc.schedules[n])]
<1>1. m \in Nat /\ DOMAIN batch = 1..m /\ \A i \in 1..m : batch[i] \in File /\ batch[i].job \in Jobs
  BY FileTypes
<1>2. \A i \in 1..m : plan[i] \in FilePlans /\ plan[i].schedules = BuildSchedulePlan(batch[i], sched)
  BY <1>1, PlanOf
<1> HIDE DEF plan
<1>3. PICK h \in [0..m -> ScheduleRows] :
              /\ h[0] = sched /\ SchedulesAfter(batch, plan, sched) = h[m]
              /\ \A k \in 1..m : h[k] = SyncSchedules(h[k - 1], batch[k], plan[k])
  <2>1. Syncs(batch, plan)
    <3> SUFFICES ASSUME NEW y \in ScheduleRows, NEW k \in 1..m
                 PROVE  SyncSchedules(y, batch[k], plan[k]) \in ScheduleRows
      BY DEF Syncs
    <3>1. batch[k] \in File /\ plan[k] \in FilePlans
      BY <1>1, <1>2
    <3>2. QED  BY <3>1, SyncOne
  <2>2. PICK h : SyncsOneByOne(h, batch, plan, sched)
    <3> HIDE DEF m, New
    <3>1. QED  BY <2>1, SchedulesWalk
  <2>3. QED  BY <2>2 DEF SyncsOneByOne
<1> DEFINE Right(k) ==
              /\ OneFileAJob(batch) => \A i \in 1..k : h[k][batch[i].job] = New(i)
              /\ \A j \in Jobs : (\A i \in 1..k : batch[i].job # j) => h[k][j] = sched[j]
           T == {k \in 0..m : Right(k)}
<1>4. 0 \in T
  BY <1>1, <1>3
<1>5. ASSUME NEW k \in 0..m, k \in T, k < m
      PROVE  k + 1 \in T
  <2>1. k + 1 \in 1..m /\ k \in 0..m /\ (k + 1) - 1 = k
    BY <1>1, <1>5
  <2>2. h[k + 1] = SyncSchedules(h[k], batch[k + 1], plan[k + 1]) /\ h[k] \in ScheduleRows
    BY <1>3, <2>1
  <2>3. \A j \in Jobs : h[k + 1][j] = IF j = batch[k + 1].job
                                      THEN SyncRows(h[k][j], batch[k + 1], plan[k + 1]) ELSE h[k][j]
    BY <1>1, <1>2, <2>1, <2>2, SyncOne
  <2>4. ASSUME OneFileAJob(batch), NEW i \in 1..(k + 1)
        PROVE  h[k + 1][batch[i].job] = New(i)
    <3>1. i \in 1..m /\ (i = k + 1 \/ i \in 1..k)
      BY <2>1
    <3>2. CASE i = k + 1
      <4>1. \A l \in 1..k : batch[l].job # batch[i].job
        BY <1>1, <2>1, <2>4, <3>1, <3>2 DEF OneFileAJob
      <4>2. h[k][batch[i].job] = sched[batch[i].job]
        BY <1>1, <1>5, <3>1, <4>1
      <4>3. h[k + 1][batch[i].job] = SyncRows(sched[batch[i].job], batch[i], plan[i])
        BY <1>1, <2>3, <3>1, <3>2, <4>2
      <4>4. QED  BY <1>1, <1>2, <3>1, <4>3, RowSynced
    <3>3. CASE i # k + 1 /\ i \in 1..k
      <4>1. batch[i].job # batch[k + 1].job
        BY <1>1, <2>1, <2>4, <3>1, <3>3 DEF OneFileAJob
      <4>2. h[k][batch[i].job] = New(i)
        BY <1>5, <2>4, <3>3
      <4>3. QED  BY <1>1, <2>3, <3>1, <4>1, <4>2
    <3>4. QED  BY <3>1, <3>2, <3>3
  <2>5. ASSUME NEW j \in Jobs, \A i \in 1..(k + 1) : batch[i].job # j
        PROVE  h[k + 1][j] = sched[j]
    <3>1. batch[k + 1].job # j /\ \A i \in 1..k : batch[i].job # j
      BY <2>1, <2>5
    <3>2. QED  BY <1>5, <2>3, <3>1
  <2>6. QED  BY <2>1, <2>4, <2>5
<1>6. m \in T
  <2> HIDE DEF T, m
  <2>1. 0..m \subseteq T
    BY <1>1, <1>4, <1>5, AllUpTo
  <2>2. QED  BY <1>1, <2>1
<1>7. h[m] \in ScheduleRows /\ Right(m)
  BY <1>1, <1>3, <1>6
<1>8. QED  BY <1>1, <1>3, <1>7 DEF plan

-----------------------------------------------------------------------------
(* The sensors                                                             *)

(* A plan writes a sensor its file declares, unless the job's row has that *)
(* definition already, and removes the job's rows its file is silent on.   *)
LEMMA SensorPlan ==
    ASSUME NEW batch \in Seq(File), NEW sched, NEW sens \in SensorRows, RowsAreOwned(sens),
           NEW i \in DOMAIN batch, NEW s \in Sensors,
           NEW kind, kind = PlansFor(batch, sched, sens)[i].sensors[s]
    PROVE  /\ Writes(kind) <=> /\ Declares(batch[i], s)
                               /\ ~(sens[s].job = batch[i].job /\ sens[s].def = batch[i].doc.sensors[s])
           /\ kind = "removed" <=> sens[s].job = batch[i].job /\ ~Declares(batch[i], s)
<1>1. batch[i] \in File /\ sens[s] \in SensorRow
  BY DEF SensorRows, SensorRow
<1>2. kind = KindOf(IF sens[s].job = batch[i].job THEN sens[s].def ELSE NoDef,
                    batch[i].doc.sensors[s])
  <2>1. PlansFor(batch, sched, sens)[i].sensors = BuildSensorPlan(batch[i], sens)
    BY DEF PlansFor
  <2>2. QED  BY <1>1, <2>1 DEF BuildSensorPlan
<1>3. batch[i].job # NoJob
  BY <1>1, FileTypes
<1>4. sens[s].job = batch[i].job => sens[s].def # NoDef
  BY <1>3 DEF RowsAreOwned
<1>5. CASE ~Declares(batch[i], s)
  <2>1. kind \in {"none", "removed"}
    BY <1>2, <1>5 DEF KindOf, Declares
  <2>2. kind = "removed" <=> sens[s].job = batch[i].job
    BY <1>2, <1>4, <1>5 DEF KindOf, Declares
  <2>3. QED  BY <1>5, <2>1, <2>2 DEF Writes
<1>6. CASE Declares(batch[i], s)
  <2> DEFINE was == IF sens[s].job = batch[i].job THEN sens[s].def ELSE NoDef
             def == batch[i].doc.sensors[s]
  <2>1. kind = CASE was = NoDef -> "created" [] was = def -> "unchanged" [] OTHER -> "spec_changed"
    BY <1>2, <1>6 DEF KindOf, Declares
  <2>3. def # NoDef
    BY <1>6 DEF Declares
  <2> HIDE DEF was, def
  <2>2. kind \in {"created", "unchanged", "spec_changed"} /\ (kind = "unchanged" <=> was # NoDef /\ was = def)
    <3>1. CASE was = NoDef
      <4>1. kind = "created"
        BY ONLY <2>1, <2>3, <3>1
      <4>2. QED  BY <3>1, <4>1
    <3>2. CASE was # NoDef /\ was = def
      <4>1. kind = "unchanged"
        BY ONLY <2>1, <2>3, <3>2
      <4>2. QED  BY <3>2, <4>1
    <3>3. CASE was # NoDef /\ was # def
      <4>1. kind = "spec_changed"
        BY ONLY <2>1, <2>3, <3>3
      <4>2. QED  BY <3>3, <4>1
    <3>4. QED  BY <3>1, <3>2, <3>3
  <2>4. kind = "unchanged" <=> sens[s].job = batch[i].job /\ sens[s].def = def
    BY <2>2, <2>3 DEF was
  <2>5. QED  BY <1>6, <2>2, <2>4 DEF Writes, def
<1>7. QED  BY <1>5, <1>6

(* A row the removals take away was of a file that declares it no more.    *)
LEMMA RemovedRow ==
    ASSUME NEW batch \in Seq(File), NEW sched, NEW sens \in SensorRows, RowsAreOwned(sens),
           NEW s \in Sensors
    PROVE  AfterRemovals(batch, PlansFor(batch, sched, sens), sens)[s]
              = IF \E i \in DOMAIN batch : sens[s].job = batch[i].job /\ ~Declares(batch[i], s)
                THEN NoSensor ELSE sens[s]
<1> DEFINE plan == PlansFor(batch, sched, sens)
<1>1. \A i \in DOMAIN batch :
         plan[i].sensors[s] = "removed" <=> sens[s].job = batch[i].job /\ ~Declares(batch[i], s)
  BY SensorPlan
<1> HIDE DEF plan
<1>2. AfterRemovals(batch, plan, sens)[s]
        = IF \E i \in DOMAIN batch : plan[i].sensors[s] = "removed" /\ sens[s].job = batch[i].job
          THEN NoSensor ELSE sens[s]
  BY DEF AfterRemovals
<1>3. QED  BY <1>1, <1>2 DEF plan

(* A batch is refused for a name whose owner is no job of the batch: a job *)
(* of the batch keeps the name by declaring it, or has just given it up.   *)
LEMMA RefusedIsForeign ==
    ASSUME NEW batch \in Seq(File), NamesAreApart(batch),
           NEW sched, NEW sens \in SensorRows, RowsAreOwned(sens)
    PROVE  RefusedNames(batch, PlansFor(batch, sched, sens), sens) <=> ForeignName(batch, sens)
<1> DEFINE A == AfterRemovals(batch, PlansFor(batch, sched, sens), sens)
<1>1. \A s \in Sensors : A[s] = IF \E i \in DOMAIN batch : sens[s].job = batch[i].job
                                                          /\ ~Declares(batch[i], s)
                                THEN NoSensor ELSE sens[s]
  BY RemovedRow
<1> HIDE DEF A
<1>2. NoSensor.job = NoJob /\ \A i \in DOMAIN batch : batch[i].job # NoJob
  BY FileTypes DEF NoSensor
<1>3. ASSUME NEW s \in Sensors, NEW i \in DOMAIN batch,
             Declares(batch[i], s), A[s].job \notin {NoJob, batch[i].job}
      PROVE  ForeignName(batch, sens)
  <2>1. A[s] = sens[s] /\ \A k \in DOMAIN batch : sens[s].job = batch[k].job => Declares(batch[k], s)
    BY <1>1, <1>2, <1>3
  <2>2. \A k \in DOMAIN batch : Declares(batch[k], s) => k = i
    BY <1>3 DEF NamesAreApart, Named
  <2>3. QED  BY <1>3, <2>1, <2>2 DEF ForeignName
<1>4. ASSUME ForeignName(batch, sens)
      PROVE  \E s \in Sensors, i \in DOMAIN batch :
                Declares(batch[i], s) /\ A[s].job \notin {NoJob, batch[i].job}
  BY <1>1, <1>4 DEF ForeignName
<1>5. QED  BY <1>3, <1>4 DEF RefusedNames, Taken, A

(* Whatever the files, rows stay rows.                                     *)
LEMMA SensorsTyped ==
    ASSUME NEW batch \in Seq(File), NEW sched, NEW sens \in SensorRows, RowsAreOwned(sens)
    PROVE  LET after == SensorsAfter(batch, PlansFor(batch, sched, sens), sens)
           IN  after \in SensorRows /\ RowsAreOwned(after)
<1> DEFINE plan == PlansFor(batch, sched, sens)
           A == AfterRemovals(batch, plan, sens)
<1>1. ASSUME NEW s \in Sensors
      PROVE  A[s] \in SensorRow /\ (A[s].job = NoJob <=> A[s].def = NoDef)
  <2>1. A[s] = NoSensor \/ A[s] = sens[s]
    BY DEF AfterRemovals
  <2>2. NoSensor \in SensorRow /\ NoSensor.job = NoJob /\ NoSensor.def = NoDef
    BY FilesAssumption DEF NoSensor, SensorRow
  <2>3. sens[s] \in SensorRow
    BY DEF SensorRows, SensorRow
  <2>4. QED  BY <2>1, <2>2, <2>3 DEF RowsAreOwned
<1>2. ASSUME NEW s \in Sensors, NEW i \in DOMAIN batch, Writes(plan[i].sensors[s]),
             NEW old \in SensorRow, old.job = NoJob <=> old.def = NoDef
      PROVE  LET new == UpsertSensor(old, batch[i], s)
             IN  new \in SensorRow /\ (new.job = NoJob <=> new.def = NoDef)
  <2>1. batch[i].doc.sensors[s] \in Definitions /\ batch[i].job \in Jobs
    BY <1>2, SensorPlan, FileTypes DEF Declares
  <2>2. 0 \in 0..MaxDrift
    BY FilesAssumption
  <2>3. QED  BY <1>2, <2>1, <2>2, NoDefAssumption DEF UpsertSensor, NewSensor, SensorRow
<1> DEFINE after == SensorsAfter(batch, plan, sens)
<1> HIDE DEF plan, A
<1>3. after = [s \in Sensors |->
                 IF \E i \in DOMAIN batch : Writes(plan[i].sensors[s])
                 THEN UpsertSensor(A[s], batch[CHOOSE i \in DOMAIN batch : Writes(plan[i].sensors[s])], s)
                 ELSE A[s]]
  BY DEF SensorsAfter, AfterUpserts, A
<1>4. ASSUME NEW s \in Sensors
      PROVE  after[s] \in SensorRow /\ (after[s].job = NoJob <=> after[s].def = NoDef)
  <2>1. CASE \E i \in DOMAIN batch : Writes(plan[i].sensors[s])
    <3>1. PICK i \in DOMAIN batch : Writes(plan[i].sensors[s]) /\ after[s] = UpsertSensor(A[s], batch[i], s)
      BY <1>3, <2>1
    <3>2. QED  BY <1>1, <1>2, <3>1
  <2>2. CASE ~\E i \in DOMAIN batch : Writes(plan[i].sensors[s])
    BY <1>1, <1>3, <2>2
  <2>3. QED  BY <2>1, <2>2
<1>5. after \in SensorRows
  <2>1. after = [s \in Sensors |-> after[s]]
    BY <1>3
  <2> HIDE DEF after
  <2>2. QED  BY <1>4, <2>1 DEF SensorRows, SensorRow
<1>6. QED  BY <1>4, <1>5 DEF RowsAreOwned, plan

(* One file a job: a declared sensor's row is its file's, drift kept if    *)
(* the job had it already; a row the batch's jobs no longer declare goes;  *)
(* another job's stays.                                                    *)
LEMMA SensorsSynced ==
    ASSUME NEW batch \in Seq(File), OneFileAJob(batch), NamesAreApart(batch),
           NEW sched, NEW sens \in SensorRows, RowsAreOwned(sens), ~ForeignName(batch, sens),
           NEW s \in Sensors
    PROVE  LET after == SensorsAfter(batch, PlansFor(batch, sched, sens), sens)
           IN  /\ \A i \in DOMAIN batch :
                     Declares(batch[i], s) => after[s] = DeclaredRow(sens[s], batch[i], s)
               /\ (\A i \in DOMAIN batch : ~Declares(batch[i], s)) =>
                     after[s] = IF \E i \in DOMAIN batch : sens[s].job = batch[i].job
                                THEN NoSensor ELSE sens[s]
<1> DEFINE plan == PlansFor(batch, sched, sens)
           A == AfterRemovals(batch, plan, sens)
           after == SensorsAfter(batch, plan, sens)
<1>1. A[s] = IF \E i \in DOMAIN batch : sens[s].job = batch[i].job /\ ~Declares(batch[i], s)
             THEN NoSensor ELSE sens[s]
  BY RemovedRow
<1>2. \A i \in DOMAIN batch :
         Writes(plan[i].sensors[s]) <=>
            /\ Declares(batch[i], s)
            /\ ~(sens[s].job = batch[i].job /\ sens[s].def = batch[i].doc.sensors[s])
  BY SensorPlan
<1> HIDE DEF plan, A
<1>3. after[s] = IF \E i \in DOMAIN batch : Writes(plan[i].sensors[s])
                 THEN UpsertSensor(A[s], batch[CHOOSE i \in DOMAIN batch : Writes(plan[i].sensors[s])], s)
                 ELSE A[s]
  BY DEF SensorsAfter, AfterUpserts, A
<1> HIDE DEF after
<1>4. \A i \in DOMAIN batch : batch[i].job # NoJob
  BY FileTypes
<1>5. sens[s] \in SensorRow
  BY DEF SensorRows, SensorRow
<1>6. ASSUME NEW i \in DOMAIN batch, Declares(batch[i], s)
      PROVE  after[s] = DeclaredRow(sens[s], batch[i], s)
  <2>1. \A k \in DOMAIN batch : Declares(batch[k], s) => k = i
    BY <1>6 DEF NamesAreApart, Named
  <2>2. Writes(plan[i].sensors[s]) => after[s] = UpsertSensor(A[s], batch[i], s)
    BY <1>2, <1>3, <2>1
  <2>3. ~Writes(plan[i].sensors[s]) => after[s] = A[s]
    BY <1>2, <1>3, <2>1
  <2>4. CASE sens[s].job = batch[i].job
    <3>1. A[s] = sens[s]
      BY <1>1, <1>6, <2>4 DEF OneFileAJob
    <3>2. CASE sens[s].def = batch[i].doc.sensors[s]
      BY <1>2, <1>5, <2>3, <2>4, <3>1, <3>2 DEF DeclaredRow, SensorRow
    <3>3. CASE sens[s].def # batch[i].doc.sensors[s]
      <4>1. after[s] = [sens[s] EXCEPT !.def = batch[i].doc.sensors[s]]
        BY <1>2, <1>4, <1>6, <2>2, <2>4, <3>1, <3>3 DEF UpsertSensor
      <4>2. QED  BY <1>5, <2>4, <4>1 DEF DeclaredRow, SensorRow
    <3>4. QED  BY <3>2, <3>3
  <2>5. CASE sens[s].job # batch[i].job
    <3>1. Writes(plan[i].sensors[s])
      BY <1>2, <1>6, <2>5
    <3>2. A[s].job = NoJob
      <4>1. CASE sens[s].job = NoJob
        BY <1>1, <4>1 DEF NoSensor
      <4>2. CASE sens[s].job # NoJob
        <5>1. PICK k \in DOMAIN batch : sens[s].job = batch[k].job
          BY <1>6, <4>2 DEF ForeignName
        <5>2. ~Declares(batch[k], s)
          BY <2>1, <2>5, <5>1
        <5>3. QED  BY <1>1, <5>1, <5>2 DEF NoSensor
      <4>3. QED  BY <4>1, <4>2
    <3>3. after[s] = NewSensor(batch[i].job, batch[i].doc.sensors[s])
      BY <2>2, <3>1, <3>2 DEF UpsertSensor
    <3>4. QED  BY <2>5, <3>3 DEF NewSensor, DeclaredRow
  <2>6. QED  BY <2>4, <2>5
<1>7. ASSUME \A i \in DOMAIN batch : ~Declares(batch[i], s)
      PROVE  after[s] = IF \E i \in DOMAIN batch : sens[s].job = batch[i].job
                        THEN NoSensor ELSE sens[s]
  BY <1>1, <1>2, <1>3, <1>7
<1>8. QED  BY <1>6, <1>7 DEF after, plan

-----------------------------------------------------------------------------
(* The files                                                               *)

(* What the walk over a batch has at any file: the names of those it kept  *)
(* are apart, and taken.                                                   *)
KeptStates ==
    {acc \in [kept : Seq(File), owner : SUBSET Sensors] :
        NamesAreApart(acc.kept) /\ \A i \in DOMAIN acc.kept : Named(acc.kept[i]) \subseteq acc.owner}

(* A file is kept only when it names no sensor of a file kept before.      *)
LEMMA KeepsApart ==
    ASSUME NEW acc \in KeptStates, NEW file \in File
    PROVE  KeepUnlessTaken(acc, file) \in KeptStates
<1> DEFINE new == KeepUnlessTaken(acc, file)
<1>1. /\ acc.kept \in Seq(File) /\ acc.owner \in SUBSET Sensors /\ NamesAreApart(acc.kept)
      /\ \A i \in DOMAIN acc.kept : Named(acc.kept[i]) \subseteq acc.owner
  BY DEF KeptStates
<1>2. /\ new.owner = acc.owner \cup Named(file)
      /\ new.kept = IF Named(file) \cap acc.owner = {} THEN Append(acc.kept, file) ELSE acc.kept
      /\ new = [kept |-> new.kept, owner |-> new.owner]
  BY DEF KeepUnlessTaken
<1>3. Named(file) \in SUBSET Sensors
  BY DEF Named
<1> HIDE DEF new
<1>4. CASE Named(file) \cap acc.owner = {}
  <2> DEFINE n == Len(acc.kept)
  <2>1. /\ n \in Nat /\ DOMAIN acc.kept = 1..n /\ new.kept \in Seq(File)
        /\ DOMAIN new.kept = 1..(n + 1) /\ new.kept[n + 1] = file
        /\ \A i \in 1..n : new.kept[i] = acc.kept[i]
    BY <1>1, <1>2, <1>4
  <2>2. \A i \in 1..(n + 1) : i = n + 1 \/ i \in 1..n
    BY <2>1
  <2> HIDE DEF n
  <2>3. \A i \in 1..n : Named(new.kept[i]) \subseteq acc.owner
    BY <1>1, <2>1
  <2>4. Named(new.kept[n + 1]) = Named(file)
    BY <2>1
  <2>5. ASSUME NEW i \in 1..(n + 1), NEW k \in 1..(n + 1), i # k
        PROVE  Named(new.kept[i]) \cap Named(new.kept[k]) = {}
    <3>1. CASE i \in 1..n /\ k \in 1..n
      BY <1>1, <2>1, <2>5, <3>1 DEF NamesAreApart
    <3>2. CASE i = n + 1 /\ k \in 1..n
      BY <1>4, <2>3, <2>4, <3>2
    <3>3. CASE i \in 1..n /\ k = n + 1
      BY <1>4, <2>3, <2>4, <3>3
    <3>4. QED  BY <2>2, <2>5, <3>1, <3>2, <3>3
  <2>6. NamesAreApart(new.kept)
    BY <2>1, <2>5 DEF NamesAreApart
  <2>7. \A i \in DOMAIN new.kept : Named(new.kept[i]) \subseteq new.owner
    BY <1>2, <2>1, <2>2, <2>3, <2>4
  <2>8. QED  BY <1>1, <1>2, <1>3, <2>1, <2>6, <2>7 DEF KeptStates, new
<1>5. CASE Named(file) \cap acc.owner # {}
  <2>1. new.kept = acc.kept
    BY <1>2, <1>5
  <2>2. QED  BY <1>1, <1>2, <1>3, <2>1 DEF KeptStates, new
<1>6. QED  BY <1>4, <1>5

(* An apply goes on with files that name no sensor twice.                  *)
LEMMA ConflictsRefused ==
    ASSUME NEW batch \in Seq(File)
    PROVE  /\ RefuseSensorNameConflicts(batch) \in Seq(File)
           /\ NamesAreApart(RefuseSensorNameConflicts(batch))
<1> DEFINE n == Len(batch)
           Y == KeptStates
           b == [kept |-> <<>>, owner |-> {}]
           G == [y \in Y |-> [x \in File |-> KeepUnlessTaken(y, x)]]
           IsAfter(f) == f = [k \in 0..n |-> IF k = 0 THEN b ELSE KeepUnlessTaken(f[k - 1], batch[k])]
           f == CHOOSE f : IsAfter(f)
<1>1. StepFunction(G, Y, File)
  BY KeepsApart DEF StepFunction
<1>2. b \in Y
  <2>1. <<>> \in Seq(File) /\ NamesAreApart(<<>>)
    BY DEF NamesAreApart
  <2>2. QED  BY <2>1 DEF KeptStates
<1>3. PICK g : Steps(g, Y, b, G, batch)
  <2> HIDE DEF Y, G, b
  <2>1. QED  BY <1>1, <1>2, StepsExist
<1>4. n \in Nat /\ \A k \in 1..n : batch[k] \in File
  OBVIOUS
<1> HIDE DEF b
<1>5. g \in [0..n -> Y] /\ g[0] = b /\ \A k \in 1..n : g[k] = KeepUnlessTaken(g[k - 1], batch[k])
  <2>1. g \in [0..n -> Y] /\ g[0] = b /\ \A k \in 1..n : g[k] = G[g[k - 1]][batch[k]]
    BY <1>3 DEF Steps
  <2>2. \A k \in 1..n : k - 1 \in 0..n
    BY <1>4
  <2> HIDE DEF Y
  <2>3. QED  BY <1>4, <2>1, <2>2
<1>6. \A y \in Y, x \in File : G[y][x] = KeepUnlessTaken(y, x)
  OBVIOUS
<1> HIDE DEF G, Y
<1>7. IsAfter(g)
  BY <1>4, <1>5
<1>8. IsAfter(f)
  <2> HIDE DEF IsAfter
  <2>1. QED  BY <1>7
<1>9. CheckGlobalSensorNames(batch) = f[n]
  BY DEF CheckGlobalSensorNames, b
<1> HIDE DEF f
<1>10. f[0] = b /\ \A k \in 1..n : f[k] = KeepUnlessTaken(f[k - 1], batch[k])
  BY <1>4, <1>8
<1>11. f[n] = g[n]
  <2>1. Follows(f, Y, b, G, batch)
    BY <1>4, <1>6, <1>10 DEF Follows
  <2>2. QED  BY <1>3, <1>4, <2>1, StepsAgree
<1>12. CheckGlobalSensorNames(batch) \in KeptStates
  BY <1>4, <1>5, <1>9, <1>11 DEF Y
<1>13. QED  BY <1>12 DEF KeptStates, RefuseSensorNameConflicts

-----------------------------------------------------------------------------
(* The invariant: a plan is what the rows ask for as they stand, for its   *)
(* command has the lock under which they stand.                            *)
PlansAreFresh ==
    \A p \in Commands : plans[p] # <<>> =>
        stateLock = p /\ plans[p] = PlansFor(files[p], schedules, sensors)

ApplyInv ==
    /\ ApplyTypes /\ PlansAreFresh /\ RowsAreOwned(sensors)
    /\ \A p \in Commands : NamesAreApart(files[p])

(* The first state.                                                        *)
LEMMA ApplyInvInit == ApplyInit => ApplyInv
<1> SUFFICES ASSUME ApplyInit PROVE ApplyInv
  OBVIOUS
<1>1. <<>> \in Seq(File) /\ <<>> \in Seq(FilePlans) /\ 0 \in 0..MaxDrift
  BY FilesAssumption
<1>2. current \in Pointers /\ stateLock = "none"
  BY DEF ApplyInit, Pointers
<1>3. schedules \in ScheduleRows
  BY <1>1 DEF ApplyInit, ScheduleRows, NoSchedule
<1>4. sensors \in SensorRows /\ RowsAreOwned(sensors)
  BY <1>1 DEF ApplyInit, SensorRows, NoSensor, RowsAreOwned
<1>5. files \in [Commands -> Seq(File)] /\ plans \in [Commands -> Seq(FilePlans)]
  BY <1>1 DEF ApplyInit
<1>6. \A p \in Commands : files[p] = <<>> /\ plans[p] = <<>>
  BY DEF ApplyInit
<1>7. NamesAreApart(<<>>)
  BY DEF NamesAreApart
<1>8. QED
  BY <1>2, <1>3, <1>4, <1>5, <1>6, <1>7 DEF ApplyInv, ApplyTypes, PlansAreFresh

(* While no command holds the lock there is no plan.                       *)
LEMMA NoPlans ==
    ASSUME ApplyInv, stateLock \in {"none", "daemon"}
    PROVE  \A p \in Commands : plans[p] = <<>>
BY HoldersAssumption DEF ApplyInv, PlansAreFresh

(* A step that moves rows while no command holds the lock.                 *)
LEMMA RowsMove ==
    ASSUME ApplyInv, stateLock \in {"none", "daemon"}, UNCHANGED <<files, plans>>,
           stateLock' \in {"none", "daemon"}, current' = current,
           schedules' \in ScheduleRows, sensors' \in SensorRows, RowsAreOwned(sensors')
    PROVE  ApplyInv'
<1>1. PlansAreFresh'
  BY NoPlans DEF PlansAreFresh
<1>2. RowsAreOwned(sensors)'
  BY DEF RowsAreOwned
<1>3. \A p \in Commands : NamesAreApart(files[p])'
  BY DEF ApplyInv, NamesAreApart, Named, Declares
<1>4. QED  BY <1>1, <1>2, <1>3 DEF ApplyInv, ApplyTypes

(* A command that gives up the lock with its files and its plans.          *)
LEMMA CommandEnds ==
    ASSUME ApplyInv, NEW p \in Commands, stateLock = p, stateLock' = "none",
           files' = [files EXCEPT ![p] = <<>>], plans' = [plans EXCEPT ![p] = <<>>],
           current' \in Pointers, schedules' \in ScheduleRows, sensors' \in SensorRows,
           RowsAreOwned(sensors')
    PROVE  ApplyInv'
<1>1. files \in [Commands -> Seq(File)] /\ plans \in [Commands -> Seq(FilePlans)]
  BY DEF ApplyInv, ApplyTypes
<1>2. <<>> \in Seq(File) /\ <<>> \in Seq(FilePlans)
  OBVIOUS
<1>3. files' \in [Commands -> Seq(File)] /\ plans' \in [Commands -> Seq(FilePlans)]
  BY <1>1, <1>2
<1>4. \A q \in Commands : plans'[q] = <<>>
  <2>1. \A q \in Commands : q # p => plans[q] = <<>>
    BY DEF ApplyInv, PlansAreFresh
  <2>2. QED  BY <1>1, <2>1
<1>5. PlansAreFresh'
  BY <1>4 DEF PlansAreFresh
<1>6. \A q \in Commands : NamesAreApart(files[q])'
  <2>1. \A q \in Commands : files'[q] = IF q = p THEN <<>> ELSE files[q]
    BY <1>1
  <2>2. QED  BY <2>1 DEF ApplyInv, NamesAreApart, Named, Declares
<1>7. RowsAreOwned(sensors)'
  BY DEF RowsAreOwned
<1>8. QED  BY <1>3, <1>5, <1>6, <1>7 DEF ApplyInv, ApplyTypes

(* What the transaction writes are rows again.                             *)
LEMMA CommitTypes ==
    ASSUME ApplyInv, NEW p \in Commands, stateLock = p, plans[p] # <<>>
    PROVE  /\ files[p] \in Seq(File) /\ NamesAreApart(files[p])
           /\ plans[p] = PlansFor(files[p], schedules, sensors)
           /\ CurrentAfter(files[p]) \in Pointers
           /\ SchedulesAfter(files[p], plans[p], schedules) \in ScheduleRows
           /\ SensorsAfter(files[p], plans[p], sensors) \in SensorRows
           /\ RowsAreOwned(SensorsAfter(files[p], plans[p], sensors))
<1>1. /\ files[p] \in Seq(File) /\ NamesAreApart(files[p]) /\ RowsAreOwned(sensors)
      /\ plans[p] = PlansFor(files[p], schedules, sensors)
      /\ current \in Pointers /\ schedules \in ScheduleRows /\ sensors \in SensorRows
  BY DEF ApplyInv, ApplyTypes, PlansAreFresh
<1>2. CurrentAfter(files[p]) \in Pointers
  BY <1>1, PointersAfter
<1>3. SchedulesAfter(files[p], plans[p], schedules) \in ScheduleRows
  BY <1>1, SchedulesSynced
<1>4. /\ SensorsAfter(files[p], plans[p], sensors) \in SensorRows
      /\ RowsAreOwned(SensorsAfter(files[p], plans[p], sensors))
  BY <1>1, SensorsTyped
<1>5. QED  BY <1>1, <1>2, <1>3, <1>4

(* Every step keeps the invariant.                                         *)
LEMMA ApplyInvStep ==
    ASSUME ApplyInv, [ApplyNext]_applyVars
    PROVE  ApplyInv'
<1> USE DEF catalog
<1>1. ASSUME NEW p \in Commands, LoadFiles(p)
      PROVE  ApplyInv'
  <2>1. PICK batch \in Batches : files' = [files EXCEPT ![p] = RefuseSensorNameConflicts(batch)]
    BY <1>1 DEF LoadFiles
  <2>2. batch \in Seq(File)
    BY <2>1, FilesAssumption DEF Batches
  <2>3. /\ RefuseSensorNameConflicts(batch) \in Seq(File)
        /\ NamesAreApart(RefuseSensorNameConflicts(batch))
    BY <2>2, ConflictsRefused
  <2>4. files \in [Commands -> Seq(File)]
    BY DEF ApplyInv, ApplyTypes
  <2>5. plans[p] = <<>>
    <3>1. CASE plans[p] # <<>>
      <4>1. plans[p] = PlansFor(<<>>, schedules, sensors)
        BY <1>1, <3>1 DEF ApplyInv, PlansAreFresh, LoadFiles
      <4>2. QED  BY <3>1, <4>1 DEF PlansFor
    <3>2. QED  BY <3>1
  <2>6. \A q \in Commands : files'[q] = IF q = p THEN RefuseSensorNameConflicts(batch) ELSE files[q]
    BY <2>1, <2>4
  <2>7. ApplyTypes'
    BY <1>1, <2>1, <2>3, <2>4 DEF ApplyInv, ApplyTypes, LoadFiles
  <2>8. PlansAreFresh'
    BY <1>1, <2>5, <2>6 DEF ApplyInv, PlansAreFresh, LoadFiles
  <2>9. \A q \in Commands : NamesAreApart(files'[q])
    BY <2>3, <2>6 DEF ApplyInv
  <2>10. QED
    BY <1>1, <2>7, <2>8, <2>9 DEF ApplyInv, RowsAreOwned, NamesAreApart, LoadFiles
<1>2. ASSUME NEW p \in Commands, OpenApplyState(p)
      PROVE  ApplyInv'
  <2>1. \A q \in Commands : plans'[q] = <<>>
    BY <1>2, NoPlans DEF OpenApplyState
  <2>2. QED
    BY <1>2, <2>1 DEF ApplyInv, ApplyTypes, PlansAreFresh, RowsAreOwned, NamesAreApart, OpenApplyState
<1>3. ASSUME NEW p \in Commands, Refused(p)
      PROVE  ApplyInv'
  <2>1. plans[p] = <<>>
    BY <1>3 DEF ApplyInv, PlansAreFresh, Refused
  <2>2. files \in [Commands -> Seq(File)] /\ <<>> \in Seq(File)
    BY DEF ApplyInv, ApplyTypes
  <2>3. \A q \in Commands : files'[q] = IF q = p THEN <<>> ELSE files[q]
    BY <1>3, <2>2 DEF Refused
  <2>4. ApplyTypes'
    BY <1>3, <2>2 DEF ApplyInv, ApplyTypes, Refused
  <2>5. PlansAreFresh'
    BY <1>3, <2>1, <2>3 DEF ApplyInv, PlansAreFresh, Refused
  <2>6. \A q \in Commands : NamesAreApart(files'[q])
    BY <2>3 DEF ApplyInv, NamesAreApart
  <2>7. QED  BY <1>3, <2>4, <2>5, <2>6 DEF ApplyInv, RowsAreOwned, NamesAreApart, Refused
<1>4. ASSUME NEW p \in Commands, PlanJobs(p)
      PROVE  ApplyInv'
  <2>1. plans \in [Commands -> Seq(FilePlans)] /\ files[p] \in Seq(File)
    BY DEF ApplyInv, ApplyTypes
  <2>2. PlansFor(files[p], schedules, sensors) \in Seq(FilePlans)
    <3> DEFINE batch == files[p]
               new == PlansFor(batch, schedules, sensors)
    <3>1. \A i \in DOMAIN batch : new[i] \in FilePlans
      BY <2>1, PlanOf
    <3>2. DOMAIN batch = 1..Len(batch) /\ Len(batch) \in Nat
      BY <2>1
    <3>3. new = [i \in DOMAIN batch |-> new[i]]
      BY DEF PlansFor
    <3> HIDE DEF new, batch
    <3>4. new \in [1..Len(batch) -> FilePlans]
      BY <3>1, <3>2, <3>3
    <3>5. new \in Seq(FilePlans)
      BY <3>2, <3>4
    <3>6. QED  BY <3>5 DEF new, batch
  <2>3. \A q \in Commands : plans'[q] = IF q = p THEN PlansFor(files[p], schedules, sensors) ELSE plans[q]
    BY <1>4, <2>1 DEF PlanJobs
  <2>4. ApplyTypes'
    BY <1>4, <2>1, <2>2 DEF ApplyInv, ApplyTypes, PlanJobs
  <2>5. PlansAreFresh'
    BY <1>4, <2>3 DEF ApplyInv, PlansAreFresh, PlanJobs
  <2>6. QED  BY <1>4, <2>4, <2>5 DEF ApplyInv, RowsAreOwned, NamesAreApart, PlanJobs
<1>5. ASSUME NEW p \in Commands, ApplyJobs(p)
      PROVE  ApplyInv'
  <2>1. stateLock = p /\ plans[p] # <<>>
    BY <1>5 DEF ApplyJobs
  <2>2. CASE UNCHANGED catalog
    BY <1>5, <2>1, <2>2, CommandEnds DEF ApplyInv, ApplyTypes, ApplyJobs
  <2>3. CASE /\ current' = CurrentAfter(files[p])
             /\ sensors' = SensorsAfter(files[p], plans[p], sensors)
             /\ schedules' = SchedulesAfter(files[p], plans[p], schedules)
    <3>1. /\ current' \in Pointers /\ schedules' \in ScheduleRows /\ sensors' \in SensorRows
          /\ RowsAreOwned(sensors')
      BY <2>1, <2>3, CommitTypes
    <3>2. QED  BY <1>5, <2>1, <3>1, CommandEnds DEF ApplyJobs
  <2>4. QED  BY <1>5, <2>2, <2>3 DEF ApplyJobs
<1>6. ASSUME NEW p \in Commands, ApplyFails(p)
      PROVE  ApplyInv'
  BY <1>6, CommandEnds DEF ApplyInv, ApplyTypes, ApplyFails
<1>7. CASE DaemonStarts \/ DaemonStops
  BY <1>7, RowsMove DEF ApplyInv, ApplyTypes, DaemonStarts, DaemonStops
<1>8. ASSUME NEW j \in Jobs, NEW n \in Schedules, Tick(j, n) \/ PauseSchedule(j, n)
      PROVE  ApplyInv'
  <2>1. MoveSchedule(j, n) /\ stateLock \in {"none", "daemon"}
    BY <1>8 DEF Tick, PauseSchedule
  <2>2. schedules \in ScheduleRows /\ MaxDrift \in Nat
    BY FilesAssumption DEF ApplyInv, ApplyTypes
  <2>3. schedules' \in ScheduleRows
    <3> DEFINE old == schedules[j][n]
               moved == [old EXCEPT !.drift = old.drift + 1]
    <3>1. schedules[j] \in [Schedules -> ScheduleRow]
      BY <2>2 DEF ScheduleRows, ScheduleRow
    <3>2. old \in ScheduleRow /\ old.drift + 1 \in 0..MaxDrift
      BY <2>1, <2>2, <3>1 DEF MoveSchedule, ScheduleRow
    <3>3. moved \in ScheduleRow
      BY <3>2 DEF ScheduleRow
    <3>4. schedules' = [schedules EXCEPT ![j] = [schedules[j] EXCEPT ![n] = moved]]
      BY <2>1 DEF MoveSchedule
    <3> HIDE DEF moved
    <3>5. [schedules[j] EXCEPT ![n] = moved] \in [Schedules -> ScheduleRow]
      BY <3>1, <3>3
    <3>6. schedules \in [Jobs -> [Schedules -> ScheduleRow]]
      BY <2>2 DEF ScheduleRows, ScheduleRow
    <3>7. schedules' \in [Jobs -> [Schedules -> ScheduleRow]]
      BY <3>4, <3>5, <3>6
    <3>8. QED  BY <3>7 DEF ScheduleRows, ScheduleRow
  <2>4. QED  BY <2>1, <2>3, RowsMove DEF ApplyInv, ApplyTypes, MoveSchedule
<1>9. ASSUME NEW s \in Sensors, Evaluate(s) \/ PauseSensor(s)
      PROVE  ApplyInv'
  <2>1. MoveSensor(s) /\ stateLock \in {"none", "daemon"}
    BY <1>9 DEF Evaluate, PauseSensor
  <2>2. sensors \in SensorRows /\ MaxDrift \in Nat /\ RowsAreOwned(sensors)
    BY FilesAssumption DEF ApplyInv, ApplyTypes
  <2>3. sensors[s] \in SensorRow /\ sensors[s].drift + 1 \in 0..MaxDrift
    BY <2>1, <2>2 DEF MoveSensor, SensorRows, SensorRow
  <2> DEFINE moved == [sensors[s] EXCEPT !.drift = sensors[s].drift + 1]
  <2>4. moved \in SensorRow /\ moved.job = sensors[s].job /\ moved.def = sensors[s].def
    BY <2>3 DEF SensorRow
  <2>5. sensors' = [sensors EXCEPT ![s] = moved]
    BY <2>1 DEF MoveSensor
  <2> HIDE DEF moved
  <2>6. sensors' \in SensorRows /\ RowsAreOwned(sensors')
    <3>1. sensors \in [Sensors -> SensorRow]
      BY <2>2 DEF SensorRows, SensorRow
    <3>2. sensors' \in [Sensors -> SensorRow]
      BY <2>4, <2>5, <3>1
    <3>3. \A t \in Sensors : sensors'[t].job = sensors[t].job /\ sensors'[t].def = sensors[t].def
      BY <2>4, <2>5, <3>1
    <3>4. QED  BY <2>2, <3>2, <3>3 DEF SensorRows, SensorRow, RowsAreOwned
  <2>7. QED  BY <2>1, <2>6, RowsMove DEF ApplyInv, ApplyTypes, MoveSensor
<1>10. CASE UNCHANGED applyVars
  BY <1>10 DEF ApplyInv, ApplyTypes, PlansAreFresh, RowsAreOwned, NamesAreApart, applyVars
<1>11. QED
  BY <1>1, <1>2, <1>3, <1>4, <1>5, <1>6, <1>7, <1>8, <1>9, <1>10 DEF ApplyNext

(* The invariant holds in every state.                                     *)
THEOREM ApplyInvariant == ApplySpec => []ApplyInv
<1>1. ApplyInit => ApplyInv
  BY ApplyInvInit
<1>2. ApplyInv /\ [ApplyNext]_applyVars => ApplyInv'
  BY ApplyInvStep
<1>3. QED  BY <1>1, <1>2, PTL DEF ApplySpec

-----------------------------------------------------------------------------
(* The transaction that lands                                              *)

(* Rows change under a plan only by the commit of that plan.               *)
LEMMA OnlyCommits ==
    ASSUME ApplyInv, ApplyNext, NEW p \in Commands, Committed(p)
    PROVE  /\ stateLock = p /\ plans[p] # <<>>
           /\ current' = CurrentAfter(files[p])
           /\ sensors' = SensorsAfter(files[p], plans[p], sensors)
           /\ schedules' = SchedulesAfter(files[p], plans[p], schedules)
           /\ ~RefusedNames(files[p], plans[p], sensors)
<1>1. /\ stateLock = p /\ plans[p] # <<>> /\ plans'[p] = <<>> /\ catalog' # catalog
      /\ stateLock \notin {"none", "daemon"}
  BY HoldersAssumption DEF Committed
<1>2. \A j \in Jobs, n \in Schedules : ~Tick(j, n) /\ ~PauseSchedule(j, n)
  BY <1>1 DEF Tick, PauseSchedule
<1>3. \A s \in Sensors : ~Evaluate(s) /\ ~PauseSensor(s)
  BY <1>1 DEF Evaluate, PauseSensor
<1>4. \A q \in Commands : ~LoadFiles(q) /\ ~OpenApplyState(q) /\ ~Refused(q) /\ ~PlanJobs(q) /\ ~ApplyFails(q)
  BY <1>1 DEF LoadFiles, OpenApplyState, Refused, PlanJobs, ApplyFails, catalog
<1>5. ~DaemonStarts /\ ~DaemonStops
  BY <1>1 DEF DaemonStarts, DaemonStops
<1>6. PICK q \in Commands : ApplyJobs(q)
  BY <1>2, <1>3, <1>4, <1>5 DEF ApplyNext
<1>7. q = p
  BY <1>1, <1>6 DEF ApplyJobs
<1>8. QED  BY <1>1, <1>6, <1>7 DEF ApplyJobs

(* What the commit makes of every row, where one file speaks for a job.    *)
LEMMA CommitRows ==
    ASSUME ApplyInv, ApplyNext, NEW p \in Commands, Committed(p), OneFileAJob(files[p])
    PROVE  LET batch == files[p] IN
           /\ \A i \in DOMAIN batch :
                 /\ batch[i] \in File /\ current'[batch[i].job] = batch[i].doc
                 /\ schedules'[batch[i].job] = [n \in Schedules |->
                       SyncedRow(schedules[batch[i].job][n], batch[i].doc.schedules[n])]
                 /\ \A s \in Sensors :
                       Declares(batch[i], s) => sensors'[s] = DeclaredRow(sensors[s], batch[i], s)
           /\ \A s \in Sensors : (\A i \in DOMAIN batch : ~Declares(batch[i], s)) =>
                 sensors'[s] = IF \E i \in DOMAIN batch : sensors[s].job = batch[i].job
                               THEN NoSensor ELSE sensors[s]
           /\ \A j \in Jobs \ {batch[i].job : i \in DOMAIN batch} :
                 schedules'[j] = schedules[j] /\ current'[j] = current[j]
           /\ NamesAreApart(batch) /\ ~ForeignName(batch, sensors)
<1> DEFINE batch == files[p]
<1>1. /\ stateLock = p /\ plans[p] # <<>>
      /\ current' = CurrentAfter(batch)
      /\ sensors' = SensorsAfter(batch, plans[p], sensors)
      /\ schedules' = SchedulesAfter(batch, plans[p], schedules)
      /\ ~RefusedNames(batch, plans[p], sensors)
  BY OnlyCommits
<1>2. batch \in Seq(File) /\ NamesAreApart(batch) /\ plans[p] = PlansFor(batch, schedules, sensors)
  BY <1>1, CommitTypes
<1>3. current \in Pointers /\ schedules \in ScheduleRows /\ sensors \in SensorRows /\ RowsAreOwned(sensors)
  BY DEF ApplyInv, ApplyTypes
<1>4. OneFileAJob(batch)
  OBVIOUS
<1> HIDE DEF batch
<1>5. ~ForeignName(batch, sensors)
  BY <1>1, <1>2, <1>3, RefusedIsForeign
<1>6. \A i \in DOMAIN batch : batch[i] \in File /\ current'[batch[i].job] = batch[i].doc
  BY <1>1, <1>2, <1>3, <1>4, PointersAfter
<1>7. \A i \in DOMAIN batch : schedules'[batch[i].job] = [n \in Schedules |->
         SyncedRow(schedules[batch[i].job][n], batch[i].doc.schedules[n])]
  BY <1>1, <1>2, <1>3, <1>4, SchedulesSynced
<1>8. \A s \in Sensors :
         /\ \A i \in DOMAIN batch :
               Declares(batch[i], s) => sensors'[s] = DeclaredRow(sensors[s], batch[i], s)
         /\ (\A i \in DOMAIN batch : ~Declares(batch[i], s)) =>
               sensors'[s] = IF \E i \in DOMAIN batch : sensors[s].job = batch[i].job
                             THEN NoSensor ELSE sensors[s]
  BY <1>1, <1>2, <1>3, <1>4, <1>5, SensorsSynced
<1>9. \A j \in Jobs \ {batch[i].job : i \in DOMAIN batch} :
         schedules'[j] = schedules[j] /\ current'[j] = current[j]
  BY <1>1, <1>2, <1>3, PointersAfter, SchedulesSynced
<1>10. QED  BY <1>2, <1>5, <1>6, <1>7, <1>8, <1>9 DEF batch

(* An apply that lands leaves exactly its files' rows and versions, and    *)
(* other jobs alone.                                                       *)
LEMMA CommitLandsComplete ==
    ASSUME ApplyInv, ApplyNext, NEW p \in Commands, Committed(p), OneFileAJob(files[p])
    PROVE  LandsComplete(files[p])
<1> DEFINE batch == files[p]
<1>1. \A i \in DOMAIN batch :
         /\ batch[i] \in File /\ current'[batch[i].job] = batch[i].doc
         /\ schedules'[batch[i].job] = [n \in Schedules |->
               SyncedRow(schedules[batch[i].job][n], batch[i].doc.schedules[n])]
         /\ \A s \in Sensors :
               Declares(batch[i], s) => sensors'[s] = DeclaredRow(sensors[s], batch[i], s)
  BY CommitRows
<1>2. \A s \in Sensors : (\A i \in DOMAIN batch : ~Declares(batch[i], s)) =>
         sensors'[s] = IF \E i \in DOMAIN batch : sensors[s].job = batch[i].job
                       THEN NoSensor ELSE sensors[s]
  BY CommitRows
<1>3. \A j \in Jobs \ {batch[i].job : i \in DOMAIN batch} :
         schedules'[j] = schedules[j] /\ current'[j] = current[j]
  BY CommitRows
<1>4. NamesAreApart(batch) /\ ~ForeignName(batch, sensors) /\ OneFileAJob(batch)
  BY CommitRows
<1> HIDE DEF batch
<1>5. \A i \in DOMAIN batch : batch[i].job \in Jobs /\ batch[i].job # NoJob
  BY <1>1, FileTypes
<1>6. ASSUME NEW i \in DOMAIN batch, NEW n \in Schedules
      PROVE  schedules'[batch[i].job][n].def = batch[i].doc.schedules[n]
  <2>1. schedules'[batch[i].job][n] = SyncedRow(schedules[batch[i].job][n], batch[i].doc.schedules[n])
    BY <1>1
  <2>2. QED  BY <2>1 DEF SyncedRow, NoSchedule
<1>7. ASSUME NEW i \in DOMAIN batch, NEW s \in Sensors
      PROVE  /\ (sensors'[s].job = batch[i].job) = Declares(batch[i], s)
             /\ Declares(batch[i], s) => sensors'[s].def = batch[i].doc.sensors[s]
  <2>1. CASE Declares(batch[i], s)
    <3>1. sensors'[s] = DeclaredRow(sensors[s], batch[i], s)
      BY <1>1, <2>1
    <3>2. sensors'[s].job = batch[i].job /\ sensors'[s].def = batch[i].doc.sensors[s]
      BY <3>1 DEF DeclaredRow
    <3>3. QED  BY <2>1, <3>2 DEF Declares
  <2>2. CASE ~Declares(batch[i], s) /\ \E k \in DOMAIN batch : Declares(batch[k], s)
    <3>1. PICK k \in DOMAIN batch : Declares(batch[k], s)
      BY <2>2
    <3>2. sensors'[s].job = batch[k].job
      <4>1. sensors'[s] = DeclaredRow(sensors[s], batch[k], s)
        BY <1>1, <3>1
      <4>2. QED  BY <4>1 DEF DeclaredRow
    <3>3. batch[k].job # batch[i].job
      BY <1>4, <2>2, <3>1 DEF OneFileAJob
    <3>4. QED  BY <2>2, <3>2, <3>3 DEF Declares
  <2>3. CASE \A k \in DOMAIN batch : ~Declares(batch[k], s)
    <3>1. sensors'[s].job # batch[i].job
      BY <1>2, <1>5, <2>3 DEF NoSensor
    <3>2. QED  BY <2>3, <3>1 DEF Declares
  <2>4. QED  BY <2>1, <2>2, <2>3
<1>8. ASSUME NEW j \in Jobs \ {batch[i].job : i \in DOMAIN batch}, NEW s \in Sensors, sensors[s].job = j
      PROVE  sensors'[s] = sensors[s]
  <2>1. \A k \in DOMAIN batch : sensors[s].job # batch[k].job
    BY <1>8
  <2>2. \A k \in DOMAIN batch : ~Declares(batch[k], s)
    BY <1>4, <1>8, <2>1, NoDefAssumption DEF ForeignName
  <2>3. QED  BY <1>2, <2>1, <2>2
<1>9. QED  BY <1>1, <1>3, <1>6, <1>7, <1>8 DEF LandsComplete, batch

(* ... and a row that lives on keeps what it has drifted by.               *)
LEMMA CommitKeepsDrift ==
    ASSUME ApplyInv, ApplyNext, NEW p \in Commands, Committed(p), OneFileAJob(files[p])
    PROVE  /\ \A j \in Jobs, n \in Schedules :
                 schedules[j][n].def # NoDef /\ schedules'[j][n].def # NoDef =>
                     schedules'[j][n].drift = schedules[j][n].drift
           /\ \A s \in Sensors : sensors'[s].job # NoJob =>
                 sensors'[s].drift = IF sensors[s].job = sensors'[s].job THEN sensors[s].drift ELSE 0
<1> DEFINE batch == files[p]
<1>1. \A i \in DOMAIN batch :
         /\ schedules'[batch[i].job] = [n \in Schedules |->
               SyncedRow(schedules[batch[i].job][n], batch[i].doc.schedules[n])]
         /\ \A s \in Sensors :
               Declares(batch[i], s) => sensors'[s] = DeclaredRow(sensors[s], batch[i], s)
  BY CommitRows
<1>2. \A s \in Sensors : (\A i \in DOMAIN batch : ~Declares(batch[i], s)) =>
         sensors'[s] = IF \E i \in DOMAIN batch : sensors[s].job = batch[i].job
                       THEN NoSensor ELSE sensors[s]
  BY CommitRows
<1>3. \A j \in Jobs \ {batch[i].job : i \in DOMAIN batch} : schedules'[j] = schedules[j]
  BY CommitRows
<1> HIDE DEF batch
<1>4. ASSUME NEW j \in Jobs, NEW n \in Schedules,
             schedules[j][n].def # NoDef, schedules'[j][n].def # NoDef
      PROVE  schedules'[j][n].drift = schedules[j][n].drift
  <2>1. CASE j \in {batch[i].job : i \in DOMAIN batch}
    <3>1. PICK i \in DOMAIN batch : j = batch[i].job
      BY <2>1
    <3>2. schedules'[j][n] = SyncedRow(schedules[j][n], batch[i].doc.schedules[n])
      BY <1>1, <3>1
    <3>3. QED  BY <1>4, <3>2 DEF SyncedRow, NoSchedule
  <2>2. CASE j \notin {batch[i].job : i \in DOMAIN batch}
    BY <1>3, <2>2
  <2>3. QED  BY <2>1, <2>2
<1>5. ASSUME NEW s \in Sensors, sensors'[s].job # NoJob
      PROVE  sensors'[s].drift = IF sensors[s].job = sensors'[s].job THEN sensors[s].drift ELSE 0
  <2>1. CASE \E i \in DOMAIN batch : Declares(batch[i], s)
    <3>1. PICK i \in DOMAIN batch : Declares(batch[i], s)
      BY <2>1
    <3>2. sensors'[s] = DeclaredRow(sensors[s], batch[i], s)
      BY <1>1, <3>1
    <3>3. QED  BY <3>2 DEF DeclaredRow
  <2>2. CASE \A i \in DOMAIN batch : ~Declares(batch[i], s)
    BY <1>2, <1>5, <2>2 DEF NoSensor
  <2>3. QED  BY <2>1, <2>2
<1>6. QED  BY <1>4, <1>5

(* The plans were made before the transaction's write lock, and still the  *)
(* apply that lands leaves what its files say and nothing else.            *)
THEOREM ApplyIsComplete == ApplySpec => CatalogIsTheBatch
<1>1. ApplyInv /\ [ApplyNext]_applyVars =>
         [\A p \in Commands : Committed(p) /\ OneFileAJob(files[p]) => LandsComplete(files[p])]_applyVars
  BY CommitLandsComplete
<1>2. QED  BY <1>1, ApplyInvariant, PTL DEF ApplySpec, CatalogIsTheBatch

(* A re-apply moves no cursor, pause or breaker of a row it keeps, and no  *)
(* sensor's row passes from job to job with them.                          *)
THEOREM ApplyKeepsDrift == ApplySpec => DriftSurvives
<1>1. ApplyInv /\ [ApplyNext]_applyVars =>
         [\A p \in Commands : Committed(p) /\ OneFileAJob(files[p]) =>
            /\ \A j \in Jobs, n \in Schedules :
                  schedules[j][n].def # NoDef /\ schedules'[j][n].def # NoDef =>
                      schedules'[j][n].drift = schedules[j][n].drift
            /\ \A s \in Sensors : sensors'[s].job # NoJob =>
                  sensors'[s].drift = IF sensors[s].job = sensors'[s].job THEN sensors[s].drift ELSE 0]_applyVars
  BY CommitKeepsDrift
<1>2. QED  BY <1>1, ApplyInvariant, PTL DEF ApplySpec, DriftSurvives

-----------------------------------------------------------------------------
(* Splitting and ordering the files                                        *)

(* What the files F, taken together, make of the rows.                     *)
Refusal(F, sens) ==
    \E s \in Sensors, f \in F :
        Declares(f, s) /\ sens[s].job # NoJob /\ \A g \in F : sens[s].job # g.job

SettlesSchedules(new, F, sched) ==
    /\ \A f \in F, n \in Schedules :
          new[f.job][n] = SyncedRow(sched[f.job][n], f.doc.schedules[n])
    /\ \A j \in Jobs : (\A f \in F : f.job # j) => new[j] = sched[j]

SettlesSensors(new, F, sens) ==
    \A s \in Sensors :
        /\ \A f \in F : Declares(f, s) => new[s] = DeclaredRow(sens[s], f, s)
        /\ (\A f \in F : ~Declares(f, s)) =>
              new[s] = IF \E f \in F : sens[s].job = f.job THEN NoSensor ELSE sens[s]

IsOutcome(o) ==
    /\ o \in [taken : BOOLEAN, schedules : ScheduleRows, sensors : SensorRows]
    /\ RowsAreOwned(o.sensors)

Settles(o, F, sched, sens) ==
    /\ IsOutcome(o) /\ o.taken = ~Refusal(F, sens)
    /\ IF o.taken THEN SettlesSchedules(o.schedules, F, sched) /\ SettlesSensors(o.sensors, F, sens)
       ELSE o.schedules = sched /\ o.sensors = sens

(* The outcome of a batch depends on its files and not on their order.     *)
LEMMA OutcomeSettles ==
    ASSUME NEW batch \in Seq(File), OneFileAJob(batch), NamesAreApart(batch),
           NEW sched \in ScheduleRows, NEW sens \in SensorRows, RowsAreOwned(sens),
           NEW F, F = {batch[i] : i \in DOMAIN batch}
    PROVE  Settles(Outcome(batch, sched, sens), F, sched, sens)
<1> DEFINE plan == PlansFor(batch, sched, sens)
           o == Outcome(batch, sched, sens)
           newSched == SchedulesAfter(batch, plan, sched)
           newSens == SensorsAfter(batch, plan, sens)
<1>1. Refusal(F, sens) <=> ForeignName(batch, sens)
  BY DEF Refusal, ForeignName
<1>2. RefusedNames(batch, plan, sens) <=> ForeignName(batch, sens)
  BY RefusedIsForeign
<1>3. newSched \in ScheduleRows /\ newSens \in SensorRows /\ RowsAreOwned(newSens)
  BY SchedulesSynced, SensorsTyped
<1>4. SettlesSchedules(newSched, F, sched)
  <2>1. /\ \A i \in DOMAIN batch : newSched[batch[i].job]
              = [n \in Schedules |-> SyncedRow(sched[batch[i].job][n], batch[i].doc.schedules[n])]
        /\ \A j \in Jobs \ {batch[i].job : i \in DOMAIN batch} : newSched[j] = sched[j]
    BY SchedulesSynced
  <2> HIDE DEF newSched
  <2>2. \A f \in F, n \in Schedules : newSched[f.job][n] = SyncedRow(sched[f.job][n], f.doc.schedules[n])
    <3> TAKE f \in F, n \in Schedules
    <3>1. PICK i \in DOMAIN batch : f = batch[i]
      OBVIOUS
    <3>2. newSched[f.job] = [m \in Schedules |-> SyncedRow(sched[f.job][m], f.doc.schedules[m])]
      BY <2>1, <3>1
    <3>3. QED  BY <3>2
  <2>3. \A j \in Jobs : (\A f \in F : f.job # j) => newSched[j] = sched[j]
    BY <2>1
  <2>4. QED  BY <2>2, <2>3 DEF SettlesSchedules
<1>5. ~ForeignName(batch, sens) => SettlesSensors(newSens, F, sens)
  <2> SUFFICES ASSUME ~ForeignName(batch, sens), NEW s \in Sensors
               PROVE  /\ \A f \in F : Declares(f, s) => newSens[s] = DeclaredRow(sens[s], f, s)
                      /\ (\A f \in F : ~Declares(f, s)) =>
                            newSens[s] = IF \E f \in F : sens[s].job = f.job THEN NoSensor ELSE sens[s]
    BY DEF SettlesSensors
  <2>1. /\ \A i \in DOMAIN batch : Declares(batch[i], s) => newSens[s] = DeclaredRow(sens[s], batch[i], s)
        /\ (\A i \in DOMAIN batch : ~Declares(batch[i], s)) =>
              newSens[s] = IF \E i \in DOMAIN batch : sens[s].job = batch[i].job
                           THEN NoSensor ELSE sens[s]
    BY SensorsSynced
  <2> HIDE DEF newSens
  <2>2. QED  BY <2>1
<1>6. o = IF RefusedNames(batch, plan, sens)
          THEN [taken |-> FALSE, schedules |-> sched, sensors |-> sens]
          ELSE [taken |-> TRUE, schedules |-> newSched, sensors |-> newSens]
  BY DEF Outcome
<1> HIDE DEF o, newSched, newSens, plan
<1>7. CASE RefusedNames(batch, plan, sens)
  <2>1. Refusal(F, sens) /\ o = [taken |-> FALSE, schedules |-> sched, sensors |-> sens]
    BY <1>1, <1>2, <1>6, <1>7
  <2>2. IsOutcome(o) /\ o.taken = FALSE /\ o.schedules = sched /\ o.sensors = sens
    BY <2>1 DEF IsOutcome
  <2>3. QED  BY <2>1, <2>2 DEF Settles, o
<1>8. CASE ~RefusedNames(batch, plan, sens)
  <2>1. ~Refusal(F, sens) /\ o = [taken |-> TRUE, schedules |-> newSched, sensors |-> newSens]
    BY <1>1, <1>2, <1>6, <1>8
  <2>2. IsOutcome(o) /\ o.taken = TRUE /\ o.schedules = newSched /\ o.sensors = newSens
    BY <1>3, <2>1 DEF IsOutcome
  <2>3. QED  BY <1>1, <1>4, <1>5, <1>2, <1>8, <2>1, <2>2 DEF Settles, o
<1>9. QED  BY <1>7, <1>8 DEF o

(* There is one such outcome.                                              *)
LEMMA SettlesOnce ==
    ASSUME NEW F \in SUBSET File, NEW sched \in ScheduleRows, NEW sens \in SensorRows,
           NEW a, NEW b, Settles(a, F, sched, sens), Settles(b, F, sched, sens)
    PROVE  a = b
<1>1. /\ a = [taken |-> a.taken, schedules |-> a.schedules, sensors |-> a.sensors]
      /\ b = [taken |-> b.taken, schedules |-> b.schedules, sensors |-> b.sensors]
      /\ a.taken = b.taken /\ a.taken \in BOOLEAN
      /\ {a.schedules, b.schedules} \subseteq ScheduleRows
      /\ {a.sensors, b.sensors} \subseteq SensorRows
  BY DEF Settles, IsOutcome
<1>2. CASE ~a.taken
  BY <1>1, <1>2 DEF Settles
<1>3. CASE a.taken
  <2>1. /\ SettlesSchedules(a.schedules, F, sched) /\ SettlesSchedules(b.schedules, F, sched)
        /\ SettlesSensors(a.sensors, F, sens) /\ SettlesSensors(b.sensors, F, sens)
    BY <1>1, <1>3 DEF Settles
  <2>2. ASSUME NEW j \in Jobs
        PROVE  a.schedules[j] = b.schedules[j]
    <3>1. CASE \A f \in F : f.job # j
      BY <2>1, <3>1 DEF SettlesSchedules
    <3>2. CASE \E f \in F : f.job = j
      <4>1. PICK f \in F : f.job = j
        BY <3>2
      <4>2. \A n \in Schedules : a.schedules[j][n] = b.schedules[j][n]
        BY <2>1, <4>1 DEF SettlesSchedules
      <4>3. a.schedules[j] \in [Schedules -> ScheduleRow] /\ b.schedules[j] \in [Schedules -> ScheduleRow]
        BY <1>1 DEF ScheduleRows, ScheduleRow
      <4>4. QED  BY <4>2, <4>3
    <3>3. QED  BY <3>1, <3>2
  <2>3. a.schedules = b.schedules
    BY <1>1, <2>2 DEF ScheduleRows
  <2>4. \A s \in Sensors : a.sensors[s] = b.sensors[s]
    BY <2>1 DEF SettlesSensors
  <2>5. a.sensors = b.sensors
    BY <1>1, <2>4 DEF SensorRows
  <2>6. QED  BY <1>1, <2>3, <2>5
<1>4. QED  BY <1>1, <1>2, <1>3

(* Two files of two jobs that name no sensor twice.                        *)
Apart(f, g) == f \in File /\ g \in File /\ f.job # g.job /\ Named(f) \cap Named(g) = {}

(* Two files that are apart make a batch, and so does each alone.          *)
LEMMA TwoFiles ==
    ASSUME NEW f, NEW g, Apart(f, g)
    PROVE  /\ <<f, g>> \in Seq(File) /\ OneFileAJob(<<f, g>>) /\ NamesAreApart(<<f, g>>)
           /\ {<<f, g>>[i] : i \in DOMAIN <<f, g>>} = {f, g}
           /\ <<f>> \in Seq(File) /\ OneFileAJob(<<f>>) /\ NamesAreApart(<<f>>)
           /\ {<<f>>[i] : i \in DOMAIN <<f>>} = {f}
           /\ f.job # NoJob /\ g.job # NoJob
           /\ \A s \in Sensors : ~(Declares(f, s) /\ Declares(g, s))
<1>1. f \in File /\ g \in File /\ f.job # g.job /\ Named(f) \cap Named(g) = {}
  BY DEF Apart
<1> DEFINE two == <<f, g>>
           one == <<f>>
<1>2. /\ two \in Seq(File) /\ DOMAIN two = {1, 2} /\ two[1] = f /\ two[2] = g
      /\ one \in Seq(File) /\ DOMAIN one = {1} /\ one[1] = f
  BY <1>1
<1> HIDE DEF two, one
<1>3. OneFileAJob(two) /\ OneFileAJob(one)
  BY <1>1, <1>2 DEF OneFileAJob
<1>4. NamesAreApart(two) /\ NamesAreApart(one)
  BY <1>1, <1>2 DEF NamesAreApart
<1>5. {two[i] : i \in DOMAIN two} = {f, g} /\ {one[i] : i \in DOMAIN one} = {f}
  BY <1>2
<1>6. f.job # NoJob /\ g.job # NoJob
  BY <1>1, FileTypes
<1>7. \A s \in Sensors : ~(Declares(f, s) /\ Declares(g, s))
  BY <1>1 DEF Named
<1>8. QED  BY <1>2, <1>3, <1>4, <1>5, <1>6, <1>7 DEF two, one

(* Two applies of a file each that both land make of the rows what one of  *)
(* both makes.                                                             *)
LEMMA TwoApplies ==
    ASSUME NEW f, NEW g, Apart(f, g), NEW sched \in ScheduleRows, NEW sens \in SensorRows,
           NEW a, Settles(a, {f}, sched, sens), a.taken,
           NEW b, Settles(b, {g}, a.schedules, a.sensors), b.taken
    PROVE  Settles(b, {f, g}, sched, sens)
<1>1. f.job # g.job /\ f.job # NoJob /\ g.job # NoJob /\ \A s \in Sensors : ~(Declares(f, s) /\ Declares(g, s))
  BY TwoFiles DEF Apart
<1>2. /\ ~Refusal({f}, sens) /\ SettlesSchedules(a.schedules, {f}, sched)
      /\ SettlesSensors(a.sensors, {f}, sens)
  BY DEF Settles
<1>3. /\ IsOutcome(b) /\ ~Refusal({g}, a.sensors)
      /\ SettlesSchedules(b.schedules, {g}, a.schedules) /\ SettlesSensors(b.sensors, {g}, a.sensors)
  BY DEF Settles
<1>4. \A s \in Sensors :
         /\ Declares(f, s) => a.sensors[s] = DeclaredRow(sens[s], f, s)
         /\ ~Declares(f, s) => a.sensors[s] = IF sens[s].job = f.job THEN NoSensor ELSE sens[s]
  BY <1>2 DEF SettlesSensors
<1>5. \A s \in Sensors :
         /\ Declares(g, s) => b.sensors[s] = DeclaredRow(a.sensors[s], g, s)
         /\ ~Declares(g, s) => b.sensors[s] = IF a.sensors[s].job = g.job THEN NoSensor ELSE a.sensors[s]
  BY <1>3 DEF SettlesSensors
<1>6. ~Refusal({f, g}, sens)
  <2> SUFFICES ASSUME NEW s \in Sensors, NEW x \in {f, g}, Declares(x, s), sens[s].job # NoJob,
                      sens[s].job # f.job, sens[s].job # g.job
               PROVE  FALSE
    BY DEF Refusal
  <2>1. CASE x = f
    BY <1>2, <2>1 DEF Refusal
  <2>2. CASE x = g
    <3>1. a.sensors[s] = sens[s]
      BY <1>1, <1>4, <2>2
    <3>2. QED  BY <1>3, <2>2, <3>1 DEF Refusal
  <2>3. QED  BY <2>1, <2>2
<1>7. SettlesSchedules(b.schedules, {f, g}, sched)
  <2>1. /\ \A n \in Schedules : a.schedules[f.job][n] = SyncedRow(sched[f.job][n], f.doc.schedules[n])
        /\ \A j \in Jobs : f.job # j => a.schedules[j] = sched[j]
    BY <1>2 DEF SettlesSchedules
  <2>2. /\ \A n \in Schedules : b.schedules[g.job][n] = SyncedRow(a.schedules[g.job][n], g.doc.schedules[n])
        /\ \A j \in Jobs : g.job # j => b.schedules[j] = a.schedules[j]
    BY <1>3 DEF SettlesSchedules
  <2>3. f.job \in Jobs /\ g.job \in Jobs
    BY FileTypes DEF Apart
  <2>4. QED  BY <1>1, <2>1, <2>2, <2>3 DEF SettlesSchedules
<1>8. SettlesSensors(b.sensors, {f, g}, sens)
  <2> SUFFICES ASSUME NEW s \in Sensors
               PROVE  /\ Declares(f, s) => b.sensors[s] = DeclaredRow(sens[s], f, s)
                      /\ Declares(g, s) => b.sensors[s] = DeclaredRow(sens[s], g, s)
                      /\ ~Declares(f, s) /\ ~Declares(g, s) =>
                            b.sensors[s] = IF sens[s].job = f.job \/ sens[s].job = g.job
                                           THEN NoSensor ELSE sens[s]
    BY DEF SettlesSensors
  <2>1. CASE Declares(f, s)
    <3>1. a.sensors[s] = DeclaredRow(sens[s], f, s) /\ ~Declares(g, s)
      BY <1>1, <1>4, <2>1
    <3>2. a.sensors[s].job = f.job
      BY <3>1 DEF DeclaredRow
    <3>3. QED  BY <1>1, <1>5, <2>1, <3>1, <3>2
  <2>2. CASE Declares(g, s)
    <3>1. ~Declares(f, s) /\ a.sensors[s] = IF sens[s].job = f.job THEN NoSensor ELSE sens[s]
      BY <1>1, <1>4, <2>2
    <3>2. b.sensors[s] = DeclaredRow(a.sensors[s], g, s)
      BY <1>5, <2>2
    <3>3. CASE sens[s].job = f.job
      <4>1. a.sensors[s].job # g.job /\ sens[s].job # g.job
        BY <1>1, <3>1, <3>3 DEF NoSensor
      <4>2. QED  BY <2>2, <3>1, <3>2, <4>1 DEF DeclaredRow
    <3>4. CASE sens[s].job # f.job
      BY <2>2, <3>1, <3>2, <3>4
    <3>5. QED  BY <3>3, <3>4
  <2>3. CASE ~Declares(f, s) /\ ~Declares(g, s)
    BY <1>1, <1>4, <1>5, <2>3 DEF NoSensor
  <2>4. QED  BY <2>1, <2>2, <2>3
<1>9. QED  BY <1>3, <1>6, <1>7, <1>8 DEF Settles, IsOutcome

(* An apply of what stands already changes nothing.                        *)
LEMMA ApplyAgain ==
    ASSUME NEW f, NEW g, Apart(f, g), NEW sched \in ScheduleRows, NEW sens \in SensorRows,
           NEW a, Settles(a, {f, g}, sched, sens), a.taken
    PROVE  Settles(a, {f, g}, a.schedules, a.sensors)
<1>1. f.job # g.job /\ f.job # NoJob /\ g.job # NoJob
  BY TwoFiles DEF Apart
<1>2. IsOutcome(a) /\ SettlesSchedules(a.schedules, {f, g}, sched) /\ SettlesSensors(a.sensors, {f, g}, sens)
  BY DEF Settles
<1>3. \A s \in Sensors, x \in {f, g} : Declares(x, s) => a.sensors[s] = DeclaredRow(sens[s], x, s)
  BY <1>2 DEF SettlesSensors
<1>4. \A s \in Sensors, x \in {f, g} : Declares(x, s) => a.sensors[s].job = x.job
  <2> TAKE s \in Sensors, x \in {f, g}
  <2>1. Declares(x, s) => a.sensors[s] = DeclaredRow(sens[s], x, s)
    BY <1>3
  <2>2. QED  BY <2>1 DEF DeclaredRow
<1>5. ~Refusal({f, g}, a.sensors)
  BY <1>4 DEF Refusal
<1>6. SettlesSchedules(a.schedules, {f, g}, a.schedules)
  <2>1. ASSUME NEW old, NEW def
        PROVE  SyncedRow(SyncedRow(old, def), def) = SyncedRow(old, def)
    BY DEF SyncedRow, NoSchedule
  <2>2. \A x \in {f, g}, n \in Schedules :
           a.schedules[x.job][n] = SyncedRow(sched[x.job][n], x.doc.schedules[n])
    BY <1>2 DEF SettlesSchedules
  <2>3. \A x \in {f, g}, n \in Schedules :
           a.schedules[x.job][n] = SyncedRow(a.schedules[x.job][n], x.doc.schedules[n])
    BY <2>1, <2>2
  <2>4. QED  BY <2>3 DEF SettlesSchedules
<1>7. SettlesSensors(a.sensors, {f, g}, a.sensors)
  <2>1. ASSUME NEW s \in Sensors, NEW x \in {f, g}, Declares(x, s)
        PROVE  a.sensors[s] = DeclaredRow(a.sensors[s], x, s)
    <3>1. a.sensors[s] = DeclaredRow(sens[s], x, s)
      BY <1>3, <2>1
    <3>2. QED  BY <3>1 DEF DeclaredRow
  <2>2. ASSUME NEW s \in Sensors, \A x \in {f, g} : ~Declares(x, s)
        PROVE  \A x \in {f, g} : a.sensors[s].job # x.job
    <3>1. a.sensors[s] = IF \E x \in {f, g} : sens[s].job = x.job THEN NoSensor ELSE sens[s]
      BY <1>2, <2>2 DEF SettlesSensors
    <3>2. QED  BY <1>1, <3>1 DEF NoSensor
  <2>3. QED  BY <2>1, <2>2 DEF SettlesSensors
<1>8. QED  BY <1>2, <1>5, <1>6, <1>7 DEF Settles, IsOutcome

(* The outcome of one file, and of two.                                    *)
LEMMA OutcomeOfOne ==
    ASSUME NEW f, NEW g, Apart(f, g),
           NEW sched \in ScheduleRows, NEW sens \in SensorRows, RowsAreOwned(sens)
    PROVE  /\ Settles(Outcome(<<f>>, sched, sens), {f}, sched, sens)
           /\ Settles(Outcome(<<f, g>>, sched, sens), {f, g}, sched, sens)
<1>1. /\ <<f, g>> \in Seq(File) /\ OneFileAJob(<<f, g>>) /\ NamesAreApart(<<f, g>>)
      /\ {<<f, g>>[i] : i \in DOMAIN <<f, g>>} = {f, g}
      /\ <<f>> \in Seq(File) /\ OneFileAJob(<<f>>) /\ NamesAreApart(<<f>>)
      /\ {<<f>>[i] : i \in DOMAIN <<f>>} = {f}
  BY TwoFiles
<1> DEFINE two == <<f, g>>
           one == <<f>>
<1>2. /\ two \in Seq(File) /\ OneFileAJob(two) /\ NamesAreApart(two)
      /\ {f, g} = {two[i] : i \in DOMAIN two}
      /\ one \in Seq(File) /\ OneFileAJob(one) /\ NamesAreApart(one)
      /\ {f} = {one[i] : i \in DOMAIN one}
  BY <1>1
<1> HIDE DEF two, one
<1>3. Settles(Outcome(one, sched, sens), {f}, sched, sens)
  BY <1>2, OutcomeSettles
<1>4. Settles(Outcome(two, sched, sens), {f, g}, sched, sens)
  BY <1>2, OutcomeSettles
<1>5. QED  BY <1>3, <1>4 DEF one, two

(* One apply of two files, in either order, is two applies of one; again   *)
(* changes nothing.                                                        *)
LEMMA OneOrTwo ==
    ASSUME ApplyInv, NEW f \in File, NEW g \in File, f.job # g.job, Named(f) \cap Named(g) = {}
    PROVE  LET both  == Outcome(<<f, g>>, schedules, sensors)
               first == Outcome(<<f>>, schedules, sensors)
               then  == Outcome(<<g>>, first.schedules, first.sensors)
           IN  /\ both = Outcome(<<g, f>>, schedules, sensors)
               /\ first.taken /\ then.taken => both = then
               /\ both.taken => Outcome(<<f, g>>, both.schedules, both.sensors) = both
<1> DEFINE both  == Outcome(<<f, g>>, schedules, sensors)
           other == Outcome(<<g, f>>, schedules, sensors)
           first == Outcome(<<f>>, schedules, sensors)
           then  == Outcome(<<g>>, first.schedules, first.sensors)
           again == Outcome(<<f, g>>, both.schedules, both.sensors)
           F     == {f, g}
<1>1. schedules \in ScheduleRows /\ sensors \in SensorRows /\ RowsAreOwned(sensors)
  BY DEF ApplyInv, ApplyTypes
<1>2. Apart(f, g) /\ Apart(g, f) /\ F \in SUBSET File /\ {g, f} = F
  BY DEF Apart
<1>3. Settles(both, F, schedules, sensors) /\ Settles(first, {f}, schedules, sensors)
  BY <1>1, <1>2, OutcomeOfOne
<1>4. Settles(other, F, schedules, sensors)
  <2>1. Settles(other, {g, f}, schedules, sensors)
    BY <1>1, <1>2, OutcomeOfOne
  <2>2. QED  BY <1>2, <2>1
<1>5. /\ first.schedules \in ScheduleRows /\ first.sensors \in SensorRows /\ RowsAreOwned(first.sensors)
      /\ both.schedules \in ScheduleRows /\ both.sensors \in SensorRows /\ RowsAreOwned(both.sensors)
  BY <1>3 DEF Settles, IsOutcome
<1>6. Settles(then, {g}, first.schedules, first.sensors)
  BY <1>2, <1>5, OutcomeOfOne
<1>7. Settles(again, F, both.schedules, both.sensors)
  BY <1>2, <1>5, OutcomeOfOne
<1> HIDE DEF both, other, first, then, again, F
<1>8. both = other
  BY <1>1, <1>2, <1>3, <1>4, SettlesOnce
<1>9. ASSUME first.taken, then.taken
      PROVE  both = then
  <2>1. Settles(then, F, schedules, sensors)
    BY <1>1, <1>2, <1>3, <1>6, <1>9, TwoApplies DEF F
  <2>2. QED  BY <1>1, <1>2, <1>3, <2>1, SettlesOnce
<1>10. ASSUME both.taken
       PROVE  again = both
  <2>1. Settles(both, F, both.schedules, both.sensors)
    BY <1>1, <1>2, <1>3, <1>10, ApplyAgain DEF F
  <2>2. QED  BY <1>2, <1>5, <1>7, <2>1, SettlesOnce
<1>11. QED  BY <1>8, <1>9, <1>10 DEF both, other, first, then, again

(* How the files of an apply are split and ordered does not matter.        *)
THEOREM SplitsAgree == ApplySpec => []OneApplyOrTwo
<1>1. ApplyInv => OneApplyOrTwo
  BY OneOrTwo DEF OneApplyOrTwo
<1>2. QED  BY <1>1, ApplyInvariant, PTL

=============================================================================
