------------------------------ MODULE Cutover -------------------------------
(***************************************************************************)
(* `paceq cutover`: the crontab lines of imported jobs are commented out   *)
(* under a marker, and rolled back again, by commands that read the        *)
(* crontab before they take the state lock and write it while holding it,  *)
(* beside other such commands, the user's own edits and crashes.           *)
(*                                                                         *)
(* A line is the number of '#' in front of a text.  The texts are the      *)
(* entries the import recorded, markers, and whatever else the user keeps. *)
(***************************************************************************)
EXTENDS Integers, FiniteSets, SequencesExt

CONSTANTS
    Imported,     \* the imported jobs, in name order
    Origin,       \* by job: the entry its import recorded
    Texts,        \* what lines say, a blank line and a marker among them
    Crontabs,     \* what the user's crontab may hold at the start
    Extra,        \* lines the user may add
    Operators,
    NoOne,
    MaxCommands,  \* bound: commands
    MaxEdits      \* bound: edits by the user

Names == Range(Imported)

ASSUME ImportedAssumption == Imported \in Seq(STRING) /\ IsInjective(Imported)
ASSUME TextsAssumption ==
    {"", "marker"} \subseteq Texts /\ Origin \in [Names -> Texts \ {"marker"}]
ASSUME CommandsAssumption ==
    MaxCommands \in Nat /\ MaxEdits \in Nat /\ NoOne \notin Operators /\ NoOne \notin Names

VARIABLES
    tab,       \* the crontab
    base,      \* the user's own crontab, were nothing cut over, as far as writes have
               \* not gone back on it (observation only)
    backups,   \* the contents of the backup files
    trail,     \* jobs whose latest row in cutover_events says cutover
    turned,    \* jobs that whole-file restores commented out or back, an odd number
               \* of times since a row last named them (observation only)
    proved,    \* jobs with a successful run
    holder,    \* who holds the state lock
    task,      \* by operator: the command in hand
    strayed,   \* a write missed the crontab it had read, or its rows were lost (observation only)
    commands, edits

tabVars     == <<tab, base, trail, turned, strayed>>
cutoverVars == <<tabVars, backups, proved, holder, task, commands, edits>>

Lines        == [n : Nat, text : Texts, of : Names \cup {NoOne}]
Hashed(k, t) == [n |-> k, text |-> t, of |-> NoOne]
Entry(t)     == Hashed(0, t)
Blank        == Hashed(0, "")
Marker(j)    == [n |-> 1, text |-> "marker", of |-> j]
Idle         == [pc |-> "idle", kind |-> "none", only |-> {}, force |-> FALSE,
                 read |-> <<>>, own |-> <<>>, result |-> <<>>, hit |-> {}]

-----------------------------------------------------------------------------
(* The rewriting                                                           *)

(* A marker that lost its '#' is no marker.                                *)
IsMarker(line) == line.text = "marker" /\ line.n = 1

MarkerJobs(content) == {content[i].of : i \in {k \in DOMAIN content : IsMarker(content[k])}}

(* The user writes no marker: those are a cutover's.                       *)
ASSUME ContentsAssumption ==
    /\ Crontabs \subseteq Seq(Lines) /\ \A content \in Crontabs : MarkerJobs(content) = {}
    /\ Extra \subseteq Lines /\ \A line \in Extra : ~IsMarker(line)

LineEqualsOrigin(line, j) == line = Entry(Origin[j])

(* The first of the wanted jobs, in their order, that this line is the     *)
(* origin of.                                                              *)
Taker(line, wanted) ==
    LET fit == {i \in DOMAIN Imported : Imported[i] \in wanted /\ LineEqualsOrigin(line, Imported[i])}
    IN  IF fit = {} THEN NoOne ELSE Imported[Min(fit)]

Commented(line) == [line EXCEPT !.n = @ + 1]
Restored(line)  == [line EXCEPT !.n = @ - 1]

(* Mutant: a job takes every line that matches it, under one marker.       *)
CommentLineUnderOneMarker(acc, line, wanted) ==
    LET j == Taker(line, wanted)
    IN  IF j = NoOne THEN [acc EXCEPT !.lines = Append(@, line)]
        ELSE [lines |-> Append(IF j \in acc.hit THEN acc.lines ELSE Append(acc.lines, Marker(j)),
                               Commented(line)),
              hit |-> acc.hit \cup {j}]

(* A job that consumed a line takes no other.                              *)
CommentLine(acc, line, wanted) ==
    LET j == Taker(line, wanted \ acc.hit)
    IN  IF j = NoOne THEN [acc EXCEPT !.lines = Append(@, line)]
        ELSE [lines |-> Append(Append(acc.lines, Marker(j)), Commented(line)),
              hit |-> acc.hit \cup {j}]

Comment(content, wanted) ==
    LET after[k \in 0..Len(content)] ==
            IF k = 0 THEN [lines |-> <<>>, hit |-> {}]
            ELSE CommentLine(after[k - 1], content[k], wanted)
    IN  after[Len(content)]

(* A marker in the filter goes, with one '#' of the line beneath; without  *)
(* a '#' beneath, a blank line takes its place.                            *)
Closed(acc) == IF acc.open THEN Append(acc.lines, Blank) ELSE acc.lines

UncommentLine(acc, line, only) ==
    IF acc.open /\ line.n > 0
    THEN [acc EXCEPT !.lines = Append(@, Restored(line)), !.open = FALSE]
    ELSE IF IsMarker(line) /\ (only = {} \/ line.of \in only)
         THEN [lines |-> Closed(acc), open |-> TRUE, hit |-> acc.hit \cup {line.of}]
         ELSE [acc EXCEPT !.lines = Append(Closed(acc), line), !.open = FALSE]

UncommentLines(content, only) ==
    LET after[k \in 0..Len(content)] ==
            IF k = 0 THEN [lines |-> <<>>, open |-> FALSE, hit |-> {}]
            ELSE UncommentLine(after[k - 1], content[k], only)
    IN  after[Len(content)]

Uncomment(content, only) ==
    LET last == UncommentLines(content, only) IN [lines |-> Closed(last), hit |-> last.hit]

-----------------------------------------------------------------------------
CutoverInit ==
    /\ tab \in Crontabs /\ base = tab
    /\ backups = {} /\ trail = {} /\ turned = {} /\ proved = {} /\ holder = NoOne
    /\ task = [o \in Operators |-> Idle]
    /\ strayed = FALSE /\ commands = 0 /\ edits = 0

Go(o, place)  == task' = [task EXCEPT ![o].pc = place]
Leave(o)      == task' = [task EXCEPT ![o] = Idle] /\ holder' = IF holder = o THEN NoOne ELSE holder

(* crontab(1), which prints the crontab whole (none at all is an empty     *)
(* one) and takes its new content whole.                                   *)
Read           == tab
Write(content) == tab' = content

(* readCutoverSource comes first: the crontab is read with no lock held.   *)
ReadCutoverSource(o, kind, only, force) ==
    /\ task[o].pc = "idle" /\ commands < MaxCommands
    /\ kind # "cutover" => ~force
    /\ kind = "restore" => only = {}
    /\ commands' = commands + 1
    /\ task' = [task EXCEPT ![o] = [Idle EXCEPT !.pc = "read", !.kind = kind, !.only = only,
                                              !.force = force, !.read = Read, !.own = base]]
    /\ UNCHANGED <<tabVars, backups, proved, holder, edits>>

(* loadCutoverStore: the state lock, or the refusal of it.                 *)
LoadCutoverStore(o) ==
    /\ task[o].pc = "read" /\ task[o].kind # "dryrun"
    /\ \/ holder = NoOne /\ holder' = o /\ Go(o, "locked")
       \/ holder # NoOne /\ Leave(o)
    /\ UNCHANGED <<tabVars, backups, proved, commands, edits>>

Wanted(o) == IF task[o].only = {} THEN Names ELSE task[o].only

(* The fence: a job that never succeeded here waits for --force.           *)
ReadyJobs(o) == {j \in Wanted(o) : j \in proved \/ task[o].force}

Keep(o) == backups' = backups \cup {task[o].read}

(* A dry run reads the rows without the lock and meets no fence; the       *)
(* backup it names is written.                                             *)
DryRun(o) ==
    /\ task[o].pc = "read" /\ task[o].kind = "dryrun"
    /\ IF Comment(task[o].read, Wanted(o)).hit # {} THEN Keep(o) ELSE UNCHANGED backups
    /\ Leave(o)
    /\ UNCHANGED <<tabVars, proved, commands, edits>>

Prepared(o, result) ==
    task' = [task EXCEPT ![o].pc = "backed", ![o].result = result.lines, ![o].hit = result.hit]

(* Fence, transform, backup.  Without a change there is nothing to do.     *)
RunCutoverApply(o) ==
    /\ task[o].pc = "locked" /\ task[o].kind = "cutover"
    /\ LET result == Comment(task[o].read, ReadyJobs(o))
       IN  IF result.hit = {} THEN Leave(o) /\ UNCHANGED backups
           ELSE Keep(o) /\ Prepared(o, result) /\ UNCHANGED holder
    /\ UNCHANGED <<tabVars, proved, commands, edits>>

(* A rollback takes its backup before it knows there is nothing to do.     *)
RunCutoverRollback(o) ==
    /\ task[o].pc = "locked" /\ task[o].kind = "rollback" /\ Keep(o)
    /\ LET result == Uncomment(task[o].read, task[o].only)
       IN  IF result.hit = {} THEN Leave(o) ELSE Prepared(o, result) /\ UNCHANGED holder
    /\ UNCHANGED <<tabVars, proved, commands, edits>>

(* --rollback --from: a backup, whole.                                     *)
RestoreBackup(o, b) ==
    /\ task[o].pc = "locked" /\ task[o].kind = "restore" /\ b \in backups
    /\ Keep(o) /\ Prepared(o, [lines |-> b, hit |-> {}]) /\ UNCHANGED holder
    /\ UNCHANGED <<tabVars, proved, commands, edits>>

(* The backup, or the file to restore, fails: the crontab is as it was.    *)
BackupFails(o) ==
    /\ task[o].pc = "locked" /\ Leave(o)
    /\ UNCHANGED <<tabVars, backups, proved, commands, edits>>

(* The new content is written, or refused.  A cutover and a rollback have  *)
(* rows to come for the jobs they turn, a restore of a whole file has not. *)
WriteCrontab(o) ==
    /\ task[o].pc = "backed"
    /\ \/ /\ Write(task[o].result) /\ Go(o, "written") /\ UNCHANGED holder
          /\ strayed' = (strayed \/ tab # task[o].read)
          /\ base' = IF task[o].kind = "restore" THEN Uncomment(task[o].result, {}).lines ELSE task[o].own
          /\ turned' = IF task[o].kind = "restore"
                       THEN SymDiff(turned, SymDiff(MarkerJobs(tab), MarkerJobs(task[o].result)))
                       ELSE turned
       \/ Leave(o) /\ UNCHANGED <<tab, base, turned, strayed>>
    /\ UNCHANGED <<trail, backups, proved, commands, edits>>

(* Mutant: a rollback records the jobs it was asked for.                   *)
RecordedAsAsked(o) ==
    CASE task[o].kind = "cutover"  -> trail \cup Wanted(o)
      [] task[o].kind = "rollback" -> trail \ Wanted(o)
      [] OTHER                    -> trail

(* The rows of one command commit together: one for each line it commented *)
(* out or back.  A whole-file restore writes a single row that names the   *)
(* backup and no job, so the latest row of every job stays what it was.    *)
Recorded(o) ==
    CASE task[o].kind = "cutover"  -> trail \cup task[o].hit
      [] task[o].kind = "rollback" -> trail \ task[o].hit
      [] OTHER                    -> trail

RecordCutoverEvents(o) ==
    /\ task[o].pc = "written" /\ Leave(o)
    /\ \/ trail' = Recorded(o) /\ turned' = turned \ task[o].hit /\ UNCHANGED strayed
       \/ strayed' = TRUE /\ UNCHANGED <<trail, turned>>
    /\ UNCHANGED <<tab, base, backups, proved, commands, edits>>

(* The process dies; the lock goes with it.                                *)
Crash(o) ==
    /\ task[o].pc # "idle" /\ Leave(o)
    /\ strayed' = (strayed \/ task[o].pc = "written")
    /\ UNCHANGED <<tab, base, trail, turned, backups, proved, commands, edits>>

(* The user adds a line; a command that has read already will write over   *)
(* it.                                                                     *)
EditCrontab(line) ==
    /\ edits < MaxEdits
    /\ tab' = Append(tab, line) /\ base' = Append(base, line) /\ edits' = edits + 1
    /\ UNCHANGED <<trail, turned, strayed, backups, proved, holder, task, commands>>

RunSucceeds(j) ==
    /\ j \notin proved /\ proved' = proved \cup {j}
    /\ UNCHANGED <<tabVars, backups, holder, task, commands, edits>>

CutoverNext ==
    \/ \E o \in Operators :
          \/ \E kind \in {"cutover", "dryrun", "rollback", "restore"}, force \in BOOLEAN,
                only \in {{}} \cup {{j} : j \in Names} : ReadCutoverSource(o, kind, only, force)
          \/ LoadCutoverStore(o) \/ DryRun(o) \/ RunCutoverApply(o) \/ RunCutoverRollback(o)
          \/ \E b \in backups : RestoreBackup(o, b)
          \/ BackupFails(o) \/ WriteCrontab(o) \/ RecordCutoverEvents(o) \/ Crash(o)
    \/ \E line \in Extra : EditCrontab(line)
    \/ \E j \in Names : RunSucceeds(j)

CutoverSpec == CutoverInit /\ [][CutoverNext]_cutoverVars

-----------------------------------------------------------------------------
Tasks == [pc : {"idle", "read", "locked", "backed", "written"},
          kind : {"none", "cutover", "dryrun", "rollback", "restore"},
          only : SUBSET Names, force : BOOLEAN,
          read : Seq(Lines), own : Seq(Lines), result : Seq(Lines), hit : SUBSET Names]

CutoverTypes ==
    /\ {tab, base} \subseteq Seq(Lines) /\ backups \subseteq Seq(Lines)
    /\ trail \subseteq Names /\ turned \subseteq Names /\ proved \subseteq Names
    /\ holder \in Operators \cup {NoOne}
    /\ task \in [Operators -> Tasks]
    /\ strayed \in BOOLEAN /\ commands \in 0..MaxCommands /\ edits \in 0..MaxEdits

(* The round trip: at any moment, after any mixture of cutovers, partial   *)
(* rollbacks, restores and crashes, a stale write of one command over      *)
(* another's included, one rollback gives back line for line the user's    *)
(* crontab as the last command that wrote had read it, and what was added  *)
(* since.                                                                  *)
RollbackRestores == Uncomment(tab, {}).lines = base

NoRowsToCome == \A o \in Operators : task[o].pc # "written"

(* The trail: the latest rows are wrong about exactly the jobs that        *)
(* whole-file restores turned since a row last named them, and so right    *)
(* about every job where no restore came in between, unless a command      *)
(* wrote over a crontab it had not read or lost its rows.                  *)
TrailTellsTheTruth == ~strayed /\ NoRowsToCome => SymDiff(trail, MarkerJobs(tab)) = turned

=============================================================================
