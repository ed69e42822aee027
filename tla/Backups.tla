------------------------------- MODULE Backups -------------------------------
(***************************************************************************)
(* The nightly backup (apps/backup/src/run.ts, drill.ts, cli.ts), its        *)
(* ledger and lock (db/src/backup-store.ts), the retention and alert rules   *)
(* (core/src/backup-policy.ts) and the watchdog that reads the ledger        *)
(* (worker jobs/backup-watchdog.ts).                                         *)
(*                                                                           *)
(* A run is its number; its canary token and its object keys are named       *)
(* after it.  Time is in days.  Every ledger statement goes over the         *)
(* connection that holds the advisory lock; the dump and the archive do not. *)
(***************************************************************************)
EXTENDS Naturals, FiniteSets, FiniteSetsExt

CONSTANTS
    Jobs,            \* invocations of `run`: the host's timer, an operator
    Watchdogs,       \* deliveries of the backup.watchdog job
    Homes,           \* home snapshots under computer-snapshots/
    RetentionDays, DrillInterval,
    Staleness, DrillStaleness, RunTimeout,
    RunLength,       \* the longest an invocation lasts, in days
    MaxRuns, MaxNow, MaxFaults  \* bounds: runs begun, days, failures and crashes

ASSUME BackupAssumption ==
    /\ {RetentionDays, DrillInterval, Staleness, DrillStaleness, RunTimeout} \subseteq Nat \ {0}
    /\ {MaxRuns, MaxNow, MaxFaults} \subseteq Nat /\ RunLength \in 0 .. RetentionDays
    /\ "nobody" \notin Jobs /\ "dump" \notin Homes

VARIABLES
    ledger,    \* backup_run rows, by run number
    canary,    \* the token in backup_canary, 0 before the first
    archive,   \* the objects in the backup destination
    homes,     \* the home snapshots that exist
    lock,      \* who holds the advisory lock
    backup,    \* where each invocation is and what it carries
    alerts,    \* backup_alert: the last claimed episode of each kind
    watch,     \* what each watchdog decided and has not claimed yet
    announced, \* history: per kind, the last two episodes announced
    now, faults
backupVars == <<ledger, canary, archive, homes, lock, backup, alerts, watch, announced, now, faults>>

Runs == 1 .. MaxRuns
Nobody == "nobody"
Kinds == {"backup.failed", "backup.stalled", "backup.missed", "drill.failed", "drill.missed"}
NoEpisode == MaxRuns + 1
Unbegun == [status |-> "none", started |-> 0, finished |-> 0,
            drill |-> "none", drillStarted |-> 0, drillFinished |-> 0]
NoBackup == [pc |-> "idle", run |-> 0, bound |-> FALSE, drillAt |-> 0, todo |-> {}]

BackupInit ==
    /\ ledger = [r \in Runs |-> Unbegun] /\ canary = 0 /\ archive = {}
    /\ homes \in SUBSET Homes /\ lock = Nobody /\ backup = [j \in Jobs |-> NoBackup]
    /\ alerts = [k \in Kinds |-> NoEpisode] /\ watch = [w \in Watchdogs |-> {}]
    /\ announced = [k \in Kinds |-> <<NoEpisode, NoEpisode>>]
    /\ now = 0 /\ faults = 0

Fault == faults < MaxFaults /\ faults' = faults + 1
Step(j, pc) == backup' = [backup EXCEPT ![j].pc = pc]
Begun == {r \in Runs : ledger[r].status # "none"}
Succeeded == {r \in Begun : ledger[r].status = "succeeded"}
Drilled == {r \in Begun : ledger[r].drill = "succeeded"}
\* `order by` a column, newest first.
Newest(rows, column) ==
    CHOOSE r \in rows : \A q \in rows :
        \/ ledger[q][column] < ledger[r][column]
        \/ ledger[q][column] = ledger[r][column] /\ q <= r
Dumps == {o \in archive : o.what = "dump"}

----------------------------------------------------------------------------
(* The run.                                                                 *)

(* withBackupRunLock, the status read, isBackupDue for the timer, beginRun. *)
(* Only the lock's holder writes rows, so nothing comes between these.      *)
Due == \A r \in Begun : now > ledger[r].started
\* isDrillDue: the day it becomes due, from the newest successful drill the status showed.
DrillAt == Max({ledger[r].drillFinished + DrillInterval : r \in Drilled} \cup {0})
BeginRun(j) ==
    /\ backup[j].pc = "idle" /\ lock = Nobody /\ Begun # Runs
    /\ \E operator, forced \in BOOLEAN :
        /\ operator \/ (Due /\ ~forced)
        /\ LET r == Cardinality(Begun) + 1 IN
            /\ ledger' = [ledger EXCEPT ![r].status = "running", ![r].started = now]
            /\ backup' = [backup EXCEPT ![j] =
                 [pc |-> "canary", run |-> r, bound |-> TRUE,
                  drillAt |-> IF forced THEN 0 ELSE DrillAt, todo |-> {}]]
    /\ lock' = j
    /\ UNCHANGED <<canary, archive, homes, alerts, watch, announced, now, faults>>

WriteCanary(j) ==
    /\ backup[j].pc = "canary" /\ backup[j].bound
    /\ canary' = backup[j].run /\ Step(j, "dump")
    /\ UNCHANGED <<ledger, archive, homes, lock, alerts, watch, announced, now, faults>>

DumpOf(r, whole) == [run |-> r, what |-> "dump", at |-> now, canary |-> canary, whole |-> whole]

\* Mutant: the retention pass runs before the dump.
DumpPruned(j) ==
    /\ backup[j].pc = "dump"
    /\ \/ /\ archive' = {o \in archive : o.at + RetentionDays >= now} \cup {DumpOf(backup[j].run, TRUE)}
          /\ backup' = [backup EXCEPT ![j].pc = "homes", ![j].todo = homes] /\ UNCHANGED faults
       \/ /\ Fault /\ archive' = {o \in archive : o.at + RetentionDays >= now} /\ Step(j, "fail")
    /\ UNCHANGED <<ledger, canary, homes, lock, alerts, watch, announced, now>>

(* pg_dump streams into the archive over its own connection.  The object is *)
(* stored when the stream ends; the exit status is looked at after that.    *)
Dump(j) ==
    /\ backup[j].pc = "dump"
    /\ \/ /\ archive' = archive \cup {DumpOf(backup[j].run, TRUE)}
          /\ backup' = [backup EXCEPT ![j].pc = "homes", ![j].todo = homes] /\ UNCHANGED faults
       \/ /\ Fault /\ archive' = archive \cup {DumpOf(backup[j].run, FALSE)} /\ Step(j, "fail")
    /\ UNCHANGED <<ledger, canary, homes, lock, alerts, watch, announced, now>>

\* copyHomes: a snapshot that is gone since the listing is skipped.
CopyHome(j) ==
    /\ backup[j].pc = "homes"
    /\ \E h \in backup[j].todo :
        /\ archive' = IF h \notin homes THEN archive
                      ELSE archive \cup {[run |-> backup[j].run, what |-> h, at |-> now,
                                          canary |-> 0, whole |-> TRUE]}
        /\ backup' = [backup EXCEPT ![j].todo = @ \ {h}]
    /\ UNCHANGED <<ledger, canary, homes, lock, alerts, watch, announced, now, faults>>

\* selectExpiredBackupKeys: the run's own objects are protected whatever their age.
Expired(r) == {o \in archive : o.at + RetentionDays < now /\ o.run # r}
Prune(j) ==
    /\ backup[j].pc = "homes" /\ backup[j].todo = {}
    /\ \/ archive' = archive \ Expired(backup[j].run) /\ Step(j, "settle") /\ UNCHANGED faults
       \/ /\ Fault /\ Step(j, "fail")
          /\ \E gone \in SUBSET Expired(backup[j].run) : archive' = archive \ gone
    /\ UNCHANGED <<ledger, canary, homes, lock, alerts, watch, announced, now>>

\* settleRun(succeeded): an answer that is lost is a throw like any other.
SettleSucceeded(j) ==
    /\ backup[j].pc = "settle" /\ backup[j].bound
    /\ ledger' = [ledger EXCEPT ![backup[j].run].status = "succeeded", ![backup[j].run].finished = now]
    /\ \/ Step(j, IF now >= backup[j].drillAt THEN "drill" ELSE "unlock") /\ UNCHANGED faults
       \/ Fault /\ Step(j, "fail")
    /\ UNCHANGED <<canary, archive, homes, lock, alerts, watch, announced, now>>

\* The catch of performBackupRun: whatever the row says, it is failed now.
SettleFailed(j) ==
    /\ backup[j].pc = "fail" /\ backup[j].bound
    /\ ledger' = [ledger EXCEPT ![backup[j].run].status = "failed", ![backup[j].run].finished = now]
    /\ Step(j, "unlock")
    /\ UNCHANGED <<canary, archive, homes, lock, alerts, watch, announced, now, faults>>

----------------------------------------------------------------------------
(* The drill.                                                               *)

BeginDrill(j) ==
    /\ backup[j].pc = "drill" /\ backup[j].bound /\ ledger[backup[j].run].status = "succeeded"
    /\ ledger' = [ledger EXCEPT ![backup[j].run].drill = "running", ![backup[j].run].drillStarted = now]
    /\ Step(j, "restore")
    /\ UNCHANGED <<canary, archive, homes, lock, alerts, watch, announced, now, faults>>

\* performRestoreDrill: the run's dump, restored, holds the token the run wrote.
Restores(r) == \E o \in Dumps : o.run = r /\ o.whole /\ o.canary = r

Restore(j) ==
    /\ backup[j].pc = "restore"
    /\ \/ Restores(backup[j].run) /\ Step(j, "drilled") /\ UNCHANGED faults
       \/ Fault /\ Step(j, "undrilled")
       \/ ~Restores(backup[j].run) /\ Step(j, "undrilled") /\ UNCHANGED faults
    /\ UNCHANGED <<ledger, canary, archive, homes, lock, alerts, watch, announced, now>>

SettleDrill(j) ==
    /\ backup[j].pc \in {"drilled", "undrilled"} /\ backup[j].bound
    /\ ledger' = [ledger EXCEPT
         ![backup[j].run].drill = IF backup[j].pc = "drilled" THEN "succeeded" ELSE "failed",
         ![backup[j].run].drillFinished = now]
    /\ \/ Step(j, "unlock") /\ UNCHANGED faults
       \/ Fault /\ Step(j, "fail")
    /\ UNCHANGED <<canary, archive, homes, lock, alerts, watch, announced, now>>

----------------------------------------------------------------------------
(* Failures of a step, of the connection and of the process.                *)

\* Any await of the try block may throw before it has an effect; the drill has a try of its
\* own, whose catch records the drill as failed.
StepFails(j) ==
    /\ backup[j].pc \notin {"idle", "restore", "fail", "unlock"} /\ Fault
    /\ Step(j, IF backup[j].pc = "drilled" THEN "undrilled" ELSE "fail")
    /\ UNCHANGED <<ledger, canary, archive, homes, lock, alerts, watch, announced, now>>

\* Postgres releases a session's lock when its connection ends; the process goes on.
LoseConnection(j) ==
    /\ backup[j].bound /\ Fault
    /\ backup' = [backup EXCEPT ![j].bound = FALSE] /\ lock' = Nobody
    /\ UNCHANGED <<ledger, canary, archive, homes, alerts, watch, announced, now>>

\* Without its connection every ledger statement throws, and so does settling the failure.
Unbound(j) ==
    /\ backup[j].pc \in {"canary", "settle", "drill", "drilled", "undrilled", "fail", "unlock"}
    /\ ~backup[j].bound
    /\ backup' = [backup EXCEPT ![j] = IF backup[j].pc \in {"fail", "unlock"} THEN NoBackup ELSE [@ EXCEPT !.pc = "fail"]]
    /\ UNCHANGED <<ledger, canary, archive, homes, lock, alerts, watch, announced, now, faults>>

Unlock(j) ==
    /\ backup[j].pc = "unlock" /\ backup[j].bound
    /\ backup' = [backup EXCEPT ![j] = NoBackup] /\ lock' = Nobody
    /\ UNCHANGED <<ledger, canary, archive, homes, alerts, watch, announced, now, faults>>

Killed(j) ==
    /\ backup[j].pc # "idle" /\ Fault
    /\ backup' = [backup EXCEPT ![j] = NoBackup] /\ lock' = IF backup[j].bound THEN Nobody ELSE lock
    /\ UNCHANGED <<ledger, canary, archive, homes, alerts, watch, announced, now>>

----------------------------------------------------------------------------
(* The watchdog.                                                            *)

Alert(kind, episode, when) == IF when THEN {[kind |-> kind, episode |-> episode]} ELSE {}

\* decideBackupAlerts over the four newest rows; an episode is named by its run, "never" by 0.
decideBackupAlerts ==
    LET last == Max(Begun)
        success == IF Succeeded = {} THEN 0 ELSE Newest(Succeeded, "finished")
        drill == IF Drilled = {} THEN 0 ELSE Newest(Drilled, "drillFinished")
        tried == {r \in Begun : ledger[r].drill # "none"}
        attempt == Newest(tried, "drillStarted")
    IN  (IF Begun = {} THEN {} ELSE
            Alert("backup.failed", last, ledger[last].status = "failed")
            \cup Alert("backup.stalled", last, ledger[last].status = "running"
                                               /\ now - ledger[last].started > RunTimeout))
        \cup Alert("backup.missed", success, success = 0 \/ now - ledger[success].finished > Staleness)
        \cup (IF tried = {} THEN {} ELSE
            Alert("drill.failed", attempt,
                  \/ ledger[attempt].drill = "failed"
                  \/ ledger[attempt].drill = "running" /\ now - ledger[attempt].drillStarted > RunTimeout))
        \cup Alert("drill.missed", IF drill = 0 THEN success ELSE drill,
                   \/ drill = 0 /\ success # 0 /\ now - ledger[success].finished > DrillStaleness
                   \/ drill # 0 /\ now - ledger[drill].drillFinished > DrillStaleness)

Decide(w) ==
    /\ watch[w] = {} /\ decideBackupAlerts # {}
    /\ watch' = [watch EXCEPT ![w] = decideBackupAlerts]
    /\ UNCHANGED <<ledger, canary, archive, homes, lock, backup, alerts, announced, now, faults>>

\* claimAlert: the upsert changes a row only when the episode differs.
claimAlert(a) == alerts[a.kind] # a.episode

\* Delivery comes after the claim, so one that fails loses the message.
TellAlert(w) ==
    /\ \E a \in watch[w] :
        /\ watch' = [watch EXCEPT ![w] = @ \ {a}]
        /\ alerts' = [alerts EXCEPT ![a.kind] = a.episode]
        /\ announced' = IF claimAlert(a) THEN [announced EXCEPT ![a.kind] = <<a.episode, @[1]>>]
                        ELSE announced
    /\ UNCHANGED <<ledger, canary, archive, homes, lock, backup, now, faults>>

----------------------------------------------------------------------------
\* No invocation outlasts the retention window; the code has no timeout that ends one.
DayPasses ==
    /\ now < MaxNow /\ now' = now + 1
    /\ \A j \in Jobs : backup[j].pc # "idle" => now < ledger[backup[j].run].started + RunLength
    /\ UNCHANGED <<ledger, canary, archive, homes, lock, backup, alerts, watch, announced, faults>>

\* The snapshot store writes and removes homes at any time.
HomeChanges ==
    /\ \E h \in Homes : homes' \in {homes \cup {h}, homes \ {h}}
    /\ UNCHANGED <<ledger, canary, archive, lock, backup, alerts, watch, announced, now, faults>>

BackupNext ==
    \/ \E j \in Jobs :
        \/ BeginRun(j) \/ WriteCanary(j) \/ Dump(j) \/ CopyHome(j) \/ Prune(j) \/ SettleSucceeded(j)
        \/ SettleFailed(j) \/ BeginDrill(j) \/ Restore(j) \/ SettleDrill(j) \/ StepFails(j)
        \/ LoseConnection(j) \/ Unbound(j) \/ Unlock(j) \/ Killed(j)
    \/ \E w \in Watchdogs : Decide(w) \/ TellAlert(w)
    \/ DayPasses \/ HomeChanges
BackupSpec == BackupInit /\ [][BackupNext]_backupVars

----------------------------------------------------------------------------
BackupTypeOK ==
    /\ \A r \in Runs : /\ ledger[r].status \in {"none", "running", "succeeded", "failed"}
                       /\ ledger[r].drill \in {"none", "running", "succeeded", "failed"}
    /\ canary \in 0 .. MaxRuns /\ homes \subseteq Homes /\ lock \in Jobs \cup {Nobody}
    /\ \A o \in archive : o.run \in Runs /\ o.what \in Homes \cup {"dump"} /\ o.at \in 0 .. MaxNow
    /\ now \in 0 .. MaxNow /\ faults \in 0 .. MaxFaults

(* Once a run has been recorded as a success there is always a complete dump *)
(* in the destination, whatever fails afterwards: retention never removes    *)
(* the last one.                                                             *)
AlwaysRestorable ==
    (\E r \in Begun : ledger[r].drill # "none" \/ ledger[r].status = "succeeded") =>
        \E o \in Dumps : o.whole

(* A success that is recorded happened: while its dump is kept it is whole   *)
(* and holds the run's own token, even when another invocation took the lane *)
(* over; and a drill that is recorded as passed restored exactly that.       *)
SuccessIsReal ==
    \A r \in Begun : ledger[r].status = "succeeded" \/ ledger[r].drill = "succeeded" =>
        \A o \in Dumps : o.run = r => o.whole /\ o.canary = r

(* At most one invocation can write the ledger.                              *)
OneWriter == \A i, j \in Jobs : backup[i].bound /\ backup[j].bound => i = j

(* Two watchdogs that overlap never announce one fact twice in a row.        *)
NoEcho == \A k \in Kinds : announced[k][1] = announced[k][2] => announced[k][1] = NoEpisode

(* What the ledger claims of backups, drills and alerts is true.             *)
BackupsAreSound == BackupTypeOK /\ AlwaysRestorable /\ SuccessIsReal /\ OneWriter /\ NoEcho

----------------------------------------------------------------------------
(* The inductive strengthening of BackupsAreSound.                           *)

Rows ==
    [status : {"none", "running", "succeeded", "failed"}, started : 0 .. MaxNow, finished : 0 .. MaxNow,
     drill : {"none", "running", "succeeded", "failed"}, drillStarted : 0 .. MaxNow,
     drillFinished : 0 .. MaxNow]
Objects ==
    [run : Runs, what : Homes \cup {"dump"}, at : 0 .. MaxNow, canary : 0 .. MaxRuns, whole : BOOLEAN]
Invocations ==
    [pc : {"idle", "canary", "dump", "homes", "settle", "drill", "restore", "drilled", "undrilled",
           "fail", "unlock"},
     run : 0 .. MaxRuns, bound : BOOLEAN, drillAt : Nat, todo : SUBSET Homes]
BackupsAreTyped ==
    /\ ledger \in [Runs -> Rows] /\ canary \in 0 .. MaxRuns /\ archive \in SUBSET Objects
    /\ homes \in SUBSET Homes /\ lock \in Jobs \cup {Nobody} /\ backup \in [Jobs -> Invocations]
    /\ now \in 0 .. MaxNow /\ faults \in 0 .. MaxFaults

Underway(j) == backup[j].pc # "idle"
(* Runs are numbered as they begin, and each belongs to one invocation, the  *)
(* only one that writes its row; the lock belongs to whoever may write.      *)
RunsAreOwned ==
    /\ \E n \in 0 .. MaxRuns : Begun = 1 .. n
    /\ \A r \in Runs : ledger[r].status = "none" => ledger[r].drill = "none"
    /\ \A o \in archive : o.run \in Begun
    /\ \A j \in Jobs :
        /\ Underway(j) => /\ backup[j].run \in Begun /\ ledger[backup[j].run].started <= now
                          /\ now <= ledger[backup[j].run].started + RunLength
        /\ backup[j].bound => lock = j /\ Underway(j)
    /\ \A i, j \in Jobs : Underway(i) /\ Underway(j) /\ i # j => backup[i].run # backup[j].run

OwnDump(j) == \E o \in Dumps : o.run = backup[j].run /\ o.whole /\ ledger[o.run].started <= o.at
Sound(r) == \A o \in Dumps : o.run = r => o.whole /\ o.canary = r
(* Where an invocation is, its row and its objects are that far: nothing is  *)
(* stored before the dump; while the connection lasts the canary is its own; *)
(* and its dump is too young for anybody's retention pass.                   *)
StageIsKept(j) ==
    /\ backup[j].pc \in {"canary", "dump", "homes", "settle"} =>
        ledger[backup[j].run].status = "running" /\ ledger[backup[j].run].drill = "none"
    /\ backup[j].pc \in {"canary", "dump"} => \A o \in archive : o.run # backup[j].run
    /\ backup[j].pc = "dump" /\ backup[j].bound => canary = backup[j].run
    /\ backup[j].pc \in {"homes", "settle"} =>
        OwnDump(j) /\ (backup[j].bound => Sound(backup[j].run))
    /\ backup[j].pc \in {"drill", "restore", "drilled", "undrilled"} =>
        ledger[backup[j].run].status = "succeeded"

(* The last announcement of a kind is the episode its row names.             *)
LastIsClaimed ==
    /\ DOMAIN alerts = Kinds /\ DOMAIN announced = Kinds
    /\ \A k \in Kinds : announced[k][1] = alerts[k]

BackupInv ==
    /\ BackupsAreTyped /\ RunsAreOwned /\ LastIsClaimed /\ (\A j \in Jobs : StageIsKept(j))
    /\ AlwaysRestorable /\ SuccessIsReal /\ NoEcho
=============================================================================
