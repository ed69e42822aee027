------------------------------ MODULE Routines ------------------------------
(***************************************************************************)
(* A routine's row, its occurrence ledger and its runs: the operator's       *)
(* edits (db/src/routines.ts), the scheduler's ticks                         *)
(* (worker/src/jobs/routine-schedule.ts) and the transactions that settle a  *)
(* slot (db/src/run-creation.ts).                                            *)
(*                                                                           *)
(* A transaction is one step; an edit is not a transaction and takes three.  *)
(* A cron expression with its zone is the set of instants it fires at, as    *)
(* RoutineSchedule computes them. Routines do not share state, so one row    *)
(* stands for each of them.                                                  *)
(***************************************************************************)
EXTENDS Integers, Sequences, FiniteSets, FiniteSetsExt

CONSTANTS
    Crons,          \* the schedules an operator may save
    Fires,          \* the instants each of them fires at
    Patches,        \* the edits an operator may submit
    Editors,        \* edits submitted, each by a request of its own
    Tests,          \* nonces of test runs
    Ticks,          \* overlapping scheduler passes
    MissGrace,      \* ROUTINE_MISS_GRACE_MS
    MaxTime,        \* bound: the last instant of the database's clock
    MaxPassFaults,      \* bound: passes that die or fail
    Untouched       \* the patch value of an absent key

ASSUME RoutinesAssumption ==
    /\ MaxTime \in Nat /\ MissGrace \in Nat /\ MaxPassFaults \in Nat
    /\ Fires \in [Crons -> SUBSET (1 .. MaxTime)]
    /\ Untouched \notin Crons
    /\ Patches \in SUBSET [cron : Crons \cup {Untouched}, enabled : {"yes", "no", "same"}]

VARIABLES
    now,     \* the database's clock
    row,     \* the routine: cron, enabled, deleted, next (next_run_at)
    ledger,  \* each slot's occurrence: none, missed or run
    runs,    \* the routine's runs, oldest first: nonce, old, status
    tasks,   \* how many task rows exist
    tick,    \* each pass: where it stands, what it scanned, the run it fired
    edit,    \* each edit: where it stands, what it read and computed
    jobs,    \* run.execute deliveries in the queue
    faults,  \* passes that died or failed so far
    since    \* history: the clock the current cursor was computed from
routineVars == <<now, row, ledger, runs, tasks, tick, edit, jobs, faults, since>>

Slots == 1 .. MaxTime
Never == MaxTime + 1
nextRoutineFire(c, t) == Min({f \in Fires[c] : f > t} \cup {Never})

NoPass == [pc |-> "idle", slot |-> 0, cron |-> Untouched, at |-> 0, run |-> 0]
NoEdit == [pc |-> "idle", patch |-> [cron |-> Untouched, enabled |-> "same"],
           cron |-> Untouched, enabled |-> FALSE, clock |-> 0]

Live == row.enabled /\ ~row.deleted

\* createRoutine: the first fire is searched from the database's clock.
RoutineInit ==
    /\ now = 0
    /\ \E c \in Crons : row = [cron |-> c, enabled |-> TRUE, deleted |-> FALSE, next |-> nextRoutineFire(c, 0)]
    /\ ledger = [s \in Slots |-> "none"] /\ runs = <<>> /\ tasks = 0
    /\ tick = [k \in Ticks |-> NoPass] /\ edit = [e \in Editors |-> NoEdit]
    /\ jobs = {} /\ faults = 0 /\ since = 0

Clock ==
    /\ now < MaxTime
    /\ now' = now + 1
    /\ UNCHANGED <<row, ledger, runs, tasks, tick, edit, jobs, faults, since>>

----------------------------------------------------------------------------
(* The operator.                                                            *)

\* updateRoutine, first statement: the row the edit is compared with.
EditRead(e) ==
    /\ edit[e].pc = "idle" /\ ~row.deleted
    /\ \E p \in Patches :
          edit' = [edit EXCEPT ![e] = [pc |-> "read", patch |-> p, cron |-> row.cron,
                                       enabled |-> row.enabled, clock |-> 0]]
    /\ UNCHANGED <<now, row, ledger, runs, tasks, tick, jobs, faults, since>>

Reschedules(d) ==
    \/ d.patch.cron # Untouched /\ d.patch.cron # d.cron
    \/ d.patch.enabled = "yes" /\ ~d.enabled

\* `select now()`, when the cursor will be recomputed.
EditClock(e) ==
    /\ edit[e].pc = "read" /\ Reschedules(edit[e])
    /\ edit' = [edit EXCEPT ![e].pc = "clock", ![e].clock = now]
    /\ UNCHANGED <<now, row, ledger, runs, tasks, tick, jobs, faults, since>>

Patched(d, cursor) ==
    [row EXCEPT !.cron = IF d.patch.cron = Untouched THEN @ ELSE d.patch.cron,
                !.enabled = CASE d.patch.enabled = "yes" -> TRUE
                              [] d.patch.enabled = "no" -> FALSE
                              [] OTHER -> @,
                !.next = cursor]

(* The update: the columns the patch names, the cursor computed from the    *)
(* clock read a statement earlier, and nothing at all on a deleted row.      *)
EditWrite(e) ==
    LET d == edit[e]
        cron == IF d.patch.cron = Untouched THEN d.cron ELSE d.patch.cron IN
    /\ d.pc = "clock" \/ (d.pc = "read" /\ ~Reschedules(d))
    /\ IF row.deleted
       THEN UNCHANGED <<row, since>>
       ELSE /\ row' = Patched(d, IF Reschedules(d) THEN nextRoutineFire(cron, d.clock) ELSE row.next)
            /\ since' = IF Reschedules(d) THEN d.clock ELSE since
    /\ edit' = [edit EXCEPT ![e] = [NoEdit EXCEPT !.pc = "done"]]
    /\ UNCHANGED <<now, ledger, runs, tasks, tick, jobs, faults>>

removeRoutine ==
    /\ ~row.deleted
    /\ row' = [row EXCEPT !.enabled = FALSE, !.deleted = TRUE]
    /\ UNCHANGED <<now, ledger, runs, tasks, tick, edit, jobs, faults, since>>

NewRun(nonce) == [nonce |-> nonce, old |-> FALSE, status |-> "queued"]
NonceTaken(nonce) == \E i \in 1 .. Len(runs) : runs[i].nonce = nonce
TestNonce(n) == <<"routine-test", n>>
SlotNonce(s) == <<"routine", s>>

(* createRoutineTestRun: a nonce already spent rolls the task back and      *)
(* replays the run it made; the ledger and the cursor are not touched.       *)
TestRun(n) ==
    /\ ~row.deleted /\ ~NonceTaken(TestNonce(n))
    /\ runs' = Append(runs, NewRun(TestNonce(n))) /\ tasks' = tasks + 1
    /\ UNCHANGED <<now, row, ledger, tick, edit, jobs, faults, since>>

----------------------------------------------------------------------------
(* The scheduler.                                                           *)

Due == Live /\ row.next <= now

\* listDueRoutines carries the row and the clock it was selected by.
Scan(k) ==
    /\ tick[k].pc = "idle"
    /\ tick' = [tick EXCEPT ![k] =
                  IF Due THEN [pc |-> "settle", slot |-> row.next, cron |-> row.cron, at |-> now, run |-> 0]
                         ELSE [NoPass EXCEPT !.pc = "dispatch"]]
    /\ UNCHANGED <<now, row, ledger, runs, tasks, edit, jobs, faults, since>>

\* decideRoutineDue, from what the scan carried.
Missed(k) == tick[k].at - tick[k].slot > MissGrace

\* Mutant: the row is locked by its cursor alone.
LockedCursorOnly(k) == row.next = tick[k].slot

\* The row lock, re-checked against the slot the decision was made for.
Locked(k) == Live /\ row.next = tick[k].slot

Skip(k) == tick' = [tick EXCEPT ![k] = [NoPass EXCEPT !.pc = "dispatch"]]

SettleSuperseded(k) ==
    /\ tick[k].pc = "settle"
    /\ \/ ~Locked(k) \/ ledger[tick[k].slot] # "none"
       \/ ~Missed(k) /\ NonceTaken(SlotNonce(tick[k].slot))
    /\ Skip(k)
    /\ UNCHANGED <<now, row, ledger, runs, tasks, edit, jobs, faults, since>>

\* Mutant: a miss is recorded and the cursor stays on it.
recordMissedStays(k) ==
    /\ tick[k].pc = "settle" /\ Missed(k) /\ Locked(k) /\ ledger[tick[k].slot] = "none"
    /\ ledger' = [ledger EXCEPT ![tick[k].slot] = "missed"]
    /\ Skip(k)
    /\ UNCHANGED <<now, row, runs, tasks, edit, jobs, faults, since>>

\* recordMissedOccurrence: the schedule jumps past the clock of the scan.
recordMissedOccurrence(k) ==
    /\ tick[k].pc = "settle" /\ Missed(k) /\ Locked(k) /\ ledger[tick[k].slot] = "none"
    /\ ledger' = [ledger EXCEPT ![tick[k].slot] = "missed"]
    /\ row' = [row EXCEPT !.next = nextRoutineFire(tick[k].cron, tick[k].at)]
    /\ Skip(k)
    /\ UNCHANGED <<now, runs, tasks, edit, jobs, faults, since>>

\* Mutant: the routine moves on without the occurrence's link to the run.
fireRoutineOnceUnlinked(k) ==
    LET slot == tick[k].slot IN
    /\ tick[k].pc = "settle" /\ ~Missed(k) /\ Locked(k) /\ ledger[slot] = "none"
    /\ ~NonceTaken(SlotNonce(slot))
    /\ ledger' = [ledger EXCEPT ![slot] = "missed"]
    /\ runs' = Append(runs, NewRun(SlotNonce(slot))) /\ tasks' = tasks + 1
    /\ row' = [row EXCEPT !.next = nextRoutineFire(tick[k].cron, slot)]
    /\ tick' = [tick EXCEPT ![k].pc = "enqueue", ![k].run = Len(runs) + 1]
    /\ UNCHANGED <<now, edit, jobs, faults, since>>

(* fireRoutineOnce: occurrence, task, run, link and advance in one           *)
(* transaction; a slot is advanced to its immediate successor.               *)
fireRoutineOnce(k) ==
    LET slot == tick[k].slot IN
    /\ tick[k].pc = "settle" /\ ~Missed(k) /\ Locked(k) /\ ledger[slot] = "none"
    /\ ~NonceTaken(SlotNonce(slot))
    /\ ledger' = [ledger EXCEPT ![slot] = "run"]
    /\ runs' = Append(runs, NewRun(SlotNonce(slot))) /\ tasks' = tasks + 1
    /\ row' = [row EXCEPT !.next = nextRoutineFire(tick[k].cron, slot)]
    /\ tick' = [tick EXCEPT ![k].pc = "enqueue", ![k].run = Len(runs) + 1]
    /\ UNCHANGED <<now, edit, jobs, faults, since>>

\* The delivery of the run a fire created.
Enqueue(k) ==
    /\ tick[k].pc = "enqueue"
    /\ jobs' = jobs \cup {tick[k].run}
    /\ Skip(k)
    /\ UNCHANGED <<now, row, ledger, runs, tasks, edit, faults, since>>

\* settleSafely: an error settling or enqueueing is this slot's alone.
SettleFails(k) ==
    /\ tick[k].pc \in {"settle", "enqueue"} /\ faults < MaxPassFaults
    /\ Skip(k) /\ faults' = faults + 1
    /\ UNCHANGED <<now, row, ledger, runs, tasks, edit, jobs, since>>

\* Mutant: only slots of the ledger are looked at again, never the runs.
StrandedNone == {}

\* findQueuedRoutineRuns.
Stranded == {i \in 1 .. Len(runs) : runs[i].status = "queued" /\ runs[i].old}

dispatchQueuedRuns(k) ==
    /\ tick[k].pc = "dispatch"
    /\ jobs' = jobs \cup Stranded
    /\ tick' = [tick EXCEPT ![k] = NoPass]
    /\ UNCHANGED <<now, row, ledger, runs, tasks, edit, faults, since>>

\* The worker dies, or an enqueue fails after some of the runs, oldest first.
TickDies(k) ==
    /\ tick[k].pc # "idle" /\ faults < MaxPassFaults
    /\ \E n \in 0 .. Len(runs) :
          jobs' = IF tick[k].pc = "dispatch" THEN jobs \cup {i \in Stranded : i <= n} ELSE jobs
    /\ tick' = [tick EXCEPT ![k] = NoPass] /\ faults' = faults + 1
    /\ UNCHANGED <<now, row, ledger, runs, tasks, edit, since>>

\* run.execute, as RunLease models it: a delivery claims a queued run.
Execute(i) ==
    /\ i \in jobs
    /\ jobs' = jobs \ {i}
    /\ runs' = [runs EXCEPT ![i].status = "owned"]
    /\ UNCHANGED <<now, row, ledger, tasks, tick, edit, faults, since>>

\* ROUTINE_DISPATCH_GRACE_SECONDS pass after a run's creation.
Age(i) ==
    /\ ~runs[i].old /\ runs[i].status = "queued"
    /\ runs' = [runs EXCEPT ![i].old = TRUE]
    /\ UNCHANGED <<now, row, ledger, tasks, tick, edit, jobs, faults, since>>

Pass(k) ==
    \/ Scan(k) \/ SettleSuperseded(k) \/ recordMissedOccurrence(k) \/ fireRoutineOnce(k)
    \/ Enqueue(k) \/ dispatchQueuedRuns(k)

RoutineNext ==
    \/ Clock
    \/ \E e \in Editors : EditRead(e) \/ EditClock(e) \/ EditWrite(e)
    \/ removeRoutine
    \/ \E n \in Tests : TestRun(n)
    \/ \E k \in Ticks : Pass(k) \/ SettleFails(k) \/ TickDies(k)
    \/ \E i \in 1 .. Len(runs) : Age(i)
    \/ \E i \in jobs : Execute(i)

RoutineSpec == RoutineInit /\ [][RoutineNext]_routineVars

----------------------------------------------------------------------------
(* The variables hold rows, passes and edits of the shapes the code has.     *)
RoutineTypeOK ==
    /\ now \in 0 .. MaxTime /\ faults \in 0 .. MaxPassFaults /\ since \in 0 .. MaxTime
    /\ row \in [cron : Crons, enabled : BOOLEAN, deleted : BOOLEAN, next : 1 .. Never]
    /\ ledger \in [Slots -> {"none", "missed", "run"}]
    /\ \A i \in 1 .. Len(runs) : runs[i].status \in {"queued", "owned"} /\ runs[i].old \in BOOLEAN
    /\ jobs \subseteq 1 .. Len(runs)
    /\ \A k \in Ticks : tick[k].pc \in {"idle", "settle", "enqueue", "dispatch"}
    /\ \A e \in Editors : edit[e].pc \in {"idle", "read", "clock", "done"}

(* However passes overlap, retry and die, the ledger and the runs agree:     *)
(* a slot recorded as run has exactly one run, a slot recorded as missed or  *)
(* not at all has none, test runs stay out of the ledger, and no rolled-back *)
(* transaction leaves a task without a run.                                  *)
LedgerMatchesRuns ==
    /\ RoutineTypeOK
    /\ \A s \in Slots :
          Cardinality({i \in 1 .. Len(runs) : runs[i].nonce = SlotNonce(s)})
            = (IF ledger[s] = "run" THEN 1 ELSE 0)
    /\ tasks = Len(runs)

(* No slot of the schedule is passed over in silence: each one behind the    *)
(* cursor was settled, or was jumped by a downtime whose first slot the      *)
(* ledger shows as missed.                                                   *)
NoSilentSlot ==
    \A f \in Fires[row.cron] :
        since < f /\ f < row.next /\ ledger[f] = "none" =>
            \E m \in Fires[row.cron] :
                /\ since < m /\ m < f /\ ledger[m] = "missed"
                /\ \A g \in Fires[row.cron] : m < g /\ g < f => ledger[g] = "none"

(* A paused or deleted routine fires nothing more, however long ago a pass   *)
(* scanned it: a scheduled run is only created on a live row whose slot has  *)
(* come.                                                                     *)
OnlyLiveRoutinesFire ==
    [][\A s \in Slots : ledger'[s] = "run" /\ ledger[s] # "run" => Live /\ s <= now]_routineVars

(* A due slot is eventually fired or recorded missed and the cursor moves    *)
(* past the clock, unless the operator stops the routine.                    *)
DueSlotsSettle == Due ~> ~Due

(* A run whose delivery was lost with its process is delivered again, until  *)
(* a worker owns it.                                                         *)
RunsAreDelivered ==
    \A i \in 1 .. (MaxTime + Cardinality(Tests)) :
        (i <= Len(runs) /\ runs[i].status = "queued") ~> (i <= Len(runs) /\ runs[i].status = "owned")

----------------------------------------------------------------------------
(* The inductive strengthening PlatformProofs uses.                          *)

RoutineRuns ==
    [nonce : ({"routine"} \X Slots) \cup ({"routine-test"} \X Tests),
     old : BOOLEAN, status : {"queued", "owned"}]
Passes ==
    [pc : {"idle", "settle", "enqueue", "dispatch"}, slot : 0 .. MaxTime,
     cron : Crons \cup {Untouched}, at : 0 .. MaxTime, run : Nat]
Edits ==
    [pc : {"idle", "read", "clock", "done"},
     patch : [cron : Crons \cup {Untouched}, enabled : {"yes", "no", "same"}],
     cron : Crons \cup {Untouched}, enabled : BOOLEAN, clock : 0 .. MaxTime]
RoutineShapes ==
    /\ now \in 0 .. MaxTime /\ faults \in 0 .. MaxPassFaults /\ since \in 0 .. MaxTime
    /\ row \in [cron : Crons, enabled : BOOLEAN, deleted : BOOLEAN, next : 1 .. Never]
    /\ ledger \in [Slots -> {"none", "missed", "run"}]
    /\ runs \in Seq(RoutineRuns) /\ tasks = Len(runs) /\ jobs \in SUBSET (1 .. Len(runs))
    /\ tick \in [Ticks -> Passes] /\ edit \in [Editors -> Edits]

\* What a pass carries from its scan: a slot that had come, and the run it fired.
OfSlot(pass, time, count) ==
    /\ pass.pc = "settle" =>
         pass.cron \in Crons /\ pass.slot \in Slots /\ pass.slot <= pass.at /\ pass.at <= time
    /\ pass.pc = "enqueue" => pass.run \in 1 .. count
PassesAreOfSlots == \A k \in Ticks : OfSlot(tick[k], now, Len(runs))
EditsAreOfRows == \A e \in Editors : edit[e].pc \in {"read", "clock"} => edit[e].cron \in Crons

\* A slot's ledger entry and its run are made together, and a nonce makes one run.
SlotsHaveRuns ==
    /\ \A i, j \in 1 .. Len(runs) : runs[i].nonce = runs[j].nonce => i = j
    /\ \A s \in Slots : ledger[s] = "run" <=> \E i \in 1 .. Len(runs) : runs[i].nonce = SlotNonce(s)

RoutineInv == RoutineShapes /\ PassesAreOfSlots /\ EditsAreOfRows /\ SlotsHaveRuns
=============================================================================
