------------------------------ MODULE RunLease ------------------------------
(***************************************************************************)
(* One durable run of PorkBot, the lease that decides which process may     *)
(* write it, and every process that races for it: the dispatcher that turns *)
(* a queued row into a Graphile job, the run.execute jobs that claim, adopt *)
(* or reclaim the run and work on it, and the lease-watchdog jobs that      *)
(* recover it after its owner went silent.                                  *)
(*                                                                          *)
(* One action is one SQL statement or one await of a handler, so everything *)
(* the code may see change between two statements changes here too.  The    *)
(* run is one row: leases of different runs share no state.  Time is the    *)
(* database's clock, in ticks of RUN_HEARTBEAT_INTERVAL_SECONDS; ttl is     *)
(* lease_expires_at - now(), so "expired" is ttl = 0.  owner and            *)
(* lease_expires_at are always set and cleared together in the code, so an  *)
(* unowned row has ttl = 0 and no deadline.                                 *)
(***************************************************************************)
EXTENDS Integers, FiniteSets

CONSTANTS
    Workers,            \* slots running run.execute jobs; a slot's id is its job id
    Watchdogs,          \* slots running lease-watchdog jobs
    NoOwner,            \* lease_owner is null
    Calls,              \* tool call ids, the idempotency keys of external_effect
    NoCall,             \* no tool call in progress
    HeartbeatInterval,  \* RUN_HEARTBEAT_INTERVAL_SECONDS, in ticks
    HeartbeatGrace,     \* RUN_HEARTBEAT_GRACE_SECONDS, in ticks
    MaxFence,           \* bound: the highest fence a behaviour reaches
    MaxFaults           \* bound: crashes, database errors and missed renewals

Procs == Workers \cup Watchdogs
LeaseTtl == HeartbeatInterval + HeartbeatGrace

ASSUME SlotsAssumption ==
    /\ Workers \cap Watchdogs = {}
    /\ NoOwner \notin Procs
    /\ NoCall \notin Calls
ASSUME BoundsAssumption ==
    /\ HeartbeatInterval \in Nat \ {0}
    /\ HeartbeatGrace \in Nat
    /\ MaxFence \in Nat \ {0}
    /\ MaxFaults \in Nat

VARIABLES
    status, owner, fence, ttl, checkpoint,  \* the run row
    attempts,           \* attempt rows by fence, "none" where no row exists
    effects,            \* external_effect rows by call id
    found,              \* what the dispatcher's scan returned, not yet enqueued
    queue,              \* the pending job under the key run.execute:<run id>
    retry,              \* jobs Graphile will deliver again after a throw or a crash
    pc,                 \* where each job's handler is
    job,                \* the payload (or, for a watchdog, the row) it read
    calling, stage,     \* the tool call a worker has begun, and how far it is
    ran,                \* how often each call's handler was started
    faults              \* the faults used up

rowVars == <<status, owner, fence, ttl, checkpoint>>
recordVars == <<attempts, effects>>
queueVars == <<found, queue, retry>>
callVars == <<calling, stage, ran>>
vars == <<rowVars, recordVars, queueVars, pc, job, callVars, faults>>

Terminal == {"completed", "failed", "cancelled"}
\* The statuses every lease statement of run-leases.ts accepts.
Leased == {"running", "waiting_approval"}
Statuses == {"queued"} \cup Leased \cup Terminal
AttemptStatuses == {"none", "running", "completed", "failed", "cancelled", "abandoned"}
EffectStatuses == {"absent", "running", "completed", "failed"}
Payloads == [fence : 0 .. MaxFence, from : Watchdogs \cup {NoOwner}]
\* Worker: "read" .. "lost".  Watchdog: "reread" .. "handoff".
Steps == {"idle",
          "read", "claim", "adopt", "reclaim", "unresumable", "work", "settled", "lost",
          "reread", "takeover", "fail", "handoff"}
\* A process at one of these steps has won a fence of its own.
Acquired == {"unresumable", "work", "settled", "lost", "fail", "handoff"}

Init ==
    /\ status = "queued" /\ owner = NoOwner /\ fence = 0 /\ ttl = 0
    /\ checkpoint = "absent"
    /\ attempts = [f \in 1 .. MaxFence |-> "none"]
    /\ effects = [c \in Calls |-> "absent"]
    /\ found = {} /\ queue = {} /\ retry = {}
    /\ pc = [p \in Procs |-> "idle"]
    /\ job = [p \in Procs |-> [fence |-> 0, from |-> NoOwner]]
    /\ calling = [w \in Workers |-> NoCall]
    /\ stage = [w \in Workers |-> "none"]
    /\ ran = [c \in Calls |-> 0]
    /\ faults = 0

-----------------------------------------------------------------------------
(* The lease statements of packages/db/src/run-leases.ts *)

\* The fence p's compare-and-swap produced: the one it read, plus one.
LeaseFence(p) == job[p].fence + 1

\* The where clause heartbeatRun and updateClaimedRun share.
Holds(p) ==
    /\ owner = p /\ fence = LeaseFence(p)
    /\ status \in Leased /\ ttl > 0

CanClaim(p) == fence = job[p].fence /\ status = "queued" /\ owner = NoOwner
CanAdopt(p) ==
    /\ fence = job[p].fence /\ status \in Leased
    /\ owner = job[p].from /\ ttl > 0
\* Mutant: a reclaim that compares no fence.
CanReclaimUnfenced(p) == status \in Leased /\ owner # NoOwner /\ ttl = 0
CanReclaim(p) ==
    /\ fence = job[p].fence /\ status \in Leased
    /\ owner # NoOwner /\ ttl = 0

\* What acquireRun writes whatever the mode; MaxFence bounds the fences.
TakeLease(p) ==
    /\ fence < MaxFence
    /\ owner' = p /\ fence' = fence + 1 /\ ttl' = LeaseTtl

\* Mutant: a reclaim that leaves the old attempt running.
CloseNothing(rows, f) == rows
\* The attempt the old owner left running is closed in the reclaim's statement.
CloseAttempt(rows, f) ==
    IF f > 0 /\ rows[f] = "running" THEN [rows EXCEPT ![f] = "abandoned"] ELSE rows
RecordAttempt(rows, f) == [rows EXCEPT ![f] = "running"]
\* Every external_effect row still in flight becomes a recorded failure.
SettleInFlight(es) == [c \in Calls |-> IF es[c] = "running" THEN "failed" ELSE es[c]]

\* Mutant: the status assignment without its guard.
MoveUnguarded(to) == status' = to
\* updateClaimedRun's status assignment with statusTransitionGuard.
MoveStatus(to) ==
    /\ \/ to = "running" /\ status = "waiting_approval"
       \/ to \in {"waiting_approval", "completed"} /\ status = "running"
       \/ to \in {"failed", "cancelled"} /\ status \in Leased
    /\ status' = to
\* The attempt row of the writer's own fence, settled with the run.
SettleAttempt(p, to) ==
    attempts' = IF attempts[LeaseFence(p)] = "running"
                THEN [attempts EXCEPT ![LeaseFence(p)] = to] ELSE attempts
Release == owner' = NoOwner /\ ttl' = 0

\* decideReclaim on the row an acquisition returned.
DecideReclaim(resume, fail) == IF checkpoint = "stored" THEN resume ELSE fail

Goto(p, step) == pc' = [pc EXCEPT ![p] = step]
DropCall(p) ==
    /\ calling' = [calling EXCEPT ![p] = NoCall]
    /\ stage' = [stage EXCEPT ![p] = "none"]
    /\ UNCHANGED ran
Fault == faults < MaxFaults /\ faults' = faults + 1

-----------------------------------------------------------------------------
(* apps/worker/src/run-dispatch.ts: a scan, then one addJob per row found *)

DispatchScan ==
    /\ found = {} /\ status = "queued" /\ owner = NoOwner
    /\ found' = {[fence |-> fence, from |-> NoOwner]}
    /\ UNCHANGED <<rowVars, recordVars, queue, retry, pc, job, callVars, faults>>

\* jobKeyMode "replace": whatever is pending under the key is overwritten.
DispatchEnqueue ==
    /\ found # {} /\ queue' = found /\ found' = {}
    /\ UNCHANGED <<rowVars, recordVars, retry, pc, job, callVars, faults>>

\* addJob threw, or the process stopped: the pass is logged and forgotten.
DispatchFails ==
    /\ found # {} /\ Fault /\ found' = {}
    /\ UNCHANGED <<rowVars, recordVars, queue, retry, pc, job, callVars>>

-----------------------------------------------------------------------------
(* apps/worker/src/jobs/run-execute.ts: runExecuteJob and resumeRun *)

Deliver(w) ==
    /\ pc[w] = "idle"
    /\ \E p \in queue \cup retry :
         /\ \/ p \in queue /\ queue' = queue \ {p} /\ UNCHANGED retry
            \/ p \in retry /\ retry' = retry \ {p} /\ UNCHANGED queue
         /\ job' = [job EXCEPT ![w] = p]
    /\ Goto(w, "read")
    /\ UNCHANGED <<rowVars, recordVars, found, callVars, faults>>

\* The re-read row decides: a payload whose fence moved on is dropped.
ReadRun(w) ==
    /\ pc[w] = "read"
    /\ Goto(w, IF fence = job[w].fence THEN "claim" ELSE "idle")
    /\ UNCHANGED <<rowVars, recordVars, queueVars, job, callVars, faults>>

Claim(w) ==
    /\ pc[w] = "claim"
    /\ \/ /\ CanClaim(w) /\ TakeLease(w) /\ status' = "running"
          /\ attempts' = RecordAttempt(attempts, fence + 1)
          /\ Goto(w, "work")
       \/ /\ ~CanClaim(w)
          /\ Goto(w, IF job[w].from = NoOwner THEN "reclaim" ELSE "adopt")
          /\ UNCHANGED <<status, owner, fence, ttl, attempts>>
    /\ UNCHANGED <<checkpoint, effects, queueVars, job, callVars, faults>>

\* resumeRun: work on, or fail the run as not resumable.  HandedOffCanResume says
\* the second branch is never taken, so the failure it writes is no action here.
Resume(w) == Goto(w, DecideReclaim("work", "unresumable"))

Adopt(w) ==
    /\ pc[w] = "adopt"
    /\ \/ /\ CanAdopt(w) /\ TakeLease(w)
          /\ attempts' = RecordAttempt(attempts, fence + 1)
          /\ Resume(w)
       \/ /\ ~CanAdopt(w) /\ Goto(w, "reclaim")
          /\ UNCHANGED <<owner, fence, ttl, attempts>>
    /\ UNCHANGED <<status, checkpoint, effects, queueVars, job, callVars, faults>>

Reclaim(w) ==
    /\ pc[w] = "reclaim"
    /\ \/ /\ CanReclaim(w) /\ TakeLease(w)
          /\ attempts' = RecordAttempt(CloseAttempt(attempts, fence), fence + 1)
          /\ effects' = SettleInFlight(effects)
          /\ Resume(w)
       \/ /\ ~CanReclaim(w) /\ Goto(w, "idle")
          /\ UNCHANGED <<owner, fence, ttl, recordVars>>
    /\ UNCHANGED <<status, checkpoint, queueVars, job, callVars, faults>>

-----------------------------------------------------------------------------
(* apps/worker/src/run-execution.ts: the fenced lifetime of an execution *)

\* Mutant: a renewal that extends the deadline instead of resetting it.
HeartbeatExtends(w) ==
    /\ pc[w] = "work" /\ Holds(w) /\ ttl' = ttl + LeaseTtl
    /\ UNCHANGED <<status, owner, fence, checkpoint, recordVars, queueVars, pc, job, callVars,
                   faults>>
\* One renewal that succeeds; the worker's fence and owner still match.
Heartbeat(w) ==
    /\ pc[w] = "work" /\ Holds(w) /\ ttl' = LeaseTtl
    /\ UNCHANGED <<status, owner, fence, checkpoint, recordVars, queueVars, pc, job, callVars,
                   faults>>

\* Any fenced write that cannot be made ends the execution without a run write,
\* a database error as much as a moved fence.  The beat loop outlives the
\* settlement (its scope holds releaseComputer too), and a terminal row
\* refuses every beat.
LoseLease(w) ==
    /\ \/ pc[w] = "work" /\ ~Holds(w) /\ UNCHANGED faults
       \/ pc[w] = "work" /\ Holds(w) /\ Fault
       \/ pc[w] = "settled" /\ UNCHANGED faults
    /\ Goto(w, "lost") /\ DropCall(w)
    /\ UNCHANGED <<rowVars, recordVars, queueVars, job>>

\* Best effort: the attempt may be closed already, and the write may fail.
AbandonAttempt(w) ==
    /\ pc[w] = "lost" /\ Goto(w, "idle")
    /\ attempts' \in {attempts, CloseAttempt(attempts, LeaseFence(w))}
    /\ UNCHANGED <<rowVars, effects, queueVars, job, callVars, faults>>

\* updateClaimedRun's checkpoint patch, which decideReclaim reads later.
SaveCheckpoint(w) ==
    /\ pc[w] = "work" /\ Holds(w) /\ checkpoint = "absent" /\ checkpoint' = "stored"
    /\ UNCHANGED <<status, owner, fence, ttl, recordVars, queueVars, pc, job, callVars,
                   faults>>

\* The status moves between running and waiting_approval that updateClaimedRun
\* admits; nothing under apps/ asks for them yet.
ParkOrResume(w) ==
    /\ pc[w] = "work" /\ Holds(w)
    /\ \E to \in Leased : MoveStatus(to)
    /\ UNCHANGED <<owner, fence, ttl, checkpoint, recordVars, queueVars, pc, job, callVars,
                   faults>>

\* The session ended: settlement(outcome) in one fenced statement.
Settle(w) ==
    /\ pc[w] = "work" /\ Holds(w) /\ Release
    /\ \E outcome \in Terminal :
         /\ outcome = "completed" => calling[w] = NoCall
         /\ MoveStatus(outcome) /\ SettleAttempt(w, outcome)
         /\ effects' = IF outcome = "completed" THEN effects ELSE SettleInFlight(effects)
    /\ Goto(w, "settled") /\ DropCall(w)
    /\ UNCHANGED <<fence, checkpoint, queueVars, job, faults>>

\* The work itself failed: the same write without settleInFlight.
WorkFails(w) ==
    /\ pc[w] = "work" /\ Holds(w) /\ Release
    /\ MoveStatus("failed") /\ SettleAttempt(w, "failed")
    /\ Goto(w, "settled") /\ DropCall(w)
    /\ UNCHANGED <<fence, checkpoint, effects, queueVars, job, faults>>

\* releaseComputer and notify, which touch nothing of the lease.
ReleaseComputer(w) ==
    /\ pc[w] = "settled" /\ Goto(w, "idle")
    /\ UNCHANGED <<rowVars, recordVars, queueVars, job, callVars, faults>>

-----------------------------------------------------------------------------
(* packages/effect/src/tool-dispatcher.ts over packages/db/src/tool-call-ledger.ts *)

\* begin: the unique key admits the call once; it is not fenced by the lease.
\* A call with a settled row is answered from it and changes nothing.
BeginCall(w) ==
    /\ pc[w] = "work" /\ calling[w] = NoCall
    /\ \E c \in Calls :
         /\ effects[c] = "absent"
         /\ effects' = [effects EXCEPT ![c] = "running"]
         /\ calling' = [calling EXCEPT ![w] = c]
    /\ stage' = [stage EXCEPT ![w] = "begun"]
    /\ UNCHANGED <<rowVars, attempts, queueVars, pc, job, ran, faults>>

\* Mutant: a handler that is started again while it is running.
RunCallAgain(w) ==
    /\ pc[w] = "work" /\ stage[w] # "none"
    /\ Holds(w) /\ ttl' = LeaseTtl
    /\ stage' = [stage EXCEPT ![w] = "handling"]
    /\ ran' = [ran EXCEPT ![calling[w]] = @ + 1]
    /\ UNCHANGED <<status, owner, fence, checkpoint, recordVars, queueVars, pc, job, calling,
                   faults>>
\* The awaited heartbeat is the last gate before the side effect.
RunCall(w) ==
    /\ pc[w] = "work" /\ stage[w] = "begun"
    /\ Holds(w) /\ ttl' = LeaseTtl
    /\ stage' = [stage EXCEPT ![w] = "handling"]
    /\ ran' = [ran EXCEPT ![calling[w]] = @ + 1]
    /\ UNCHANGED <<status, owner, fence, checkpoint, recordVars, queueVars, pc, job, calling,
                   faults>>

\* Mutant: complete and fail overwrite whatever is recorded.
FinishCallBlindly(w) ==
    /\ pc[w] = "work" /\ stage[w] = "handling"
    /\ \E to \in {"completed", "failed"} : effects' = [effects EXCEPT ![calling[w]] = to]
    /\ DropCall(w)
    /\ UNCHANGED <<rowVars, attempts, queueVars, pc, job, faults>>
\* complete or fail: settles the claim only while it is still running.
FinishCall(w) ==
    /\ pc[w] = "work" /\ stage[w] = "handling"
    /\ \E to \in {"completed", "failed"} :
         effects' = IF effects[calling[w]] = "running"
                    THEN [effects EXCEPT ![calling[w]] = to] ELSE effects
    /\ DropCall(w)
    /\ UNCHANGED <<rowVars, attempts, queueVars, pc, job, faults>>

-----------------------------------------------------------------------------
(* apps/worker/src/jobs/lease-watchdog.ts: one candidate of a pass *)

\* Mutant: a pass that looks for running runs only.
ScanRunningOnly(d) ==
    /\ pc[d] = "idle" /\ status = "running" /\ owner # NoOwner /\ ttl = 0
    /\ Goto(d, "reread")
    /\ UNCHANGED <<rowVars, recordVars, queueVars, job, callVars, faults>>
Scan(d) ==
    /\ pc[d] = "idle" /\ status \in Leased /\ owner # NoOwner /\ ttl = 0
    /\ Goto(d, "reread")
    /\ UNCHANGED <<rowVars, recordVars, queueVars, job, callVars, faults>>

\* isExpired reads the worker host's clock, which may disagree either way: the
\* row is taken for expired, or skipped until the next pass.
RereadExpired(d) ==
    /\ pc[d] = "reread" /\ status \notin Terminal /\ owner # NoOwner
    /\ job' = [job EXCEPT ![d] = [fence |-> fence, from |-> NoOwner]]
    /\ Goto(d, "takeover")
    /\ UNCHANGED <<rowVars, recordVars, queueVars, callVars, faults>>
RereadLive(d) ==
    /\ pc[d] = "reread" /\ Goto(d, "idle")
    /\ UNCHANGED <<rowVars, recordVars, queueVars, job, callVars, faults>>

\* Mutant: a takeover that hands the run over before deciding.
TakeOverBlindly(d) ==
    /\ pc[d] = "takeover"
    /\ \/ /\ CanReclaim(d) /\ TakeLease(d)
          /\ attempts' = CloseAttempt(attempts, fence)
          /\ effects' = SettleInFlight(effects)
          /\ Goto(d, "handoff")
       \/ /\ ~CanReclaim(d) /\ Goto(d, "idle")
          /\ UNCHANGED <<owner, fence, ttl, recordVars>>
    /\ UNCHANGED <<status, checkpoint, queueVars, job, callVars, faults>>
\* reclaimRun with recordAttempt: false.
TakeOver(d) ==
    /\ pc[d] = "takeover"
    /\ \/ /\ CanReclaim(d) /\ TakeLease(d)
          /\ attempts' = CloseAttempt(attempts, fence)
          /\ effects' = SettleInFlight(effects)
          /\ Goto(d, DecideReclaim("handoff", "fail"))
       \/ /\ ~CanReclaim(d) /\ Goto(d, "idle")
          /\ UNCHANGED <<owner, fence, ttl, recordVars>>
    /\ UNCHANGED <<status, checkpoint, queueVars, job, callVars, faults>>

\* failRun: no release, no attempt.  A refused write throws out of the pass.
FailRun(d) ==
    /\ pc[d] = "fail" /\ Goto(d, "idle")
    /\ \/ Holds(d) /\ MoveStatus("failed")
       \/ ~Holds(d) /\ UNCHANGED status
    /\ UNCHANGED <<owner, fence, ttl, checkpoint, recordVars, queueVars, job, callVars,
                   faults>>

Handoff(d) ==
    /\ pc[d] = "handoff" /\ Goto(d, "idle")
    /\ queue' = {[fence |-> LeaseFence(d), from |-> d]}
    /\ UNCHANGED <<rowVars, recordVars, found, retry, job, callVars, faults>>

-----------------------------------------------------------------------------
(* The environment *)

\* The handler's process dies; a run.execute job is delivered again later.
Crash(p) ==
    /\ pc[p] # "idle" /\ Fault /\ Goto(p, "idle")
    /\ \/ p \in Workers /\ retry' = retry \cup {job[p]} /\ DropCall(p)
       \/ p \in Watchdogs /\ UNCHANGED <<retry, callVars>>
    /\ UNCHANGED <<rowVars, recordVars, found, queue, job>>

\* Somebody is still about to renew, settle or adopt the current lease.
Attended ==
    \/ \E p \in Procs : Holds(p) /\ pc[p] \in {"work", "unresumable", "fail", "handoff"}
    \/ \E j \in queue \cup retry \cup
               {job[w] : w \in {v \in Workers : pc[v] \in {"read", "claim", "adopt", "reclaim"}}} :
           j.fence = fence

\* Letting an attended lease run out is a fault: a beat every tick keeps it.
Tick ==
    /\ status \in Leased /\ ttl > 0 /\ ttl' = ttl - 1
    /\ IF ttl = 1 /\ Attended THEN Fault ELSE UNCHANGED faults
    /\ UNCHANGED <<status, owner, fence, checkpoint, recordVars, queueVars, pc, job, callVars>>

Work(w) ==
    \/ Heartbeat(w) \/ LoseLease(w) \/ AbandonAttempt(w) \/ SaveCheckpoint(w)
    \/ ParkOrResume(w) \/ Settle(w) \/ WorkFails(w) \/ ReleaseComputer(w)
    \/ BeginCall(w) \/ RunCall(w) \/ FinishCall(w)
Execute(w) ==
    \/ Deliver(w) \/ ReadRun(w) \/ Claim(w) \/ Adopt(w) \/ Reclaim(w)
Watch(d) ==
    \/ Scan(d) \/ RereadExpired(d) \/ RereadLive(d) \/ TakeOver(d) \/ FailRun(d) \/ Handoff(d)

Next ==
    \/ DispatchScan \/ DispatchEnqueue \/ DispatchFails
    \/ \E w \in Workers : Execute(w) \/ Work(w)
    \/ \E d \in Watchdogs : Watch(d)
    \/ \E p \in Procs : Crash(p)
    \/ Tick

Spec == Init /\ [][Next]_vars

\* Timers and queues keep going: the dispatcher polls every second, cron starts a
\* watchdog pass every minute, Graphile delivers what is due, a handler that has
\* an await to resume resumes it, and a session ends (its own limits end it).
\* The host clock agrees with the database's often enough (strong fairness).
Fairness ==
    /\ WF_vars(DispatchScan) /\ WF_vars(DispatchEnqueue) /\ WF_vars(Tick)
    /\ \A w \in Workers :
         /\ WF_vars(Execute(w))
         /\ WF_vars(Settle(w) \/ WorkFails(w) \/ LoseLease(w) \/ AbandonAttempt(w)
                    \/ ReleaseComputer(w))
    /\ \A d \in Watchdogs : WF_vars(Watch(d)) /\ SF_vars(RereadExpired(d))
FairSpec == Spec /\ Fairness

-----------------------------------------------------------------------------
(* Properties *)

RowOK ==
    /\ status \in Statuses /\ owner \in Procs \cup {NoOwner}
    /\ fence \in 0 .. MaxFence /\ ttl \in 0 .. LeaseTtl
    /\ checkpoint \in {"absent", "stored"}
    /\ faults \in 0 .. MaxFaults
RecordsOK ==
    /\ attempts \in [1 .. MaxFence -> AttemptStatuses]
    /\ effects \in [Calls -> EffectStatuses] /\ ran \in [Calls -> Nat]
QueueOK == found \in SUBSET Payloads /\ queue \in SUBSET Payloads /\ retry \in SUBSET Payloads
ProcsOK ==
    /\ pc \in [Procs -> Steps] /\ job \in [Procs -> Payloads]
    /\ \A p \in Procs : pc[p] \in Acquired => LeaseFence(p) \in 1 .. MaxFence
    /\ calling \in [Workers -> Calls \cup {NoCall}]
    /\ stage \in [Workers -> {"none", "begun", "handling"}]
\* The row, its records, the queue and the processes keep their types; no renewal
\* reaches further than one TTL ahead and no fence past its bound is won.
TypeOK == RowOK /\ RecordsOK /\ QueueOK /\ ProcsOK

\* A fence is won by one process only: however deliveries are duplicated, replaced
\* or retried, no two of them execute under the same fence.
OneWinnerPerFence ==
    \A p, q \in Procs :
        (pc[p] \in Acquired /\ pc[q] \in Acquired /\ p # q) => LeaseFence(p) # LeaseFence(q)

\* The attempt rows tell one story: every fence behind the row's was abandoned (or
\* held by a watchdog, which records none), no fence ahead of it was tried, and a
\* run that ended carries the outcome of the attempt that ended it, never a
\* running one.
AttemptsAgree ==
    /\ \A f \in 1 .. MaxFence :
         /\ f < fence => attempts[f] \in {"none", "abandoned"}
         /\ f > fence => attempts[f] = "none"
    /\ status \in Terminal =>
         \/ attempts[fence] = status
         \/ status = "failed" /\ attempts[fence] = "none"

\* decideReclaim's rule, resume from a checkpoint or fail: an execution past the
\* first fence never works on a run that stored no checkpoint.
NeverRestarts ==
    \A w \in Workers : (pc[w] = "work" /\ LeaseFence(w) > 1) => checkpoint = "stored"

\* A payload that reaches a worker past the first fence was handed over by a
\* watchdog that saw a checkpoint, however stale, retried or replaced it is: the
\* failure branch of resumeRun is never taken.
HandedOffCanResume == \A w \in Workers : pc[w] # "unresumable"

\* Recovery is a resume or nothing: no successor starts a run over, and whatever a
\* watchdog hands over can be resumed.
RecoveryIsSound == NeverRestarts /\ HandedOffCanResume

\* The side effect of one call id happens at most once over all owners, crashes
\* and resumes of the run.
EffectAtMostOnce == \A c \in Calls : ran[c] <= 1

\* A handler whose claim is still in flight belongs to the current fence: once a
\* successor took the run, nothing a superseded worker finishes is recorded.
InFlightIsOurs ==
    \A w \in Workers :
        (stage[w] = "handling" /\ effects[calling[w]] = "running") => LeaseFence(w) = fence

\* Tool effects survive every change of owner: each call runs at most once, and only
\* the current fence can still record one.
ToolEffectsAreSound == EffectAtMostOnce /\ InFlightIsOurs

\* A recorded outcome of a call is never rewritten, so every replay of the call
\* id answers what the first answer was.
OutcomeIsFinal ==
    [][\A c \in Calls : effects[c] \in {"completed", "failed"} => effects'[c] = effects[c]]_vars

\* The statements of run-leases.ts implement the table of run-state.ts: no
\* interleaving leaves a terminal status or moves the fence of an ended run.
Lifecycle == INSTANCE RunLifecycle WITH status <- status, fence <- fence
ImplementsLifecycle == Lifecycle!Spec

\* Whatever crashes, database errors and missed renewals happen (finitely many),
\* the run ends: recovery never strands it.
EventuallySettles == <>(status \in Terminal)

-----------------------------------------------------------------------------
(* The inductive strengthenings RunLeaseProofs uses *)

\* The row's fence is the newest one, and while the run is leased its owner is
\* the process that won it.
FenceInv ==
    /\ OneWinnerPerFence
    /\ \A p \in Procs : pc[p] \in Acquired =>
         /\ LeaseFence(p) <= fence
         /\ (LeaseFence(p) = fence /\ status \in Leased) => owner = p
    /\ status = "queued" => fence = 0
    /\ status # "queued" => fence > 0
    /\ status \in Leased => owner \in Procs

\* A payload past the first fence proves that a checkpoint is stored.
ResumeInv ==
    /\ HandedOffCanResume
    /\ \A j \in queue \cup retry \cup found : j.fence > 0 => checkpoint = "stored"
    /\ \A w \in Workers : job[w].fence > 0 => checkpoint = "stored"
    /\ \A d \in Watchdogs : pc[d] = "handoff" => checkpoint = "stored"

\* The attempt of the current fence is running while a worker works under it and
\* was never recorded while a watchdog holds it.
AttemptInv ==
    /\ AttemptsAgree
    /\ status \in Leased => attempts[fence] \in {"none", "running", "abandoned"}
    /\ (status \in Leased /\ owner \in Watchdogs) => attempts[fence] = "none"
    /\ \A w \in Workers :
         (pc[w] \in {"work", "unresumable"} /\ LeaseFence(w) = fence /\ status \in Leased)
             => attempts[fence] = "running"

\* A call id in progress was admitted to exactly one worker, which has not run
\* its handler before the gate.
EffectInv ==
    /\ InFlightIsOurs /\ EffectAtMostOnce
    /\ \A w \in Workers :
         /\ stage[w] = "none" <=> calling[w] = NoCall
         /\ calling[w] # NoCall => pc[w] = "work" /\ effects[calling[w]] # "absent"
         /\ stage[w] = "begun" => ran[calling[w]] = 0
         /\ \A v \in Workers : (calling[w] # NoCall /\ calling[w] = calling[v]) => w = v
    /\ \A c \in Calls : effects[c] = "absent" => ran[c] = 0

-----------------------------------------------------------------------------
(* What comments in the code say and TLC refutes *)

=============================================================================
