--------------------------- MODULE RunLeaseProofs ---------------------------
(***************************************************************************)
(* Machine-checked proofs about RunLease, for every set of workers,         *)
(* watchdogs and calls and every bound.                                     *)
(***************************************************************************)
EXTENDS RunLease, TLAPS

USE SlotsAssumption, BoundsAssumption DEF Procs, Statuses, Leased, Terminal

-----------------------------------------------------------------------------
(* Type correctness *)

\* Job payloads are opaque below: these two facts are all that is used of them.
LEMMA PayloadIntro ==
    ASSUME NEW f \in 0 .. MaxFence, NEW o \in Watchdogs \cup {NoOwner}
    PROVE [fence |-> f, from |-> o] \in Payloads
    BY DEF Payloads

LEMMA PayloadElim ==
    ASSUME NEW j \in Payloads
    PROVE j.fence \in 0 .. MaxFence /\ j.from \in Watchdogs \cup {NoOwner}
    BY DEF Payloads

LEMMA TypeInit == Init => TypeOK
<1> SUFFICES ASSUME Init PROVE TypeOK
    OBVIOUS
<1>1. [fence |-> 0, from |-> NoOwner] \in Payloads
    BY PayloadIntro
<1>2. RowOK BY DEF Init, RowOK, LeaseTtl
<1>3. RecordsOK BY DEF Init, RecordsOK, AttemptStatuses, EffectStatuses
<1>4. QueueOK BY DEF Init, QueueOK
<1>5. ProcsOK BY <1>1 DEF Init, ProcsOK, Steps, Acquired
<1> QED BY <1>2, <1>3, <1>4, <1>5 DEF TypeOK

\* The run row keeps its columns' types.
LEMMA RowStep == TypeOK /\ [Next]_vars => RowOK'
<1> SUFFICES ASSUME TypeOK, [Next]_vars PROVE RowOK'
    OBVIOUS
<1> USE DEF TypeOK, RowOK, rowVars, LeaseTtl, Fault
<1>1. CASE DispatchScan \/ DispatchEnqueue \/ DispatchFails \/ Tick
    BY <1>1 DEF DispatchScan, DispatchEnqueue, DispatchFails, Tick
<1>2. ASSUME NEW w \in Workers, Execute(w) PROVE RowOK'
    BY <1>2 DEF Execute, Deliver, ReadRun, Claim, Adopt, Reclaim, TakeLease
<1>3. ASSUME NEW w \in Workers, Work(w) PROVE RowOK'
    BY <1>3 DEF Work, Heartbeat, LoseLease, AbandonAttempt, SaveCheckpoint, ParkOrResume, Settle,
                WorkFails, ReleaseComputer, BeginCall, RunCall, FinishCall, MoveStatus, Release
<1>4. ASSUME NEW d \in Watchdogs, Watch(d) PROVE RowOK'
    BY <1>4 DEF Watch, Scan, RereadExpired, RereadLive, TakeOver, FailRun, Handoff, TakeLease,
                MoveStatus
<1>5. ASSUME NEW p \in Procs, Crash(p) PROVE RowOK'
    BY <1>5 DEF Crash
<1>6. CASE UNCHANGED vars BY <1>6 DEF vars
<1> QED BY <1>1, <1>2, <1>3, <1>4, <1>5, <1>6 DEF Next

\* What the helpers on attempt and effect rows return.
LEMMA AttemptHelpers ==
    ASSUME NEW rows \in [1 .. MaxFence -> AttemptStatuses], NEW f \in 0 .. MaxFence
    PROVE /\ CloseAttempt(rows, f) \in [1 .. MaxFence -> AttemptStatuses]
          /\ RecordAttempt(rows, f) \in [1 .. MaxFence -> AttemptStatuses]
    BY DEF CloseAttempt, RecordAttempt, AttemptStatuses

LEMMA SettleInFlightType ==
    ASSUME NEW es \in [Calls -> EffectStatuses]
    PROVE SettleInFlight(es) \in [Calls -> EffectStatuses]
    BY DEF SettleInFlight, EffectStatuses

LEMMA SettleAttemptType ==
    ASSUME TypeOK, NEW p \in Procs, NEW to \in Terminal, SettleAttempt(p, to)
    PROVE attempts' \in [1 .. MaxFence -> AttemptStatuses]
    BY DEF TypeOK, RecordsOK, SettleAttempt, AttemptStatuses

\* The attempt and effect rows keep their types.
LEMMA RecordsStep == TypeOK /\ [Next]_vars => RecordsOK'
<1> SUFFICES ASSUME TypeOK, [Next]_vars PROVE RecordsOK'
    OBVIOUS
<1> USE DEF TypeOK, RecordsOK, recordVars, callVars, DropCall
<1>0. /\ fence \in 0 .. MaxFence
      /\ fence < MaxFence => fence + 1 \in 0 .. MaxFence
      /\ \A p \in Procs : pc[p] \in Acquired => LeaseFence(p) \in 0 .. MaxFence
    BY DEF RowOK, ProcsOK
<1>1. CASE DispatchScan \/ DispatchEnqueue \/ DispatchFails \/ Tick
    BY <1>1 DEF DispatchScan, DispatchEnqueue, DispatchFails, Tick
<1>2. ASSUME NEW w \in Workers, Execute(w) PROVE RecordsOK'
    <2>1. CASE Deliver(w) \/ ReadRun(w) BY <2>1 DEF Deliver, ReadRun
    <2>2. CASE Claim(w) BY <2>2, <1>0, AttemptHelpers DEF Claim, TakeLease
    <2>3. CASE Adopt(w) BY <2>3, <1>0, AttemptHelpers DEF Adopt, TakeLease
    <2>4. CASE Reclaim(w)
        <3>1. CloseAttempt(attempts, fence) \in [1 .. MaxFence -> AttemptStatuses]
            BY <1>0, AttemptHelpers
        <3>2. fence < MaxFence =>
                RecordAttempt(CloseAttempt(attempts, fence), fence + 1)
                    \in [1 .. MaxFence -> AttemptStatuses]
            BY <3>1, <1>0, AttemptHelpers
        <3> QED BY <2>4, <3>2, SettleInFlightType DEF Reclaim, TakeLease
    <2> QED BY <1>2, <2>1, <2>2, <2>3, <2>4 DEF Execute
<1>3. ASSUME NEW w \in Workers, Work(w) PROVE RecordsOK'
    <2>1. CASE Heartbeat(w) \/ LoseLease(w) \/ SaveCheckpoint(w) \/ ParkOrResume(w)
               \/ ReleaseComputer(w)
        BY <2>1 DEF Heartbeat, LoseLease, SaveCheckpoint, ParkOrResume, ReleaseComputer
    <2>2. CASE AbandonAttempt(w)
        BY <2>2, <1>0, AttemptHelpers DEF AbandonAttempt, Acquired
    <2>3. CASE Settle(w)
        BY <2>3, SettleAttemptType, SettleInFlightType DEF Settle
    <2>4. CASE WorkFails(w) BY <2>4, SettleAttemptType DEF WorkFails
    <2>5. CASE BeginCall(w) \/ RunCall(w) \/ FinishCall(w)
        BY <2>5 DEF BeginCall, RunCall, FinishCall, EffectStatuses
    <2> QED BY <1>3, <2>1, <2>2, <2>3, <2>4, <2>5 DEF Work
<1>4. ASSUME NEW d \in Watchdogs, Watch(d) PROVE RecordsOK'
    <2>1. CASE TakeOver(d)
        BY <2>1, <1>0, AttemptHelpers, SettleInFlightType DEF TakeOver
    <2> QED BY <1>4, <2>1 DEF Watch, Scan, RereadExpired, RereadLive, FailRun, Handoff
<1>5. ASSUME NEW p \in Procs, Crash(p) PROVE RecordsOK'
    BY <1>5 DEF Crash
<1>6. CASE UNCHANGED vars BY <1>6 DEF vars
<1> QED BY <1>1, <1>2, <1>3, <1>4, <1>5, <1>6 DEF Next

\* The queue and the handlers hold well-formed payloads and known steps.
LEMMA JobsStep == TypeOK /\ [Next]_vars => QueueOK' /\ ProcsOK'
<1> SUFFICES ASSUME TypeOK, [Next]_vars PROVE QueueOK' /\ ProcsOK'
    OBVIOUS
<1> USE DEF TypeOK, QueueOK, ProcsOK, queueVars, callVars, Goto, DropCall, Steps, Acquired,
            LeaseFence
<1>0. [fence |-> fence, from |-> NoOwner] \in Payloads
    BY PayloadIntro DEF RowOK
<1>1. CASE DispatchScan \/ DispatchEnqueue \/ DispatchFails \/ Tick
    BY <1>0, <1>1 DEF DispatchScan, DispatchEnqueue, DispatchFails, Tick
<1>2. ASSUME NEW w \in Workers, Execute(w) PROVE QueueOK' /\ ProcsOK'
    <2>1. CASE Deliver(w) \/ ReadRun(w) BY <2>1 DEF Deliver, ReadRun
    <2>2. job[w].fence \in 0 .. MaxFence BY PayloadElim
    <2>3. CASE Claim(w) BY <2>2, <2>3 DEF Claim, CanClaim, TakeLease, RowOK
    <2>4. CASE Adopt(w) BY <2>2, <2>4 DEF Adopt, CanAdopt, TakeLease, Resume, DecideReclaim, RowOK
    <2>5. CASE Reclaim(w) BY <2>2, <2>5 DEF Reclaim, CanReclaim, TakeLease, Resume, DecideReclaim, RowOK
    <2> QED BY <1>2, <2>1, <2>3, <2>4, <2>5 DEF Execute
<1>3. ASSUME NEW w \in Workers, Work(w) PROVE QueueOK' /\ ProcsOK'
    <2>1. CASE Heartbeat(w) \/ LoseLease(w) \/ AbandonAttempt(w) \/ SaveCheckpoint(w)
               \/ ParkOrResume(w)
        BY <2>1 DEF Heartbeat, LoseLease, AbandonAttempt, SaveCheckpoint, ParkOrResume
    <2>2. CASE Settle(w) \/ WorkFails(w) \/ ReleaseComputer(w)
        BY <2>2 DEF Settle, WorkFails, ReleaseComputer
    <2>3. CASE BeginCall(w) \/ RunCall(w) \/ FinishCall(w)
        BY <2>3 DEF BeginCall, RunCall, FinishCall
    <2> QED BY <1>3, <2>1, <2>2, <2>3 DEF Work
<1>4. ASSUME NEW d \in Watchdogs, Watch(d) PROVE QueueOK' /\ ProcsOK'
    <2>1. job[d].fence \in 0 .. MaxFence BY PayloadElim
    <2>2. CASE Scan(d) \/ RereadLive(d) \/ FailRun(d) BY <2>2 DEF Scan, RereadLive, FailRun
    <2>3. CASE RereadExpired(d) BY <1>0, <2>3 DEF RereadExpired
    <2>4. CASE TakeOver(d) BY <2>1, <2>4 DEF TakeOver, CanReclaim, TakeLease, RowOK, DecideReclaim
    <2>5. CASE Handoff(d)
        <3>1. [fence |-> LeaseFence(d), from |-> d] \in Payloads
            BY <2>5, PayloadIntro DEF Handoff
        <3> QED BY <2>5, <3>1 DEF Handoff
    <2> QED BY <1>4, <2>2, <2>3, <2>4, <2>5 DEF Watch
<1>5. ASSUME NEW p \in Procs, Crash(p) PROVE QueueOK' /\ ProcsOK'
    BY <1>5 DEF Crash
<1>6. CASE UNCHANGED vars BY <1>6 DEF vars
<1> QED BY <1>1, <1>2, <1>3, <1>4, <1>5, <1>6 DEF Next

\* Every variable of the model keeps its type: the run row, the attempt and effect
\* rows, the queue and the handlers' own state.
THEOREM TypeCorrect == Spec => []TypeOK
<1>1. TypeOK /\ [Next]_vars => TypeOK'
    BY RowStep, RecordsStep, JobsStep DEF TypeOK
<1> QED BY TypeInit, <1>1, PTL DEF Spec

-----------------------------------------------------------------------------
(* One winner per fence *)

LEMMA FenceInit == Init => FenceInv
    BY DEF Init, FenceInv, OneWinnerPerFence, Acquired

\* The two ways a step can touch what FenceInv speaks of.  A winning step opens
\* a fence above every fence won before.
LEMMA WinningStep ==
    ASSUME TypeOK, FenceInv, NEW p \in Procs,
           fence = job[p].fence, fence' = fence + 1, owner' = p, status' \in Leased,
           job' = job, \A q \in Procs : q # p => pc'[q] = pc[q]
    PROVE FenceInv'
<1>1. \A q \in Procs : LeaseFence(q)' = LeaseFence(q)
    BY DEF LeaseFence
<1>2. LeaseFence(p) = fence + 1 /\ fence \in Nat
    BY DEF LeaseFence, TypeOK, RowOK
<1>3. \A q \in Procs : (pc[q] \in Acquired => LeaseFence(q) \in Nat /\ LeaseFence(q) <= fence)
    BY DEF FenceInv, TypeOK, ProcsOK
<1>4. \A q \in Procs : (q # p /\ pc'[q] \in Acquired) =>
                          LeaseFence(q) \in Nat /\ LeaseFence(q) < fence + 1
    BY <1>2, <1>3
<1>5. OneWinnerPerFence'
    BY <1>1, <1>2, <1>4 DEF OneWinnerPerFence, FenceInv
<1> QED BY <1>1, <1>2, <1>4, <1>5 DEF FenceInv

\* A quiet step opens no fence and adds no winner.
LEMMA QuietStep ==
    ASSUME FenceInv, fence' = fence,
           status' \in Leased => status \in Leased /\ owner' = owner,
           status' = "queued" <=> status = "queued",
           \A q \in Procs : pc'[q] \in Acquired => pc[q] \in Acquired /\ job'[q] = job[q]
    PROVE FenceInv'
    BY DEF FenceInv, OneWinnerPerFence, LeaseFence

LEMMA FenceStep == TypeOK /\ FenceInv /\ [Next]_vars => FenceInv'
<1> SUFFICES ASSUME TypeOK, FenceInv, [Next]_vars PROVE FenceInv'
    OBVIOUS
<1> USE DEF rowVars, Goto, Acquired
<1>0. pc \in [Procs -> Steps] /\ job \in [Procs -> Payloads]
    BY DEF TypeOK, ProcsOK
<1>1. CASE DispatchScan \/ DispatchEnqueue \/ DispatchFails \/ Tick
    BY <1>1, QuietStep DEF DispatchScan, DispatchEnqueue, DispatchFails, Tick
<1>2. ASSUME NEW w \in Workers, Execute(w) PROVE FenceInv'
    <2>1. CASE Deliver(w) \/ ReadRun(w) BY <1>0, <2>1, QuietStep DEF Deliver, ReadRun
    <2>2. CASE Claim(w)
        <3>1. CASE CanClaim(w) BY <1>0, <2>2, <3>1, WinningStep DEF Claim, CanClaim, TakeLease
        <3>2. CASE ~CanClaim(w) BY <1>0, <2>2, <3>2, QuietStep DEF Claim
        <3> QED BY <3>1, <3>2
    <2>3. CASE Adopt(w)
        <3>1. CASE CanAdopt(w)
            BY <1>0, <2>3, <3>1, WinningStep DEF Adopt, CanAdopt, TakeLease, Resume
        <3>2. CASE ~CanAdopt(w) BY <1>0, <2>3, <3>2, QuietStep DEF Adopt
        <3> QED BY <3>1, <3>2
    <2>4. CASE Reclaim(w)
        <3>1. CASE CanReclaim(w)
            BY <1>0, <2>4, <3>1, WinningStep DEF Reclaim, CanReclaim, TakeLease, Resume
        <3>2. CASE ~CanReclaim(w) BY <1>0, <2>4, <3>2, QuietStep DEF Reclaim
        <3> QED BY <3>1, <3>2
    <2> QED BY <1>2, <2>1, <2>2, <2>3, <2>4 DEF Execute
<1>3. ASSUME NEW w \in Workers, Work(w) PROVE FenceInv'
    <2>1. CASE Heartbeat(w) \/ LoseLease(w) \/ AbandonAttempt(w) \/ SaveCheckpoint(w)
               \/ ParkOrResume(w)
        BY <1>0, <2>1, QuietStep DEF Heartbeat, LoseLease, AbandonAttempt, SaveCheckpoint,
                                     ParkOrResume, MoveStatus
    <2>2. CASE Settle(w) \/ WorkFails(w) \/ ReleaseComputer(w)
        BY <1>0, <2>2, QuietStep DEF Settle, WorkFails, ReleaseComputer, MoveStatus
    <2>3. CASE BeginCall(w) \/ RunCall(w) \/ FinishCall(w)
        BY <1>0, <2>3, QuietStep DEF BeginCall, RunCall, FinishCall
    <2> QED BY <1>3, <2>1, <2>2, <2>3 DEF Work
<1>4. ASSUME NEW d \in Watchdogs, Watch(d) PROVE FenceInv'
    <2>1. CASE Scan(d) \/ RereadLive(d) \/ RereadExpired(d) \/ Handoff(d)
        BY <1>0, <2>1, QuietStep DEF Scan, RereadLive, RereadExpired, Handoff
    <2>2. CASE TakeOver(d)
        <3>1. CASE CanReclaim(d)
            BY <1>0, <2>2, <3>1, WinningStep DEF TakeOver, CanReclaim, TakeLease
        <3>2. CASE ~CanReclaim(d) BY <1>0, <2>2, <3>2, QuietStep DEF TakeOver
        <3> QED BY <3>1, <3>2
    <2>3. CASE FailRun(d) BY <1>0, <2>3, QuietStep DEF FailRun, MoveStatus
    <2> QED BY <1>4, <2>1, <2>2, <2>3 DEF Watch
<1>5. ASSUME NEW p \in Procs, Crash(p) PROVE FenceInv'
    BY <1>0, <1>5, QuietStep DEF Crash
<1>6. CASE UNCHANGED vars BY <1>6, QuietStep DEF vars
<1> QED BY <1>1, <1>2, <1>3, <1>4, <1>5, <1>6 DEF Next

LEMMA FenceAlways == Spec => []FenceInv
    BY FenceInit, FenceStep, TypeCorrect, PTL DEF Spec

\* No two executions run under the same fence, whatever deliveries are duplicated,
\* replaced, retried or lost.
THEOREM FencesAreExclusive == Spec => []OneWinnerPerFence
<1>1. FenceInv => OneWinnerPerFence BY DEF FenceInv
<1> QED BY <1>1, FenceAlways, PTL

-----------------------------------------------------------------------------
(* The attempt rows agree with the run *)

LEMMA AttemptInit == Init => AttemptInv
    BY DEF Init, AttemptInv, AttemptsAgree

\* A worker wins a fence whose predecessor left no running attempt behind.
LEMMA WorkerWins ==
    ASSUME TypeOK, FenceInv, AttemptInv, NEW w \in Workers,
           fence < MaxFence, fence' = fence + 1, owner' = w, status' \in Leased,
           job' = job, \A q \in Procs : q # w => pc'[q] = pc[q],
           NEW rows \in [1 .. MaxFence -> AttemptStatuses],
           \A f \in 1 .. MaxFence : f # fence => rows[f] = attempts[f],
           fence > 0 => rows[fence] \in {"none", "abandoned"},
           attempts' = RecordAttempt(rows, fence + 1)
    PROVE AttemptInv'
<1>1. fence \in 0 .. MaxFence /\ fence' \in 1 .. MaxFence
    BY DEF TypeOK, RowOK
<1>2. attempts'[fence'] = "running" BY <1>1 DEF RecordAttempt
<1>3. \A f \in 1 .. MaxFence : f # fence' => attempts'[f] = rows[f]
    BY <1>1 DEF RecordAttempt
<1>4. \A f \in 1 .. MaxFence : /\ f < fence => attempts[f] \in {"none", "abandoned"}
                               /\ f > fence => attempts[f] = "none"
    BY DEF AttemptInv, AttemptsAgree
<1>5. \A f \in 1 .. MaxFence : /\ f < fence' => attempts'[f] \in {"none", "abandoned"}
                               /\ f > fence' => attempts'[f] = "none"
    BY <1>1, <1>3, <1>4
<1>6. AttemptsAgree' BY <1>5 DEF AttemptsAgree
<1> QED BY <1>1, <1>2, <1>6 DEF AttemptInv

\* A watchdog wins one and records no attempt.
LEMMA WatchdogWins ==
    ASSUME TypeOK, FenceInv, AttemptInv, NEW d \in Watchdogs,
           fence < MaxFence, fence' = fence + 1, owner' = d,
           status \in Leased, status' = status,
           job' = job, \A q \in Procs : q # d => pc'[q] = pc[q],
           attempts' = CloseAttempt(attempts, fence)
    PROVE AttemptInv'
<1>1. fence \in 1 .. MaxFence /\ fence' \in 1 .. MaxFence /\ fence' # fence
    BY DEF TypeOK, RowOK, FenceInv
<1>2. attempts \in [1 .. MaxFence -> AttemptStatuses] BY DEF TypeOK, RecordsOK
<1>3. /\ attempts'[fence] \in {"none", "abandoned"}
      /\ \A f \in 1 .. MaxFence : f # fence => attempts'[f] = attempts[f]
    BY <1>1, <1>2 DEF CloseAttempt, AttemptInv
<1>4. attempts'[fence'] = "none" BY <1>1, <1>3 DEF AttemptInv, AttemptsAgree
<1>5. \A f \in 1 .. MaxFence : /\ f < fence' => attempts'[f] \in {"none", "abandoned"}
                               /\ f > fence' => attempts'[f] = "none"
    BY <1>1, <1>3 DEF AttemptInv, AttemptsAgree
<1>6. AttemptsAgree' BY <1>5 DEF AttemptsAgree
<1>7. \A w \in Workers : pc'[w] \in {"work", "unresumable"} =>
                           LeaseFence(w)' # fence'
    BY <1>1 DEF FenceInv, LeaseFence, Acquired, TypeOK, ProcsOK
<1> QED BY <1>4, <1>6, <1>7 DEF AttemptInv

\* Nothing AttemptInv speaks of changes, except that handlers may leave their step.
LEMMA AttemptsRest ==
    ASSUME AttemptInv, fence' = fence, attempts' = attempts,
           status' \in Leased => status \in Leased /\ owner' = owner,
           status' \in Terminal => status' = status,
           \A q \in Procs : pc'[q] \in {"work", "unresumable"} => pc'[q] = pc[q] /\ job'[q] = job[q]
    PROVE AttemptInv'
    BY DEF AttemptInv, AttemptsAgree, LeaseFence

\* The owner ends the run, and its own attempt with it.
LEMMA OwnerSettles ==
    ASSUME TypeOK, AttemptInv, NEW w \in Workers, pc[w] = "work",
           Holds(w), NEW to \in Terminal, status' = to, fence' = fence,
           SettleAttempt(w, to)
    PROVE AttemptInv'
<1>1. attempts[fence] = "running" /\ LeaseFence(w) = fence BY DEF Holds, AttemptInv
<1>2. attempts \in [1 .. MaxFence -> AttemptStatuses] /\ fence \in 0 .. MaxFence
    BY DEF TypeOK, RowOK, RecordsOK
<1>3. fence \in 1 .. MaxFence
    BY <1>1, <1>2, PayloadElim DEF TypeOK, ProcsOK, LeaseFence
<1>4. attempts' = [attempts EXCEPT ![fence] = to] BY <1>1 DEF SettleAttempt
<1>5. AttemptsAgree' BY <1>2, <1>3, <1>4 DEF AttemptsAgree, AttemptInv
<1> QED BY <1>5 DEF AttemptInv

LEMMA AttemptStep == TypeOK /\ FenceInv /\ AttemptInv /\ [Next]_vars => AttemptInv'
<1> SUFFICES ASSUME TypeOK, FenceInv, AttemptInv, [Next]_vars PROVE AttemptInv'
    OBVIOUS
<1> USE DEF rowVars, recordVars, Goto
<1>0. /\ pc \in [Procs -> Steps] /\ job \in [Procs -> Payloads]
      /\ attempts \in [1 .. MaxFence -> AttemptStatuses] /\ fence \in 0 .. MaxFence
    BY DEF TypeOK, RowOK, RecordsOK, ProcsOK
<1>1. CASE DispatchScan \/ DispatchEnqueue \/ DispatchFails \/ Tick
    BY <1>1, AttemptsRest DEF DispatchScan, DispatchEnqueue, DispatchFails, Tick
<1>2. ASSUME NEW w \in Workers, Execute(w) PROVE AttemptInv'
    <2>1. CASE Deliver(w) \/ ReadRun(w) BY <1>0, <2>1, AttemptsRest DEF Deliver, ReadRun
    <2>2. CASE Claim(w)
        <3>1. CASE CanClaim(w)
            <4>1. fence = 0 BY <3>1 DEF CanClaim, FenceInv
            <4> QED BY <1>0, <2>2, <3>1, <4>1, WorkerWins DEF Claim, CanClaim, TakeLease
        <3>2. CASE ~CanClaim(w) BY <1>0, <2>2, <3>2, AttemptsRest DEF Claim
        <3> QED BY <3>1, <3>2
    <2>3. CASE Adopt(w)
        <3>1. CASE CanAdopt(w)
            <4>1. owner \in Watchdogs
                BY <1>0, <3>1, PayloadElim DEF CanAdopt, FenceInv
            <4>2. attempts[fence] = "none" BY <3>1, <4>1 DEF CanAdopt, AttemptInv
            <4> QED BY <1>0, <2>3, <3>1, <4>2, WorkerWins DEF Adopt, CanAdopt, TakeLease, Resume
        <3>2. CASE ~CanAdopt(w) BY <1>0, <2>3, <3>2, AttemptsRest DEF Adopt
        <3> QED BY <3>1, <3>2
    <2>4. CASE Reclaim(w)
        <3>1. CASE CanReclaim(w)
            <4> DEFINE rows == CloseAttempt(attempts, fence)
            <4>1. rows \in [1 .. MaxFence -> AttemptStatuses] BY <1>0, AttemptHelpers
            <4>2. /\ \A f \in 1 .. MaxFence : f # fence => rows[f] = attempts[f]
                  /\ fence > 0 => rows[fence] \in {"none", "abandoned"}
                BY <1>0, <3>1 DEF CloseAttempt, CanReclaim, AttemptInv
            <4> QED BY <1>0, <2>4, <3>1, <4>1, <4>2, WorkerWins
                    DEF Reclaim, CanReclaim, TakeLease, Resume
        <3>2. CASE ~CanReclaim(w) BY <1>0, <2>4, <3>2, AttemptsRest DEF Reclaim
        <3> QED BY <3>1, <3>2
    <2> QED BY <1>2, <2>1, <2>2, <2>3, <2>4 DEF Execute
<1>3. ASSUME NEW w \in Workers, Work(w) PROVE AttemptInv'
    <2>1. CASE Heartbeat(w) \/ LoseLease(w) \/ SaveCheckpoint(w) \/ ParkOrResume(w)
               \/ ReleaseComputer(w)
        BY <1>0, <2>1, AttemptsRest DEF Heartbeat, LoseLease, SaveCheckpoint, ParkOrResume,
                                        ReleaseComputer, MoveStatus
    <2>2. CASE AbandonAttempt(w)
        <3>1. LeaseFence(w) \in 1 .. MaxFence /\ LeaseFence(w) <= fence
            BY <2>2 DEF AbandonAttempt, FenceInv, TypeOK, ProcsOK, Acquired
        <3>2. \A f \in 1 .. MaxFence :
                attempts'[f] = attempts[f] \/ ( /\ f = LeaseFence(w) /\ attempts[f] = "running"
                                                /\ attempts'[f] = "abandoned")
            BY <1>0, <2>2, <3>1 DEF AbandonAttempt, CloseAttempt
        <3>3. \A v \in Workers : (pc'[v] \in {"work", "unresumable"}) =>
                 /\ pc'[v] = pc[v] /\ job'[v] = job[v]
                 /\ LeaseFence(v) # LeaseFence(w)
            BY <1>0, <2>2 DEF AbandonAttempt, FenceInv, OneWinnerPerFence, Acquired
        <3>4. AttemptsAgree'
            BY <1>0, <2>2, <3>1, <3>2 DEF AttemptsAgree, AttemptInv, AbandonAttempt
        <3>5. fence \in 1 .. MaxFence BY <1>0, <3>1
        <3> QED BY <2>2, <3>2, <3>3, <3>4, <3>5 DEF AttemptInv, AbandonAttempt, LeaseFence
    <2>3. CASE Settle(w) BY <2>3, OwnerSettles DEF Settle, MoveStatus
    <2>4. CASE WorkFails(w) BY <2>4, OwnerSettles DEF WorkFails, MoveStatus
    <2>5. CASE BeginCall(w) \/ RunCall(w) \/ FinishCall(w)
        BY <1>0, <2>5, AttemptsRest DEF BeginCall, RunCall, FinishCall
    <2> QED BY <1>3, <2>1, <2>2, <2>3, <2>4, <2>5 DEF Work
<1>4. ASSUME NEW d \in Watchdogs, Watch(d) PROVE AttemptInv'
    <2>1. CASE Scan(d) \/ RereadLive(d) \/ RereadExpired(d) \/ Handoff(d)
        BY <1>0, <2>1, AttemptsRest DEF Scan, RereadLive, RereadExpired, Handoff
    <2>2. CASE TakeOver(d)
        <3>1. CASE CanReclaim(d)
            BY <1>0, <2>2, <3>1, WatchdogWins DEF TakeOver, CanReclaim, TakeLease
        <3>2. CASE ~CanReclaim(d) BY <1>0, <2>2, <3>2, AttemptsRest DEF TakeOver
        <3> QED BY <3>1, <3>2
    <2>3. CASE FailRun(d)
        <3>1. CASE Holds(d)
            <4>1. attempts[fence] = "none" BY <3>1 DEF Holds, AttemptInv
            <4> QED BY <2>3, <3>1, <4>1 DEF FailRun, MoveStatus, AttemptInv, AttemptsAgree
        <3>2. CASE ~Holds(d) BY <1>0, <2>3, <3>2, AttemptsRest DEF FailRun
        <3> QED BY <3>1, <3>2
    <2> QED BY <1>4, <2>1, <2>2, <2>3 DEF Watch
<1>5. ASSUME NEW p \in Procs, Crash(p) PROVE AttemptInv'
    BY <1>0, <1>5, AttemptsRest DEF Crash
<1>6. CASE UNCHANGED vars BY <1>6, AttemptsRest DEF vars
<1> QED BY <1>1, <1>2, <1>3, <1>4, <1>5, <1>6 DEF Next

LEMMA AttemptAlways == Spec => []AttemptInv
    BY AttemptInit, AttemptStep, TypeCorrect, FenceAlways, PTL DEF Spec

\* The attempt rows always tell the run's own story, whichever process closed them
\* and however late a loser's abandonAttempt arrives.
THEOREM AttemptsTellOneStory == Spec => []AttemptsAgree
<1>1. AttemptInv => AttemptsAgree BY DEF AttemptInv
<1> QED BY <1>1, AttemptAlways, PTL

-----------------------------------------------------------------------------
(* Resume from a checkpoint, or fail *)

LEMMA ResumeInit == Init => ResumeInv
    BY DEF Init, ResumeInv, HandedOffCanResume

\* A step that puts no new payload anywhere and takes no decision.
LEMMA ResumeRest ==
    ASSUME ResumeInv, checkpoint = "stored" => checkpoint' = "stored",
           \A j \in queue' \cup retry' \cup found' :
              \/ j \in queue \cup retry \cup found
              \/ \E w \in Workers : j = job[w]
              \/ j.fence = 0,
           \A w \in Workers : job'[w] = job[w] \/ job'[w] \in queue \cup retry \cup found,
           \A w \in Workers : pc'[w] = "unresumable" => pc[w] = "unresumable",
           \A d \in Watchdogs : pc'[d] = "handoff" => pc[d] = "handoff"
    PROVE ResumeInv'
    BY DEF ResumeInv, HandedOffCanResume

LEMMA ResumeStep == TypeOK /\ FenceInv /\ ResumeInv /\ [Next]_vars => ResumeInv'
<1> SUFFICES ASSUME TypeOK, FenceInv, ResumeInv, [Next]_vars PROVE ResumeInv'
    OBVIOUS
<1> USE DEF rowVars, queueVars, Goto
<1>0. pc \in [Procs -> Steps] /\ job \in [Procs -> Payloads] /\ fence \in Nat
    BY DEF TypeOK, RowOK, ProcsOK
<1>1. CASE DispatchScan
    BY <1>1, ResumeRest DEF DispatchScan, FenceInv
<1>2. CASE DispatchEnqueue \/ DispatchFails \/ Tick
    BY <1>2, ResumeRest DEF DispatchEnqueue, DispatchFails, Tick
<1>3. ASSUME NEW w \in Workers, Execute(w) PROVE ResumeInv'
    <2>1. CASE Deliver(w) BY <1>0, <2>1, ResumeRest DEF Deliver
    <2>2. CASE ReadRun(w) BY <1>0, <2>2, ResumeRest DEF ReadRun
    <2>3. CASE Claim(w) BY <1>0, <2>3, ResumeRest DEF Claim
    <2>4. CASE Adopt(w)
        <3>1. CanAdopt(w) => checkpoint = "stored" BY <1>0 DEF CanAdopt, FenceInv, ResumeInv
        <3> QED BY <1>0, <2>4, <3>1, ResumeRest DEF Adopt, Resume, DecideReclaim
    <2>5. CASE Reclaim(w)
        <3>1. CanReclaim(w) => checkpoint = "stored" BY <1>0 DEF CanReclaim, FenceInv, ResumeInv
        <3> QED BY <1>0, <2>5, <3>1, ResumeRest DEF Reclaim, Resume, DecideReclaim
    <2> QED BY <1>3, <2>1, <2>2, <2>3, <2>4, <2>5 DEF Execute
<1>4. ASSUME NEW w \in Workers, Work(w) PROVE ResumeInv'
    <2>1. CASE Heartbeat(w) \/ LoseLease(w) \/ AbandonAttempt(w) \/ SaveCheckpoint(w)
               \/ ParkOrResume(w)
        BY <1>0, <2>1, ResumeRest DEF Heartbeat, LoseLease, AbandonAttempt, SaveCheckpoint,
                                      ParkOrResume
    <2>2. CASE Settle(w) \/ WorkFails(w) \/ ReleaseComputer(w)
        BY <1>0, <2>2, ResumeRest DEF Settle, WorkFails, ReleaseComputer
    <2>3. CASE BeginCall(w) \/ RunCall(w) \/ FinishCall(w)
        BY <1>0, <2>3, ResumeRest DEF BeginCall, RunCall, FinishCall
    <2> QED BY <1>4, <2>1, <2>2, <2>3 DEF Work
<1>5. ASSUME NEW d \in Watchdogs, Watch(d) PROVE ResumeInv'
    <2>1. CASE Scan(d) \/ RereadExpired(d) \/ RereadLive(d) \/ FailRun(d)
        BY <1>0, <2>1, ResumeRest DEF Scan, RereadExpired, RereadLive, FailRun
    <2>2. CASE TakeOver(d)
        BY <1>0, <2>2 DEF TakeOver, DecideReclaim, ResumeInv, HandedOffCanResume
    <2>3. CASE Handoff(d)
        BY <1>0, <2>3 DEF Handoff, ResumeInv, HandedOffCanResume
    <2> QED BY <1>5, <2>1, <2>2, <2>3 DEF Watch
<1>6. ASSUME NEW p \in Procs, Crash(p) PROVE ResumeInv'
    BY <1>0, <1>6, ResumeRest DEF Crash
<1>7. CASE UNCHANGED vars BY <1>7, ResumeRest DEF vars
<1> QED BY <1>1, <1>2, <1>3, <1>4, <1>5, <1>6, <1>7 DEF Next

LEMMA ResumeAlways == Spec => []ResumeInv
    BY ResumeInit, ResumeStep, TypeCorrect, FenceAlways, PTL DEF Spec

\* Over every crash and takeover, an execution past the first fence has a stored
\* checkpoint to go on from: the run is never worked on from the start again.
THEOREM ResumesOrFails == Spec => []NeverRestarts
<1>1. TypeOK /\ ResumeInv => NeverRestarts
    BY PayloadElim DEF TypeOK, ProcsOK, ResumeInv, NeverRestarts, LeaseFence
<1> QED BY <1>1, TypeCorrect, ResumeAlways, PTL

\* The failure branch of resumeRun is dead: whatever payload a worker is handed, a
\* takeover it wins finds the checkpoint the watchdog saw.
THEOREM TakeoversResume == Spec => []HandedOffCanResume
<1>1. ResumeInv => HandedOffCanResume BY DEF ResumeInv
<1> QED BY <1>1, ResumeAlways, PTL

\* Recovery resumes or does nothing, for every number of workers and watchdogs.
THEOREM RecoveryProved == Spec => []RecoveryIsSound
<1>1. NeverRestarts /\ HandedOffCanResume => RecoveryIsSound BY DEF RecoveryIsSound
<1> QED BY <1>1, ResumesOrFails, TakeoversResume, PTL

-----------------------------------------------------------------------------
(* Side effects *)

LEMMA EffectInit == Init => EffectInv
    BY DEF Init, EffectInv, InFlightIsOurs, EffectAtMostOnce

\* A step that starts no handler and admits no call: it keeps or drops each
\* worker's call, keeps or settles what is in flight, and either keeps the fence
\* or leaves nothing in flight under the old one.
LEMMA CallsRest ==
    ASSUME TypeOK, EffectInv, ran' = ran,
           \/ effects' = effects
           \/ effects' = SettleInFlight(effects),
           \A v \in Workers :
              \/ /\ calling'[v] = calling[v] /\ stage'[v] = stage[v]
                 /\ pc[v] = "work" => pc'[v] = pc[v] /\ job'[v] = job[v]
              \/ calling'[v] = NoCall /\ stage'[v] = "none",
           \/ fence' = fence
           \/ \A v \in Workers : ~(stage[v] = "handling" /\ effects'[calling[v]] = "running")
    PROVE EffectInv'
<1>1. \A c \in Calls : /\ effects'[c] = "absent" <=> effects[c] = "absent"
                       /\ effects'[c] = "running" => effects[c] = "running"
    BY DEF SettleInFlight, TypeOK, RecordsOK
<1>2. \A v \in Workers : calling[v] \in Calls \cup {NoCall}
    BY DEF TypeOK, ProcsOK
<1>3. \A v \in Workers : calling'[v] # NoCall =>
        /\ calling'[v] = calling[v] /\ stage'[v] = stage[v] /\ calling[v] \in Calls
        /\ pc'[v] = pc[v] /\ job'[v] = job[v]
    BY <1>2 DEF EffectInv
<1>4. \A v \in Workers : stage'[v] = "none" <=> calling'[v] = NoCall
    BY DEF EffectInv
<1>5. InFlightIsOurs'
    BY <1>1, <1>3, <1>4 DEF InFlightIsOurs, EffectInv, LeaseFence
<1>6. EffectAtMostOnce' BY DEF EffectAtMostOnce, EffectInv
<1>7. \A v \in Workers :
        /\ calling'[v] # NoCall => pc'[v] = "work" /\ effects'[calling'[v]] # "absent"
        /\ stage'[v] = "begun" => ran'[calling'[v]] = 0
        /\ \A u \in Workers : (calling'[v] # NoCall /\ calling'[v] = calling'[u]) => v = u
    BY <1>1, <1>3, <1>4 DEF EffectInv
<1>8. \A c \in Calls : effects'[c] = "absent" => ran'[c] = 0
    BY <1>1 DEF EffectInv
<1> QED BY <1>4, <1>5, <1>6, <1>7, <1>8 DEF EffectInv

\* No handler is in flight under a fence that a watchdog owns or nobody won.
LEMMA NothingInFlight ==
    ASSUME TypeOK, FenceInv, EffectInv, status \in Leased => owner \in Watchdogs,
           status \notin Terminal
    PROVE \A v \in Workers : ~(stage[v] = "handling" /\ effects[calling[v]] = "running")
<1> SUFFICES ASSUME NEW v \in Workers, stage[v] = "handling", effects[calling[v]] = "running"
             PROVE FALSE
    OBVIOUS
<1>1. pc[v] = "work" /\ LeaseFence(v) = fence
    BY DEF EffectInv, InFlightIsOurs
<1>2. status \in Statuses BY DEF TypeOK, RowOK
<1>3. CASE status = "queued"
    BY <1>1, <1>3 DEF FenceInv, TypeOK, ProcsOK, Acquired
<1>4. CASE status \in Leased
    BY <1>1, <1>4 DEF FenceInv, Acquired
<1> QED BY <1>2, <1>3, <1>4

LEMMA EffectStep == TypeOK /\ FenceInv /\ EffectInv /\ [Next]_vars => EffectInv'
<1> SUFFICES ASSUME TypeOK, FenceInv, EffectInv, [Next]_vars PROVE EffectInv'
    OBVIOUS
<1> USE DEF rowVars, recordVars, callVars, Goto
<1>0. /\ pc \in [Procs -> Steps] /\ job \in [Procs -> Payloads]
      /\ calling \in [Workers -> Calls \cup {NoCall}]
      /\ stage \in [Workers -> {"none", "begun", "handling"}]
      /\ effects \in [Calls -> EffectStatuses] /\ ran \in [Calls -> Nat]
    BY DEF TypeOK, RecordsOK, ProcsOK
<1>a. ASSUME effects' = SettleInFlight(effects)
      PROVE \A v \in Workers : ~(stage[v] = "handling" /\ effects'[calling[v]] = "running")
    BY <1>0, <1>a DEF SettleInFlight, EffectInv
<1>1. CASE DispatchScan \/ DispatchEnqueue \/ DispatchFails \/ Tick
    BY <1>1, CallsRest DEF DispatchScan, DispatchEnqueue, DispatchFails, Tick
<1>2. ASSUME NEW w \in Workers, Execute(w) PROVE EffectInv'
    <2>1. CASE Deliver(w) \/ ReadRun(w)
        BY <1>0, <2>1, CallsRest DEF Deliver, ReadRun
    <2>2. CASE Claim(w)
        <3>1. CanClaim(w) =>
                \A v \in Workers : ~(stage[v] = "handling" /\ effects[calling[v]] = "running")
            BY NothingInFlight DEF CanClaim
        <3> QED BY <1>0, <2>2, <3>1, CallsRest DEF Claim
    <2>3. CASE Adopt(w)
        <3>1. CanAdopt(w) => owner \in Watchdogs
            BY <1>0, PayloadElim DEF CanAdopt, FenceInv
        <3>2. CanAdopt(w) =>
                \A v \in Workers : ~(stage[v] = "handling" /\ effects[calling[v]] = "running")
            BY <3>1, NothingInFlight DEF CanAdopt
        <3> QED BY <1>0, <2>3, <3>2, CallsRest DEF Adopt, Resume
    <2>4. CASE Reclaim(w)
        BY <1>0, <1>a, <2>4, CallsRest DEF Reclaim, Resume
    <2> QED BY <1>2, <2>1, <2>2, <2>3, <2>4 DEF Execute
<1>3. ASSUME NEW w \in Workers, Work(w) PROVE EffectInv'
    <2>1. CASE Heartbeat(w) \/ SaveCheckpoint(w) \/ ParkOrResume(w)
        BY <1>0, <2>1, CallsRest DEF Heartbeat, SaveCheckpoint, ParkOrResume
    <2>2. CASE AbandonAttempt(w) \/ ReleaseComputer(w)
        BY <1>0, <2>2, CallsRest DEF AbandonAttempt, ReleaseComputer
    <2>3. CASE LoseLease(w) \/ WorkFails(w)
        BY <1>0, <2>3, CallsRest DEF LoseLease, WorkFails, DropCall
    <2>4. CASE Settle(w) BY <1>0, <2>4, CallsRest DEF Settle, DropCall
    <2>5. CASE BeginCall(w)
        <3>1. PICK c \in Calls : /\ effects[c] = "absent"
                                 /\ effects' = [effects EXCEPT ![c] = "running"]
                                 /\ calling' = [calling EXCEPT ![w] = c]
            BY <2>5 DEF BeginCall
        <3>2. \A v \in Workers : calling[v] # c BY <3>1 DEF EffectInv
        <3>3. /\ pc[w] = "work" /\ UNCHANGED <<fence, job, pc, ran>> /\ ran[c] = 0
              /\ stage' = [stage EXCEPT ![w] = "begun"]
            BY <2>5, <3>1 DEF BeginCall, EffectInv
        <3>4. InFlightIsOurs'
            BY <1>0, <3>1, <3>2, <3>3 DEF InFlightIsOurs, EffectInv, LeaseFence
        <3>5. EffectAtMostOnce' BY <3>3 DEF EffectAtMostOnce, EffectInv
        <3>6. \A v \in Workers :
                /\ stage'[v] = "none" <=> calling'[v] = NoCall
                /\ calling'[v] # NoCall => pc'[v] = "work" /\ effects'[calling'[v]] # "absent"
                /\ stage'[v] = "begun" => ran'[calling'[v]] = 0
            BY <1>0, <3>1, <3>2, <3>3 DEF EffectInv
        <3>7. \A v, u \in Workers : (calling'[v] # NoCall /\ calling'[v] = calling'[u]) => v = u
            BY <1>0, <3>1, <3>2 DEF EffectInv
        <3>8. \A e \in Calls : effects'[e] = "absent" => ran'[e] = 0
            BY <1>0, <3>1, <3>3 DEF EffectInv
        <3> QED BY <3>4, <3>5, <3>6, <3>7, <3>8 DEF EffectInv
    <2>6. CASE RunCall(w)
        <3>1. /\ calling[w] \in Calls /\ ran[calling[w]] = 0 /\ LeaseFence(w) = fence
              /\ effects[calling[w]] # "absent"
            BY <1>0, <2>6 DEF RunCall, EffectInv, Holds
        <3>2. /\ UNCHANGED <<fence, job, pc, effects, calling>> /\ stage[w] = "begun"
              /\ stage' = [stage EXCEPT ![w] = "handling"]
              /\ ran' = [ran EXCEPT ![calling[w]] = @ + 1]
            BY <2>6 DEF RunCall
        <3>3. InFlightIsOurs'
            BY <1>0, <3>1, <3>2 DEF InFlightIsOurs, EffectInv, LeaseFence
        <3>4. EffectAtMostOnce'
            BY <1>0, <3>1, <3>2 DEF EffectAtMostOnce, EffectInv
        <3>5. \A v \in Workers : stage'[v] = "begun" => ran'[calling'[v]] = 0
            BY <1>0, <3>1, <3>2 DEF EffectInv
        <3>6. \A v \in Workers :
                /\ stage'[v] = "none" <=> calling'[v] = NoCall
                /\ calling'[v] # NoCall => pc'[v] = "work" /\ effects'[calling'[v]] # "absent"
                /\ \A u \in Workers : (calling'[v] # NoCall /\ calling'[v] = calling'[u]) => v = u
            BY <1>0, <3>1, <3>2 DEF EffectInv
        <3>7. \A e \in Calls : effects'[e] = "absent" => ran'[e] = 0
            BY <1>0, <3>1, <3>2 DEF EffectInv
        <3> QED BY <3>3, <3>4, <3>5, <3>6, <3>7 DEF EffectInv
    <2>7. CASE FinishCall(w)
        <3>1. calling[w] \in Calls BY <1>0, <2>7 DEF FinishCall, EffectInv
        <3>2. PICK to \in {"completed", "failed"} :
                effects' = IF effects[calling[w]] = "running"
                           THEN [effects EXCEPT ![calling[w]] = to] ELSE effects
            BY <2>7 DEF FinishCall
        <3>3. /\ UNCHANGED <<fence, job, pc, ran>>
              /\ calling' = [calling EXCEPT ![w] = NoCall]
              /\ stage' = [stage EXCEPT ![w] = "none"]
            BY <2>7 DEF FinishCall, DropCall
        <3>4. \A c \in Calls : /\ effects'[c] = "absent" <=> effects[c] = "absent"
                               /\ effects'[c] = "running" => effects[c] = "running"
            BY <1>0, <3>1, <3>2
        <3>5. \A v \in Workers : calling'[v] # NoCall =>
                /\ v # w /\ calling'[v] = calling[v] /\ stage'[v] = stage[v]
                /\ calling[v] \in Calls
            BY <1>0, <3>3
        <3>6. \A v \in Workers : stage'[v] = "none" <=> calling'[v] = NoCall
            BY <1>0, <3>3 DEF EffectInv
        <3>7. InFlightIsOurs'
            BY <3>3, <3>4, <3>5, <3>6 DEF InFlightIsOurs, EffectInv, LeaseFence
        <3>8. EffectAtMostOnce' BY <3>3 DEF EffectAtMostOnce, EffectInv
        <3>9. \A v \in Workers :
                /\ calling'[v] # NoCall => pc'[v] = "work" /\ effects'[calling'[v]] # "absent"
                /\ stage'[v] = "begun" => ran'[calling'[v]] = 0
                /\ \A u \in Workers : (calling'[v] # NoCall /\ calling'[v] = calling'[u]) => v = u
            BY <3>3, <3>4, <3>5, <3>6 DEF EffectInv
        <3>10. \A c \in Calls : effects'[c] = "absent" => ran'[c] = 0
            BY <3>3, <3>4 DEF EffectInv
        <3> QED BY <3>6, <3>7, <3>8, <3>9, <3>10 DEF EffectInv
    <2> QED BY <1>3, <2>1, <2>2, <2>3, <2>4, <2>5, <2>6, <2>7 DEF Work
<1>4. ASSUME NEW d \in Watchdogs, Watch(d) PROVE EffectInv'
    <2>1. CASE Scan(d) \/ RereadLive(d) \/ RereadExpired(d) \/ Handoff(d) \/ FailRun(d)
        BY <1>0, <2>1, CallsRest DEF Scan, RereadLive, RereadExpired, Handoff, FailRun
    <2>2. CASE TakeOver(d) BY <1>0, <1>a, <2>2, CallsRest DEF TakeOver
    <2> QED BY <1>4, <2>1, <2>2 DEF Watch
<1>5. ASSUME NEW p \in Procs, Crash(p) PROVE EffectInv'
    BY <1>0, <1>5, CallsRest DEF Crash, DropCall
<1>6. CASE UNCHANGED vars BY <1>6, CallsRest DEF vars
<1> QED BY <1>1, <1>2, <1>3, <1>4, <1>5, <1>6 DEF Next

LEMMA EffectAlways == Spec => []EffectInv
    BY EffectInit, EffectStep, TypeCorrect, FenceAlways, PTL DEF Spec

\* The handler of a call id starts at most once over the whole life of the run.
THEOREM EffectsAtMostOnce == Spec => []EffectAtMostOnce
<1>1. EffectInv => EffectAtMostOnce BY DEF EffectInv
<1> QED BY <1>1, EffectAlways, PTL

\* Only the current fence has a call in flight: a superseded worker's handler has
\* already been recorded as failed, whenever it returns.
THEOREM InFlightBelongsToTheFence == Spec => []InFlightIsOurs
<1>1. EffectInv => InFlightIsOurs BY DEF EffectInv
<1> QED BY <1>1, EffectAlways, PTL

\* Tool effects survive every change of owner.
THEOREM ToolEffectsProved == Spec => []ToolEffectsAreSound
<1>1. EffectAtMostOnce /\ InFlightIsOurs => ToolEffectsAreSound BY DEF ToolEffectsAreSound
<1> QED BY <1>1, EffectsAtMostOnce, InFlightBelongsToTheFence, PTL

\* No step rewrites a recorded outcome: completions, failures and the reclaim's
\* blanket settlement all leave a settled call alone.
THEOREM OutcomesAreFinal == Spec => OutcomeIsFinal
<1> DEFINE Kept == \A c \in Calls :
                      effects[c] \in {"completed", "failed"} => effects'[c] = effects[c]
<1>1. TypeOK /\ EffectInv /\ [Next]_vars => Kept
    <2> SUFFICES ASSUME TypeOK, EffectInv, [Next]_vars PROVE Kept
        OBVIOUS
    <2> USE DEF recordVars, SettleInFlight
    <2>0. effects \in [Calls -> EffectStatuses] /\ calling \in [Workers -> Calls \cup {NoCall}]
        BY DEF TypeOK, RecordsOK, ProcsOK
    <2>1. CASE DispatchScan \/ DispatchEnqueue \/ DispatchFails \/ Tick
        BY <2>1 DEF DispatchScan, DispatchEnqueue, DispatchFails, Tick
    <2>2. ASSUME NEW w \in Workers, Execute(w) PROVE Kept
        BY <2>0, <2>2 DEF Execute, Deliver, ReadRun, Claim, Adopt, Reclaim
    <2>3. ASSUME NEW w \in Workers, Work(w) PROVE Kept
        <3>1. CASE BeginCall(w) BY <2>0, <3>1 DEF BeginCall
        <3>2. CASE FinishCall(w) BY <2>0, <3>2 DEF FinishCall, EffectInv
        <3>3. CASE Settle(w) BY <2>0, <3>3 DEF Settle
        <3> QED BY <2>3, <3>1, <3>2, <3>3
                DEF Work, Heartbeat, LoseLease, AbandonAttempt, SaveCheckpoint, ParkOrResume,
                    WorkFails, ReleaseComputer, RunCall
    <2>4. ASSUME NEW d \in Watchdogs, Watch(d) PROVE Kept
        BY <2>0, <2>4 DEF Watch, Scan, RereadExpired, RereadLive, TakeOver, FailRun, Handoff
    <2>5. ASSUME NEW p \in Procs, Crash(p) PROVE Kept
        BY <2>5 DEF Crash
    <2>6. CASE UNCHANGED vars BY <2>6 DEF vars
    <2> QED BY <2>1, <2>2, <2>3, <2>4, <2>5, <2>6 DEF Next
<1> QED BY <1>1, TypeCorrect, EffectAlways, PTL DEF Spec, OutcomeIsFinal

-----------------------------------------------------------------------------
(* The lifecycle of run-state.ts *)

LEMMA TableFacts ==
    /\ Lifecycle!canTransition("queued", "running")
    /\ Lifecycle!canTransition("waiting_approval", "running")
    /\ \A to \in {"waiting_approval", "completed"} : Lifecycle!canTransition("running", to)
    /\ \A from \in Leased : \A to \in {"failed", "cancelled"} : Lifecycle!canTransition(from, to)
    /\ \A from \in Leased : ~Lifecycle!isTerminalStatus(from)
    /\ DOMAIN Lifecycle!RUN_TRANSITIONS = Statuses
    BY DEF Lifecycle!canTransition, Lifecycle!isTerminalStatus, Lifecycle!RUN_TRANSITIONS

LEMMA MovesAlongTheTable ==
    ASSUME NEW to \in Statuses, MoveStatus(to), UNCHANGED fence
    PROVE Lifecycle!Next
    BY TableFacts DEF MoveStatus, Lifecycle!Next, Lifecycle!Move

\* The SQL guards implement the transition table: every statement of every process
\* is a step of RunLifecycle or leaves status and fence alone.
THEOREM LifecycleIsImplemented == Spec => ImplementsLifecycle
<1>1. Init => Lifecycle!Init BY DEF Init, Lifecycle!Init, Lifecycle!INITIAL_RUN_STATUS
<1>2. TypeOK /\ [Next]_vars => [Lifecycle!Next]_<<status, fence>>
    <2> SUFFICES ASSUME TypeOK, [Next]_vars
                 PROVE Lifecycle!Next \/ UNCHANGED <<status, fence>>
        OBVIOUS
    <2> USE DEF rowVars
    <2>1. CASE DispatchScan \/ DispatchEnqueue \/ DispatchFails \/ Tick
        BY <2>1 DEF DispatchScan, DispatchEnqueue, DispatchFails, Tick
    <2>2. ASSUME NEW w \in Workers, Execute(w)
          PROVE Lifecycle!Next \/ UNCHANGED <<status, fence>>
        <3>1. CASE Claim(w)
            BY <3>1, TableFacts DEF Claim, CanClaim, TakeLease, Lifecycle!Next, Lifecycle!Start
        <3>2. CASE Adopt(w)
            BY <3>2, TableFacts DEF Adopt, CanAdopt, TakeLease, Lifecycle!Next, Lifecycle!Succeed
        <3>3. CASE Reclaim(w)
            BY <3>3, TableFacts
               DEF Reclaim, CanReclaim, TakeLease, Lifecycle!Next, Lifecycle!Succeed
            <3> QED BY <2>2, <3>1, <3>2, <3>3 DEF Execute, Deliver, ReadRun
    <2>3. ASSUME NEW w \in Workers, Work(w)
          PROVE Lifecycle!Next \/ UNCHANGED <<status, fence>>
        <3>1. CASE ParkOrResume(w) BY <3>1, MovesAlongTheTable DEF ParkOrResume
        <3>2. CASE Settle(w) BY <3>2, MovesAlongTheTable DEF Settle
        <3>3. CASE WorkFails(w) BY <3>3, MovesAlongTheTable DEF WorkFails
        <3> QED BY <2>3, <3>1, <3>2, <3>3
                DEF Work, Heartbeat, LoseLease, AbandonAttempt, SaveCheckpoint, ReleaseComputer,
                    BeginCall, RunCall, FinishCall
    <2>4. ASSUME NEW d \in Watchdogs, Watch(d)
          PROVE Lifecycle!Next \/ UNCHANGED <<status, fence>>
        <3>1. CASE TakeOver(d)
            BY <3>1, TableFacts
               DEF TakeOver, CanReclaim, TakeLease, Lifecycle!Next, Lifecycle!Succeed
        <3>2. CASE FailRun(d) BY <3>2, MovesAlongTheTable DEF FailRun
        <3> QED BY <2>4, <3>1, <3>2 DEF Watch, Scan, RereadExpired, RereadLive, Handoff
    <2>5. ASSUME NEW p \in Procs, Crash(p)
          PROVE UNCHANGED <<status, fence>>
        BY <2>5 DEF Crash
    <2>6. CASE UNCHANGED vars BY <2>6 DEF vars
    <2> QED BY <2>1, <2>2, <2>3, <2>4, <2>5, <2>6 DEF Next
<1> QED BY <1>1, <1>2, TypeCorrect, PTL DEF Spec, ImplementsLifecycle, Lifecycle!Spec
=============================================================================
