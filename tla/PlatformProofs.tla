--------------------------- MODULE PlatformProofs ---------------------------
(***************************************************************************)
(* A routine's ledger, a computer's snapshots and its machine, for any      *)
(* number of passes, edits, captures, restores and requests and every       *)
(* bound.                                                                   *)
(*                                                                          *)
(* RoutineInv: a slot and its run are made together and only on a live row. *)
(* SnapshotsInv: a restore unpacks what its row captured.  MachineInv: what *)
(* a request has left to do is in order, a start that was not overtaken has *)
(* not passed a sidecar with a parked grant, and a boot or reset that is    *)
(* alone finds at each call what it left there.                             *)
(***************************************************************************)
EXTENDS ComputerMachine, ComputerSnapshots, Routines, FiniteSetTheorems, SequenceTheorems,
        WellFoundedInduction, TLAPS

-----------------------------------------------------------------------------
(* Schedules *)

\* The least of a set of naturals that is not empty is one of it.
LEMMA MinIsIn ==
    ASSUME NEW S \in SUBSET Nat, S # {}
    PROVE  Min(S) \in S
<1>1. PICK n \in S : \A m \in S : ~(<<m, n>> \in OpToRel(<, Nat))
  BY NatLessThanWellFounded, WFMin
<1>2. \A m \in S : ~(m < n)
  BY <1>1 DEF OpToRel
<1>3. \A m \in S : n <= m
  BY <1>2
<1> QED
  BY <1>3 DEF Min

\* The next fire is a slot or never.
LEMMA NextFire ==
    ASSUME NEW c \in Crons, NEW t \in Int
    PROVE  nextRoutineFire(c, t) \in 1 .. Never
<1> DEFINE S == {f \in Fires[c] : f > t} \cup {Never}
<1>1. MaxTime \in Nat /\ Fires[c] \in SUBSET (1 .. MaxTime)
  BY RoutinesAssumption
<1>2. S \in SUBSET (1 .. Never) /\ S \in SUBSET Nat /\ S # {}
  BY <1>1 DEF Never
<1> HIDE DEF S
<1>3. Min(S) \in S
  BY <1>2, MinIsIn
<1>4. nextRoutineFire(c, t) = Min(S)
  BY DEF nextRoutineFire, S
<1> QED
  BY <1>2, <1>3, <1>4

-----------------------------------------------------------------------------
(* Passes and edits *)

\* A pass stays about its slot as time goes on and runs are added.
LEMMA PassStays ==
    ASSUME NEW pass \in Passes, NEW time \in Int, NEW later \in Int, time <= later,
           NEW count \in Nat, NEW more \in Nat, count <= more, OfSlot(pass, time, count)
    PROVE  OfSlot(pass, later, more)
  BY RoutinesAssumption DEF OfSlot, Passes, Slots

\* What the steps start from.
LEMMA RoutineFacts ==
    ASSUME RoutineInv
    PROVE  /\ MaxTime \in Nat /\ MaxPassFaults \in Nat /\ now \in Nat /\ now <= MaxTime /\ now \in Int
           /\ runs \in Seq(RoutineRuns) /\ Len(runs) \in Nat /\ tick \in [Ticks -> Passes]
           /\ edit \in [Editors -> Edits]
           /\ row \in [cron : Crons, enabled : BOOLEAN, deleted : BOOLEAN, next : 1 .. Never]
           /\ ledger \in [Slots -> {"none", "missed", "run"}]
           /\ \A k \in Ticks : tick[k] \in Passes /\ OfSlot(tick[k], now, Len(runs))
  BY RoutinesAssumption, LenProperties DEF RoutineInv, RoutineShapes, PassesAreOfSlots

\* The columns, the passes and the edits of a step that fires nothing.
LEMMA QuietKeeps ==
    ASSUME RoutineInv, UNCHANGED <<now, ledger, runs, tasks>>,
           row' \in [cron : Crons, enabled : BOOLEAN, deleted : BOOLEAN, next : 1 .. Never],
           since' \in 0 .. MaxTime, faults' \in 0 .. MaxPassFaults, jobs' \in SUBSET (1 .. Len(runs)),
           tick' \in [Ticks -> Passes], \A k \in Ticks : OfSlot(tick'[k], now, Len(runs)),
           edit' \in [Editors -> Edits],
           \A e \in Editors : edit'[e].pc \in {"read", "clock"} => edit'[e].cron \in Crons
    PROVE  RoutineInv'
<1>1. RoutineShapes'
  BY DEF RoutineInv, RoutineShapes
<1>2. PassesAreOfSlots' /\ EditsAreOfRows'
  BY DEF PassesAreOfSlots, EditsAreOfRows
<1>3. SlotsHaveRuns'
  BY DEF RoutineInv, SlotsHaveRuns
<1> QED
  BY <1>1, <1>2, <1>3 DEF RoutineInv

\* A step of one pass that fires nothing.
LEMMA PassKeeps ==
    ASSUME RoutineInv, NEW k \in Ticks, NEW pass \in Passes, OfSlot(pass, now, Len(runs)),
           tick' = [tick EXCEPT ![k] = pass], UNCHANGED <<now, row, ledger, runs, tasks, edit, since>>,
           faults' \in 0 .. MaxPassFaults, jobs' \in SUBSET (1 .. Len(runs))
    PROVE  RoutineInv'
<1>1. /\ tick \in [Ticks -> Passes] /\ \A o \in Ticks : OfSlot(tick[o], now, Len(runs))
      /\ row \in [cron : Crons, enabled : BOOLEAN, deleted : BOOLEAN, next : 1 .. Never]
      /\ since \in 0 .. MaxTime /\ edit \in [Editors -> Edits]
      /\ \A e \in Editors : edit[e].pc \in {"read", "clock"} => edit[e].cron \in Crons
  BY DEF RoutineInv, RoutineShapes, PassesAreOfSlots, EditsAreOfRows
<1>2. tick' \in [Ticks -> Passes] /\ \A o \in Ticks : tick'[o] = IF o = k THEN pass ELSE tick[o]
  BY <1>1
<1>3. \A o \in Ticks : OfSlot(tick'[o], now, Len(runs))
  BY <1>1, <1>2
<1> QED
  BY <1>1, <1>2, <1>3, QuietKeeps

\* A step of one edit, and what it makes of the row.
LEMMA EditKeeps ==
    ASSUME RoutineInv, NEW e \in Editors, NEW d \in Edits, d.pc \in {"read", "clock"} => d.cron \in Crons,
           edit' = [edit EXCEPT ![e] = d], UNCHANGED <<now, ledger, runs, tasks, tick, jobs, faults>>,
           row' \in [cron : Crons, enabled : BOOLEAN, deleted : BOOLEAN, next : 1 .. Never],
           since' \in 0 .. MaxTime
    PROVE  RoutineInv'
<1>1. /\ tick \in [Ticks -> Passes] /\ \A o \in Ticks : OfSlot(tick[o], now, Len(runs))
      /\ edit \in [Editors -> Edits] /\ faults \in 0 .. MaxPassFaults /\ jobs \in SUBSET (1 .. Len(runs))
      /\ \A o \in Editors : edit[o].pc \in {"read", "clock"} => edit[o].cron \in Crons
  BY DEF RoutineInv, RoutineShapes, PassesAreOfSlots, EditsAreOfRows
<1>2. edit' \in [Editors -> Edits] /\ \A o \in Editors : edit'[o] = IF o = e THEN d ELSE edit[o]
  BY <1>1
<1>3. \A o \in Editors : edit'[o].pc \in {"read", "clock"} => edit'[o].cron \in Crons
  BY <1>1, <1>2
<1>4. tick' = tick /\ faults' = faults /\ jobs' = jobs
  OBVIOUS
<1> QED
  BY <1>1, <1>2, <1>3, <1>4, QuietKeeps

-----------------------------------------------------------------------------
(* The operator *)

\* The three statements of an edit (routines.ts: updateRoutine), and a removal.
LEMMA OperatorKeeps ==
    ASSUME RoutineInv,
           (\E e \in Editors : EditRead(e) \/ EditClock(e) \/ EditWrite(e)) \/ removeRoutine
    PROVE  RoutineInv'
<1>1. /\ MaxTime \in Nat /\ now \in 0 .. MaxTime /\ since \in 0 .. MaxTime /\ edit \in [Editors -> Edits]
      /\ row \in [cron : Crons, enabled : BOOLEAN, deleted : BOOLEAN, next : 1 .. Never]
  BY RoutinesAssumption DEF RoutineInv, RoutineShapes
<1>2. ASSUME NEW e \in Editors, EditRead(e)
      PROVE  RoutineInv'
  <2>1. PICK p \in Patches : edit' = [edit EXCEPT ![e] = [pc |-> "read", patch |-> p, cron |-> row.cron,
                                                         enabled |-> row.enabled, clock |-> 0]]
    BY <1>2 DEF EditRead
  <2> DEFINE d == [pc |-> "read", patch |-> p, cron |-> row.cron, enabled |-> row.enabled, clock |-> 0]
  <2>2. d \in Edits /\ d.cron \in Crons
    BY <1>1, RoutinesAssumption DEF Edits
  <2>3. UNCHANGED <<now, row, ledger, runs, tasks, tick, jobs, faults, since>>
    BY <1>2 DEF EditRead
  <2>4. edit' = [edit EXCEPT ![e] = d]
    BY <2>1
  <2> HIDE DEF d
  <2> QED
    BY <1>1, <2>2, <2>3, <2>4, EditKeeps
<1>3. ASSUME NEW e \in Editors, EditClock(e)
      PROVE  RoutineInv'
  <2> DEFINE d == [edit[e] EXCEPT !.pc = "clock", !.clock = now]
  <2>1. /\ edit[e].pc = "read" /\ edit' = [edit EXCEPT ![e].pc = "clock", ![e].clock = now]
        /\ UNCHANGED <<now, row, ledger, runs, tasks, tick, jobs, faults, since>>
    BY <1>3 DEF EditClock
  <2>2. edit[e] \in Edits /\ edit[e].cron \in Crons
    BY <1>1, <2>1 DEF RoutineInv, EditsAreOfRows
  <2>3. d \in Edits /\ d.cron \in Crons
    BY <1>1, <2>2 DEF Edits
  <2>4. edit' = [edit EXCEPT ![e] = d]
    BY <1>1, <2>1, <2>2 DEF Edits
  <2> HIDE DEF d
  <2> QED
    BY <1>1, <2>1, <2>3, <2>4, EditKeeps
<1>4. ASSUME NEW e \in Editors, EditWrite(e)
      PROVE  RoutineInv'
  <2> DEFINE d == edit[e]
             cron == IF d.patch.cron = Untouched THEN d.cron ELSE d.patch.cron
             cursor == IF Reschedules(d) THEN nextRoutineFire(cron, d.clock) ELSE row.next
             done == [NoEdit EXCEPT !.pc = "done"]
  <2>1. /\ d.pc \in {"read", "clock"} /\ edit' = [edit EXCEPT ![e] = done]
        /\ UNCHANGED <<now, ledger, runs, tasks, tick, jobs, faults>>
        /\ \/ UNCHANGED <<row, since>>
           \/ /\ row' = Patched(d, cursor)
              /\ since' = IF Reschedules(d) THEN d.clock ELSE since
    BY <1>4 DEF EditWrite
  <2>2. /\ d \in Edits /\ d.cron \in Crons /\ d.clock \in 0 .. MaxTime
        /\ d.patch \in [cron : Crons \cup {Untouched}, enabled : {"yes", "no", "same"}]
    BY <1>1, <2>1 DEF RoutineInv, EditsAreOfRows, Edits
  <2>3. cron \in Crons
    BY <2>2
  <2>4. nextRoutineFire(cron, d.clock) \in 1 .. Never
    <3> HIDE DEF cron, d
    <3> QED
      BY <2>2, <2>3, NextFire
  <2>5. cursor \in 1 .. Never /\ done \in Edits /\ done.pc = "done"
    <3>1. row.next \in 1 .. Never
      BY <1>1
    <3>2. cursor \in 1 .. Never
      BY <2>4, <3>1
    <3>3. NoEdit \in Edits
      BY <1>1 DEF NoEdit, Edits
    <3>4. done \in Edits /\ done.pc = "done"
      BY ONLY <3>3 DEF Edits, done
    <3> QED
      BY <3>2, <3>4
  <2> HIDE DEF cursor, done
  <2>6. Patched(d, cursor) \in [cron : Crons, enabled : BOOLEAN, deleted : BOOLEAN, next : 1 .. Never]
    BY <1>1, <2>2, <2>5 DEF Patched
  <2>7. /\ row' \in [cron : Crons, enabled : BOOLEAN, deleted : BOOLEAN, next : 1 .. Never]
        /\ since' \in 0 .. MaxTime
    BY <1>1, <2>1, <2>2, <2>6
  <2> HIDE DEF d
  <2> QED
    BY <2>1, <2>5, <2>7, EditKeeps
<1>5. CASE removeRoutine
  <2>1. /\ row' = [row EXCEPT !.enabled = FALSE, !.deleted = TRUE]
        /\ UNCHANGED <<now, ledger, runs, tasks, tick, edit, jobs, faults, since>>
    BY <1>5 DEF removeRoutine
  <2>2. row' \in [cron : Crons, enabled : BOOLEAN, deleted : BOOLEAN, next : 1 .. Never]
    BY <1>1, <2>1
  <2>3. /\ tick \in [Ticks -> Passes] /\ \A o \in Ticks : OfSlot(tick[o], now, Len(runs))
        /\ edit \in [Editors -> Edits] /\ faults \in 0 .. MaxPassFaults /\ jobs \in SUBSET (1 .. Len(runs))
        /\ \A o \in Editors : edit[o].pc \in {"read", "clock"} => edit[o].cron \in Crons
    BY DEF RoutineInv, RoutineShapes, PassesAreOfSlots, EditsAreOfRows
  <2> QED
    BY <1>1, <2>1, <2>2, <2>3, QuietKeeps
<1> QED
  BY <1>2, <1>3, <1>4, <1>5

-----------------------------------------------------------------------------
(* The scheduler *)

\* A pass that scans, is superseded, hands on or dies (routine-schedule.ts).
LEMMA SchedulerKeeps ==
    ASSUME RoutineInv, NEW k \in Ticks,
           Scan(k) \/ SettleSuperseded(k) \/ Enqueue(k) \/ dispatchQueuedRuns(k) \/ SettleFails(k) \/ TickDies(k)
    PROVE  RoutineInv'
<1>1. /\ MaxTime \in Nat /\ MaxPassFaults \in Nat /\ now \in 0 .. MaxTime /\ now \in Int
      /\ Len(runs) \in Nat /\ tick[k] \in Passes /\ OfSlot(tick[k], now, Len(runs))
      /\ row \in [cron : Crons, enabled : BOOLEAN, deleted : BOOLEAN, next : 1 .. Never]
      /\ faults \in 0 .. MaxPassFaults /\ jobs \in SUBSET (1 .. Len(runs))
  BY RoutineFacts DEF RoutineInv, RoutineShapes
<1> DEFINE handed == [NoPass EXCEPT !.pc = "dispatch"]
<1>2. /\ handed \in Passes /\ OfSlot(handed, now, Len(runs))
      /\ NoPass \in Passes /\ OfSlot(NoPass, now, Len(runs))
  BY <1>1 DEF NoPass, Passes, OfSlot
<1> HIDE DEF handed
<1>3. Stranded \in SUBSET (1 .. Len(runs))
  BY DEF Stranded
<1>4. CASE Scan(k)
  <2> DEFINE due == [pc |-> "settle", slot |-> row.next, cron |-> row.cron, at |-> now, run |-> 0]
  <2>1. /\ tick' = [tick EXCEPT ![k] = IF Due THEN due ELSE handed]
        /\ UNCHANGED <<now, row, ledger, runs, tasks, edit, jobs, faults, since>>
    BY <1>4 DEF Scan, handed
  <2>2. Due => due \in Passes /\ OfSlot(due, now, Len(runs))
    BY <1>1 DEF Due, Passes, OfSlot, Slots, Never
  <2> HIDE DEF due
  <2> DEFINE pass == IF Due THEN due ELSE handed
  <2>3. pass \in Passes /\ OfSlot(pass, now, Len(runs))
    BY <1>2, <2>2
  <2>4. tick' = [tick EXCEPT ![k] = pass]
    BY <2>1
  <2> HIDE DEF pass
  <2> QED
    BY <1>1, <2>1, <2>3, <2>4, PassKeeps
<1>5. CASE SettleSuperseded(k) \/ Enqueue(k) \/ SettleFails(k)
  <2>1. /\ tick' = [tick EXCEPT ![k] = handed]
        /\ UNCHANGED <<now, row, ledger, runs, tasks, edit, since>>
    BY <1>5 DEF SettleSuperseded, Enqueue, SettleFails, Skip, handed
  <2>2. faults' \in 0 .. MaxPassFaults
    BY <1>1, <1>5 DEF SettleSuperseded, Enqueue, SettleFails
  <2>3. jobs' \in SUBSET (1 .. Len(runs))
    BY <1>1, <1>5 DEF SettleSuperseded, Enqueue, SettleFails, OfSlot
  <2> QED
    BY <1>2, <2>1, <2>2, <2>3, PassKeeps
<1>6. CASE dispatchQueuedRuns(k) \/ TickDies(k)
  <2>1. /\ tick' = [tick EXCEPT ![k] = NoPass]
        /\ UNCHANGED <<now, row, ledger, runs, tasks, edit, since>>
    BY <1>6 DEF dispatchQueuedRuns, TickDies
  <2>2. faults' \in 0 .. MaxPassFaults
    BY <1>1, <1>6 DEF dispatchQueuedRuns, TickDies
  <2>3. jobs' \in SUBSET (1 .. Len(runs))
    BY <1>1, <1>3, <1>6 DEF dispatchQueuedRuns, TickDies
  <2> QED
    BY <1>2, <2>1, <2>2, <2>3, PassKeeps
<1> QED
  BY <1>4, <1>5, <1>6

\* A miss is a ledger entry without a run (run-creation.ts: recordMissedOccurrence).
LEMMA MissKeeps ==
    ASSUME RoutineInv, NEW k \in Ticks, recordMissedOccurrence(k)
    PROVE  RoutineInv'
<1> DEFINE slot == tick[k].slot
           handed == [NoPass EXCEPT !.pc = "dispatch"]
<1>1. /\ MaxTime \in Nat /\ now \in 0 .. MaxTime /\ Len(runs) \in Nat
      /\ tick \in [Ticks -> Passes] /\ tick[k] \in Passes
      /\ \A o \in Ticks : OfSlot(tick[o], now, Len(runs))
      /\ row \in [cron : Crons, enabled : BOOLEAN, deleted : BOOLEAN, next : 1 .. Never]
      /\ ledger \in [Slots -> {"none", "missed", "run"}]
  BY RoutineFacts DEF RoutineInv, RoutineShapes
<1>2. /\ tick[k].pc = "settle" /\ ledger[slot] = "none" /\ ledger' = [ledger EXCEPT ![slot] = "missed"]
      /\ row' = [row EXCEPT !.next = nextRoutineFire(tick[k].cron, tick[k].at)]
      /\ tick' = [tick EXCEPT ![k] = handed]
      /\ UNCHANGED <<now, runs, tasks, edit, jobs, faults, since>>
  BY DEF recordMissedOccurrence, Skip
<1>3. slot \in Slots /\ tick[k].cron \in Crons /\ tick[k].at \in Int
  <2>1. OfSlot(tick[k], now, Len(runs))
    BY <1>1
  <2>2. tick[k].at \in Int
    BY <1>1 DEF Passes
  <2> QED
    BY <1>2, <2>1, <2>2 DEF OfSlot
<1>4. nextRoutineFire(tick[k].cron, tick[k].at) \in 1 .. Never
  BY <1>3, NextFire
<1>5. row' \in [cron : Crons, enabled : BOOLEAN, deleted : BOOLEAN, next : 1 .. Never]
  BY <1>1, <1>2, <1>4
<1>6. handed \in Passes /\ OfSlot(handed, now, Len(runs))
  BY <1>1 DEF NoPass, Passes, OfSlot
<1> HIDE DEF handed, slot
<1>7. tick' \in [Ticks -> Passes] /\ \A o \in Ticks : tick'[o] = IF o = k THEN handed ELSE tick[o]
  BY <1>1, <1>2, <1>6
<1>8. /\ ledger' \in [Slots -> {"none", "missed", "run"}]
      /\ \A s \in Slots : ledger'[s] = "run" <=> ledger[s] = "run"
  BY <1>1, <1>2, <1>3
<1>9. RoutineShapes'
  BY <1>2, <1>5, <1>7, <1>8 DEF RoutineInv, RoutineShapes
<1>10. PassesAreOfSlots'
  <2>1. \A o \in Ticks : OfSlot(tick'[o], now, Len(runs))
    BY <1>1, <1>6, <1>7
  <2> QED
    BY <1>2, <2>1 DEF PassesAreOfSlots
<1>11. EditsAreOfRows' /\ SlotsHaveRuns'
  BY <1>2, <1>8 DEF RoutineInv, EditsAreOfRows, SlotsHaveRuns
<1> QED
  BY <1>9, <1>10, <1>11 DEF RoutineInv

\* What a step shows that adds one run under a nonce no run has.
LEMMA RunAdded ==
    ASSUME RoutineInv, NEW nonce \in ({"routine"} \X Slots) \cup ({"routine-test"} \X Tests),
           ~NonceTaken(nonce), runs' = Append(runs, NewRun(nonce))
    PROVE  /\ runs' \in Seq(RoutineRuns) /\ Len(runs') = Len(runs) + 1 /\ Len(runs) \in Nat
           /\ runs'[Len(runs) + 1].nonce = nonce
           /\ \A i \in 1 .. Len(runs) : runs'[i] = runs[i]
           /\ \A i \in 1 .. Len(runs') : i \in 1 .. Len(runs) \/ i = Len(runs) + 1
           /\ \A i, j \in 1 .. Len(runs') : runs'[i].nonce = runs'[j].nonce => i = j
<1>1. runs \in Seq(RoutineRuns) /\ Len(runs) \in Nat
  BY RoutineFacts
<1>2. NewRun(nonce) \in RoutineRuns /\ NewRun(nonce).nonce = nonce
  BY DEF NewRun, RoutineRuns
<1>3. /\ runs' \in Seq(RoutineRuns) /\ Len(runs') = Len(runs) + 1
      /\ runs'[Len(runs) + 1] = NewRun(nonce)
      /\ \A i \in 1 .. Len(runs) : runs'[i] = runs[i]
  BY <1>1, <1>2, AppendProperties
<1>4. \A i \in 1 .. Len(runs') : i \in 1 .. Len(runs) \/ i = Len(runs) + 1
  BY <1>1, <1>3
<1>5. \A i \in 1 .. Len(runs) : runs[i].nonce # nonce
  BY DEF NonceTaken
<1>6. \A i, j \in 1 .. Len(runs) : runs[i].nonce = runs[j].nonce => i = j
  BY DEF RoutineInv, SlotsHaveRuns
<1>7. \A i, j \in 1 .. Len(runs') : runs'[i].nonce = runs'[j].nonce => i = j
  BY <1>2, <1>3, <1>4, <1>5, <1>6
<1> QED
  BY <1>1, <1>2, <1>3, <1>4, <1>7

\* A test run touches neither the ledger nor the cursor (createRoutineTestRun).
LEMMA TestKeeps ==
    ASSUME RoutineInv, NEW n \in Tests, TestRun(n)
    PROVE  RoutineInv'
<1> DEFINE nonce == TestNonce(n)
<1>1. /\ ~NonceTaken(nonce) /\ runs' = Append(runs, NewRun(nonce)) /\ tasks' = tasks + 1
      /\ UNCHANGED <<now, row, ledger, tick, edit, jobs, faults, since>>
  BY DEF TestRun
<1>2. nonce \in ({"routine"} \X Slots) \cup ({"routine-test"} \X Tests) /\ \A s \in Slots : nonce # SlotNonce(s)
  BY DEF TestNonce, SlotNonce
<1> HIDE DEF nonce
<1>3. /\ runs' \in Seq(RoutineRuns) /\ Len(runs') = Len(runs) + 1 /\ Len(runs) \in Nat
      /\ runs'[Len(runs) + 1].nonce = nonce
      /\ \A i \in 1 .. Len(runs) : runs'[i] = runs[i]
      /\ \A i \in 1 .. Len(runs') : i \in 1 .. Len(runs) \/ i = Len(runs) + 1
      /\ \A i, j \in 1 .. Len(runs') : runs'[i].nonce = runs'[j].nonce => i = j
  BY <1>1, <1>2, RunAdded
<1>4. RoutineShapes'
  <2>1. tasks = Len(runs) /\ jobs \in SUBSET (1 .. Len(runs))
    BY DEF RoutineInv, RoutineShapes
  <2>2. tasks' = Len(runs') /\ jobs' \in SUBSET (1 .. Len(runs'))
    BY <1>1, <1>3, <2>1
  <2> QED
    BY <1>1, <1>3, <2>2 DEF RoutineInv, RoutineShapes
<1>5. PassesAreOfSlots'
  <2>1. /\ now \in Int /\ now <= now /\ Len(runs') \in Nat /\ Len(runs) <= Len(runs')
        /\ \A k \in Ticks : tick[k] \in Passes /\ OfSlot(tick[k], now, Len(runs))
    BY <1>3, RoutineFacts
  <2>2. \A k \in Ticks : OfSlot(tick[k], now, Len(runs'))
    BY <1>3, <2>1, PassStays
  <2> QED
    BY <1>1, <2>2 DEF PassesAreOfSlots
<1>6. EditsAreOfRows'
  BY <1>1 DEF RoutineInv, EditsAreOfRows
<1>7. SlotsHaveRuns'
  <2>1. \A s \in Slots : (\E i \in 1 .. Len(runs') : runs'[i].nonce = SlotNonce(s))
                         <=> (\E i \in 1 .. Len(runs) : runs[i].nonce = SlotNonce(s))
    <3> TAKE s \in Slots
    <3>1. nonce # SlotNonce(s) /\ \A i \in 1 .. Len(runs) : i \in 1 .. Len(runs')
      BY <1>2, <1>3
    <3> QED
      BY <1>3, <3>1
  <2>2. \A s \in Slots : ledger[s] = "run" <=> \E i \in 1 .. Len(runs) : runs[i].nonce = SlotNonce(s)
    BY DEF RoutineInv, SlotsHaveRuns
  <2> QED
    BY <1>1, <1>3, <2>1, <2>2 DEF SlotsHaveRuns, SlotNonce
<1> QED
  BY <1>4, <1>5, <1>6, <1>7 DEF RoutineInv

\* A fire makes the occurrence, the run and the advance together (fireRoutineOnce).
LEMMA FireKeeps ==
    ASSUME RoutineInv, NEW k \in Ticks, fireRoutineOnce(k)
    PROVE  RoutineInv'
<1> DEFINE slot == tick[k].slot
           nonce == SlotNonce(slot)
           pass == [tick[k] EXCEPT !.pc = "enqueue", !.run = Len(runs) + 1]
<1>1. /\ MaxTime \in Nat /\ now \in Int /\ Len(runs) \in Nat /\ tick \in [Ticks -> Passes]
      /\ row \in [cron : Crons, enabled : BOOLEAN, deleted : BOOLEAN, next : 1 .. Never]
      /\ ledger \in [Slots -> {"none", "missed", "run"}]
      /\ \A o \in Ticks : tick[o] \in Passes /\ OfSlot(tick[o], now, Len(runs))
  BY RoutineFacts
<1>2. /\ tick[k].pc = "settle" /\ ledger[slot] = "none" /\ ~NonceTaken(nonce)
      /\ ledger' = [ledger EXCEPT ![slot] = "run"]
      /\ runs' = Append(runs, NewRun(nonce)) /\ tasks' = tasks + 1
      /\ row' = [row EXCEPT !.next = nextRoutineFire(tick[k].cron, slot)]
      /\ tick' = [tick EXCEPT ![k].pc = "enqueue", ![k].run = Len(runs) + 1]
      /\ UNCHANGED <<now, edit, jobs, faults, since>>
  BY DEF fireRoutineOnce
<1>3. slot \in Slots /\ tick[k].cron \in Crons /\ slot \in Int
  <2>1. OfSlot(tick[k], now, Len(runs))
    BY <1>1
  <2> QED
    BY <1>2, <2>1 DEF OfSlot, Slots
<1>4. row' \in [cron : Crons, enabled : BOOLEAN, deleted : BOOLEAN, next : 1 .. Never]
  <2>1. nextRoutineFire(tick[k].cron, slot) \in 1 .. Never
    BY <1>3, NextFire
  <2> QED
    BY <1>1, <1>2, <2>1
<1>5. nonce \in ({"routine"} \X Slots) \cup ({"routine-test"} \X Tests)
  BY <1>3 DEF SlotNonce
<1>6. \A s \in Slots : nonce = SlotNonce(s) <=> s = slot
  BY <1>3 DEF SlotNonce
<1>7. pass \in Passes /\ pass.pc = "enqueue" /\ pass.run = Len(runs) + 1 /\ tick' = [tick EXCEPT ![k] = pass]
  <2>1. tick[k] \in Passes /\ Len(runs) + 1 \in Nat
    BY <1>1
  <2>2. pass \in Passes /\ pass.pc = "enqueue" /\ pass.run = Len(runs) + 1
    BY ONLY <2>1 DEF Passes, pass
  <2>3. tick' = [tick EXCEPT ![k] = pass]
    BY <1>1, <1>2, <2>1 DEF Passes
  <2> QED
    BY <2>2, <2>3
<1> HIDE DEF slot, nonce, pass
<1>8. /\ runs' \in Seq(RoutineRuns) /\ Len(runs') = Len(runs) + 1
      /\ runs'[Len(runs) + 1].nonce = nonce
      /\ \A i \in 1 .. Len(runs) : runs'[i] = runs[i]
      /\ \A i \in 1 .. Len(runs') : i \in 1 .. Len(runs) \/ i = Len(runs) + 1
      /\ \A i, j \in 1 .. Len(runs') : runs'[i].nonce = runs'[j].nonce => i = j
  BY <1>2, <1>5, RunAdded
<1>9. tick' \in [Ticks -> Passes] /\ \A o \in Ticks : tick'[o] = IF o = k THEN pass ELSE tick[o]
  BY <1>1, <1>7
<1>10. ledger' \in [Slots -> {"none", "missed", "run"}] /\ \A s \in Slots : ledger'[s] = IF s = slot THEN "run" ELSE ledger[s]
  BY <1>1, <1>2, <1>3
<1>11. RoutineShapes'
  <2>1. tasks = Len(runs) /\ jobs \in SUBSET (1 .. Len(runs))
    BY DEF RoutineInv, RoutineShapes
  <2>2. tasks' = Len(runs') /\ jobs' \in SUBSET (1 .. Len(runs'))
    BY <1>1, <1>2, <1>8, <2>1
  <2> QED
    BY <1>2, <1>4, <1>8, <1>9, <1>10, <2>2 DEF RoutineInv, RoutineShapes
<1>12. PassesAreOfSlots'
  <2>1. now <= now /\ Len(runs') \in Nat /\ Len(runs) <= Len(runs') /\ Len(runs) + 1 \in 1 .. Len(runs')
    BY <1>1, <1>8
  <2>2. \A o \in Ticks : OfSlot(tick[o], now, Len(runs'))
    BY <1>1, <2>1, PassStays
  <2>3. OfSlot(pass, now, Len(runs'))
    BY <1>7, <2>1 DEF OfSlot
  <2>4. \A o \in Ticks : OfSlot(tick'[o], now, Len(runs'))
    BY <1>9, <2>2, <2>3
  <2> QED
    BY <1>2, <2>4 DEF PassesAreOfSlots
<1>13. EditsAreOfRows'
  BY <1>2 DEF RoutineInv, EditsAreOfRows
<1>14. SlotsHaveRuns'
  <2>1. \A s \in Slots : ledger[s] = "run" <=> \E i \in 1 .. Len(runs) : runs[i].nonce = SlotNonce(s)
    BY DEF RoutineInv, SlotsHaveRuns
  <2>2. \A i \in 1 .. Len(runs) : i \in 1 .. Len(runs')
    BY <1>1, <1>8
  <2>3. Len(runs) + 1 \in 1 .. Len(runs')
    BY <1>1, <1>8
  <2>4. \A s \in Slots : ledger'[s] = "run" <=> \E i \in 1 .. Len(runs') : runs'[i].nonce = SlotNonce(s)
    <3> TAKE s \in Slots
    <3>1. CASE s = slot
      BY <1>6, <1>8, <1>10, <2>3, <3>1
    <3>2. CASE s # slot
      BY <1>6, <1>8, <1>10, <2>1, <2>2, <3>2
    <3> QED
      BY <3>1, <3>2
  <2> QED
    BY <1>8, <2>4 DEF SlotsHaveRuns, SlotNonce
<1> QED
  BY <1>11, <1>12, <1>13, <1>14 DEF RoutineInv

\* A run that is claimed or ages keeps its nonce.
LEMMA RunChangeKeeps ==
    ASSUME RoutineInv, NEW i \in 1 .. Len(runs), Age(i) \/ (i \in jobs /\ Execute(i))
    PROVE  RoutineInv'
<1>1. runs \in Seq(RoutineRuns) /\ Len(runs) \in Nat /\ runs[i] \in RoutineRuns
  BY RoutineFacts, ElementOfSeq
<1>2. PICK run \in RoutineRuns : runs' = [runs EXCEPT ![i] = run] /\ run.nonce = runs[i].nonce
  <2>1. CASE Age(i)
    <3> DEFINE run == [runs[i] EXCEPT !.old = TRUE]
    <3>1. run \in RoutineRuns /\ run.nonce = runs[i].nonce
      BY <1>1 DEF RoutineRuns
    <3>2. runs' = [runs EXCEPT ![i] = run]
      BY <2>1 DEF Age
    <3> QED
      BY <3>1, <3>2
  <2>2. CASE Execute(i)
    <3> DEFINE run == [runs[i] EXCEPT !.status = "owned"]
    <3>1. run \in RoutineRuns /\ run.nonce = runs[i].nonce
      BY <1>1 DEF RoutineRuns
    <3>2. runs' = [runs EXCEPT ![i] = run]
      BY <2>2 DEF Execute
    <3> QED
      BY <3>1, <3>2
  <2> QED
    BY <2>1, <2>2
<1>3. UNCHANGED <<now, row, ledger, tasks, tick, edit, faults, since>> /\ jobs' \in SUBSET jobs
  BY DEF Age, Execute
<1>4. /\ runs' \in Seq(RoutineRuns) /\ Len(runs') = Len(runs)
      /\ \A j \in 1 .. Len(runs) : runs'[j].nonce = runs[j].nonce
  <2>1. /\ runs' \in Seq(RoutineRuns) /\ Len(runs') = Len(runs)
        /\ \A j \in 1 .. Len(runs) : runs'[j] = IF j = i THEN run ELSE runs[j]
    BY <1>1, <1>2, ExceptSeq
  <2> QED
    BY <1>2, <2>1
<1>5. RoutineShapes'
  BY <1>3, <1>4 DEF RoutineInv, RoutineShapes
<1>6. PassesAreOfSlots' /\ EditsAreOfRows'
  BY <1>3, <1>4 DEF RoutineInv, PassesAreOfSlots, EditsAreOfRows
<1>7. SlotsHaveRuns'
  BY <1>3, <1>4 DEF RoutineInv, SlotsHaveRuns, SlotNonce
<1> QED
  BY <1>5, <1>6, <1>7 DEF RoutineInv

\* Time passes; a slot that had come stays one that had.
LEMMA ClockKeeps ==
    ASSUME RoutineInv, Clock
    PROVE  RoutineInv'
<1>1. /\ now < MaxTime /\ now' = now + 1
      /\ UNCHANGED <<row, ledger, runs, tasks, tick, edit, jobs, faults, since>>
  BY DEF Clock
<1>2. /\ MaxTime \in Nat /\ now \in Nat /\ now \in Int /\ Len(runs) \in Nat
      /\ \A k \in Ticks : tick[k] \in Passes /\ OfSlot(tick[k], now, Len(runs))
  BY RoutineFacts
<1>3. now' \in 0 .. MaxTime /\ now' \in Int /\ now <= now' /\ Len(runs) <= Len(runs)
  BY <1>1, <1>2
<1>4. \A k \in Ticks : OfSlot(tick[k], now', Len(runs))
  BY <1>2, <1>3, PassStays
<1>5. PassesAreOfSlots'
  BY <1>1, <1>4 DEF PassesAreOfSlots
<1>6. RoutineShapes' /\ EditsAreOfRows'
  BY <1>1, <1>3 DEF RoutineInv, RoutineShapes, EditsAreOfRows
<1>7. SlotsHaveRuns'
  BY <1>1 DEF RoutineInv, SlotsHaveRuns, SlotNonce
<1> QED
  BY <1>5, <1>6, <1>7 DEF RoutineInv

LEMMA RoutineStarts == RoutineInit => RoutineInv
<1> SUFFICES ASSUME RoutineInit PROVE RoutineInv
  OBVIOUS
<1>1. MaxTime \in Nat /\ MaxPassFaults \in Nat
  BY RoutinesAssumption
<1>2. PICK c \in Crons : row = [cron |-> c, enabled |-> TRUE, deleted |-> FALSE, next |-> nextRoutineFire(c, 0)]
  BY DEF RoutineInit
<1>3. nextRoutineFire(c, 0) \in 1 .. Never
  BY NextFire
<1>4. row \in [cron : Crons, enabled : BOOLEAN, deleted : BOOLEAN, next : 1 .. Never]
  BY <1>2, <1>3
<1>5. /\ now = 0 /\ ledger = [s \in Slots |-> "none"] /\ runs = <<>> /\ tasks = 0
      /\ tick = [k \in Ticks |-> NoPass] /\ edit = [e \in Editors |-> NoEdit]
      /\ jobs = {} /\ faults = 0 /\ since = 0
  BY DEF RoutineInit
<1>6. NoPass \in Passes /\ NoPass.pc = "idle"
  BY <1>1 DEF NoPass, Passes
<1>7. NoEdit \in Edits /\ NoEdit.pc = "idle"
  BY <1>1 DEF NoEdit, Edits
<1>8. runs \in Seq(RoutineRuns) /\ Len(runs) = 0
  BY <1>5, EmptySeq
<1>9. RoutineShapes
  BY <1>1, <1>4, <1>5, <1>6, <1>7, <1>8 DEF RoutineShapes
<1>10. PassesAreOfSlots /\ EditsAreOfRows
  BY <1>5, <1>6, <1>7 DEF PassesAreOfSlots, OfSlot, EditsAreOfRows
<1>11. SlotsHaveRuns
  BY <1>5, <1>8 DEF SlotsHaveRuns
<1> QED
  BY <1>9, <1>10, <1>11 DEF RoutineInv

LEMMA RoutineStays == RoutineInv /\ UNCHANGED routineVars => RoutineInv'
<1> SUFFICES ASSUME RoutineInv, UNCHANGED routineVars PROVE RoutineInv'
  OBVIOUS
<1>1. UNCHANGED <<now, row, ledger, runs, tasks, tick, edit, jobs, faults, since>>
  BY DEF routineVars
<1>2. RoutineShapes' /\ PassesAreOfSlots' /\ EditsAreOfRows'
  BY <1>1 DEF RoutineInv, RoutineShapes, PassesAreOfSlots, EditsAreOfRows
<1>3. SlotsHaveRuns'
  BY <1>1 DEF RoutineInv, SlotsHaveRuns, SlotNonce
<1> QED
  BY <1>2, <1>3 DEF RoutineInv

\* Every step of the operator, the scheduler and the workers keeps the invariant.
LEMMA RoutineStep == RoutineInv /\ RoutineNext => RoutineInv'
<1> SUFFICES ASSUME RoutineInv, RoutineNext PROVE RoutineInv'
  OBVIOUS
<1>1. jobs \in SUBSET (1 .. Len(runs))
  BY DEF RoutineInv, RoutineShapes
<1> QED
  BY <1>1, OperatorKeeps, SchedulerKeeps, MissKeeps, TestKeeps, FireKeeps, RunChangeKeeps, ClockKeeps
     DEF RoutineNext, Pass

LEMMA RoutineAlways == RoutineSpec => []RoutineInv
  BY RoutineStarts, RoutineStep, RoutineStays, PTL DEF RoutineSpec

\* However passes overlap, retry and die, a slot recorded as run has exactly one run and
\* any other slot has none (run-creation.ts: fireRoutineOnce, recordMissedOccurrence).
THEOREM LedgerProved == RoutineSpec => []LedgerMatchesRuns
<1>1. RoutineInv => LedgerMatchesRuns
  <2> SUFFICES ASSUME RoutineInv PROVE LedgerMatchesRuns
    OBVIOUS
  <2>1. runs \in Seq(RoutineRuns) /\ \A i \in 1 .. Len(runs) : runs[i] \in RoutineRuns
    BY RoutineFacts, ElementOfSeq
  <2>2. RoutineTypeOK
    <3>1. \A i \in 1 .. Len(runs) : runs[i].status \in {"queued", "owned"} /\ runs[i].old \in BOOLEAN
      BY <2>1 DEF RoutineRuns
    <3>2. \A k \in Ticks : tick[k].pc \in {"idle", "settle", "enqueue", "dispatch"}
      BY DEF RoutineInv, RoutineShapes, Passes
    <3>3. \A e \in Editors : edit[e].pc \in {"idle", "read", "clock", "done"}
      BY DEF RoutineInv, RoutineShapes, Edits
    <3> QED
      BY <3>1, <3>2, <3>3 DEF RoutineInv, RoutineShapes, RoutineTypeOK
  <2>3. ASSUME NEW s \in Slots
        PROVE  Cardinality({i \in 1 .. Len(runs) : runs[i].nonce = SlotNonce(s)})
                 = IF ledger[s] = "run" THEN 1 ELSE 0
    <3> DEFINE Fired == {i \in 1 .. Len(runs) : runs[i].nonce = SlotNonce(s)}
    <3>1. ledger[s] = "run" <=> Fired # {}
      BY DEF RoutineInv, SlotsHaveRuns
    <3>2. \A i, j \in Fired : i = j
      BY DEF RoutineInv, SlotsHaveRuns
    <3> HIDE DEF Fired
    <3>3. CASE Fired = {}
      <4>1. Cardinality(Fired) = 0
        BY <3>3, FS_EmptySet
      <4> QED
        BY <3>1, <3>3, <4>1 DEF Fired
    <3>4. CASE Fired # {}
      <4>1. PICK i \in Fired : TRUE
        BY <3>4
      <4>2. Fired = {i}
        BY <3>2, <4>1
      <4>3. Cardinality(Fired) = 1
        BY <4>2, FS_Singleton
      <4> QED
        BY <3>1, <3>4, <4>3 DEF Fired
    <3> QED
      BY <3>3, <3>4
  <2> QED
    BY <2>2, <2>3 DEF LedgerMatchesRuns, RoutineInv, RoutineShapes
<1> QED
  BY <1>1, RoutineAlways, PTL

\* A paused or deleted routine fires nothing more, however long ago a pass scanned it
\* (run-creation.ts: the row lock re-checked in the firing transaction).
THEOREM OnlyLiveProved == RoutineSpec => OnlyLiveRoutinesFire
<1> DEFINE FiresLive == \A s \in Slots : ledger'[s] = "run" /\ ledger[s] # "run" => Live /\ s <= now
<1>1. RoutineInv /\ RoutineNext => FiresLive
  <2> SUFFICES ASSUME RoutineInv, RoutineNext, NEW s \in Slots, ledger'[s] = "run", ledger[s] # "run"
               PROVE  Live /\ s <= now
    OBVIOUS
  <2>1. ledger \in [Slots -> {"none", "missed", "run"}]
    BY RoutineFacts
  <2>2. ~ UNCHANGED ledger
    OBVIOUS
  <2>3. PICK k \in Ticks : recordMissedOccurrence(k) \/ fireRoutineOnce(k)
    BY <2>2 DEF RoutineNext, Pass, Clock, EditRead, EditClock, EditWrite, removeRoutine, TestRun, Scan,
                SettleSuperseded, Enqueue, dispatchQueuedRuns, SettleFails, TickDies, Age, Execute
  <2>4. tick[k].pc = "settle" /\ Locked(k)
    BY <2>3 DEF recordMissedOccurrence, fireRoutineOnce
  <2>5. ledger' = [ledger EXCEPT ![tick[k].slot] = "missed"] \/ ledger' = [ledger EXCEPT ![tick[k].slot] = "run"]
    BY <2>3 DEF recordMissedOccurrence, fireRoutineOnce
  <2>6. s = tick[k].slot
    BY <2>1, <2>5
  <2>7. tick[k] \in Passes /\ OfSlot(tick[k], now, Len(runs)) /\ now \in Int
    BY RoutineFacts
  <2>8. s <= now
    BY <2>4, <2>6, <2>7 DEF OfSlot, Passes, Slots
  <2> QED
    BY <2>4, <2>8 DEF Locked
<1> QED
  BY <1>1, RoutineAlways, PTL DEF RoutineSpec, OnlyLiveRoutinesFire

-----------------------------------------------------------------------------
(* Retention *)

\* Storage orders its objects totally: newest first, the key breaking a tie.
LEMMA NewerIsTotal ==
    ASSUME NEW S \in SUBSET Objects, \A x, y \in S : x.id = y.id => x = y
    PROVE  /\ \A x, y \in S : x = y \/ Newer(x, y) \/ Newer(y, x)
           /\ \A x, y, z \in S : Newer(x, y) /\ Newer(y, z) => Newer(x, z)
           /\ \A x \in S : ~Newer(x, x)
<1>1. \A x \in S : x.id \in Int /\ x.at \in Int
  <2>1. \A i \in SnapshotIds : i \in Int
    BY SnapshotAssumption
  <2> QED
    BY <2>1 DEF Objects
<1> QED
  BY <1>1 DEF Newer

\* What prunePrefix keeps of a finite scope fits the retention (snapshot-store.ts).
LEMMA PruneFits ==
    ASSUME NEW S \in SUBSET Objects, IsFiniteSet(S), \A x, y \in S : x.id = y.id => x = y,
           Retention > 0
    PROVE  IsFiniteSet(S \ Expired(S)) /\ Cardinality(S \ Expired(S)) <= Retention
<1> DEFINE Before(x) == {y \in S : Newer(y, x)}
           Left == {x \in S : ~(Cardinality(Before(x)) >= Retention)}
<1>1. Retention \in Nat
  BY SnapshotAssumption
<1>2. S \ Expired(S) = Left
  BY <1>1 DEF Expired
<1>3. \A x \in S : IsFiniteSet(Before(x)) /\ Cardinality(Before(x)) \in Nat
  <2> TAKE x \in S
  <2>1. Before(x) \in SUBSET S
    OBVIOUS
  <2>2. IsFiniteSet(Before(x))
    BY <2>1, FS_Subset
  <2> QED
    BY <2>2, FS_CardinalityType
<1>4. Left \in SUBSET S /\ IsFiniteSet(Left) /\ Cardinality(Left) \in Nat
  <2>1. Left \in SUBSET S
    OBVIOUS
  <2>2. IsFiniteSet(Left)
    BY <2>1, FS_Subset
  <2> QED
    BY <2>1, <2>2, FS_CardinalityType
<1>5. CASE Left = {}
  <2>1. Cardinality(Left) = 0
    BY <1>5, FS_EmptySet
  <2> HIDE DEF Left
  <2> QED
    BY <1>1, <1>2, <1>4, <2>1
<1>6. CASE Left # {}
  <2> DEFINE Gaps == {g \in Nat : \E x \in Left : g + Cardinality(Before(x)) = Retention}
  <2>0. \A x \in Left : Cardinality(Before(x)) < Retention /\ Cardinality(Before(x)) \in Nat
    <3>1. \A x \in Left : x \in S /\ ~(Cardinality(Before(x)) >= Retention)
      OBVIOUS
    <3> HIDE DEF Before, Left
    <3> QED
      BY <1>1, <1>3, <3>1
  <2>1. Gaps \in SUBSET Nat /\ Gaps # {}
    <3>1. PICK x \in Left : TRUE
      BY <1>6
    <3> HIDE DEF Before, Left
    <3>2. (Retention - Cardinality(Before(x))) + Cardinality(Before(x)) = Retention
          /\ Retention - Cardinality(Before(x)) \in Nat
      BY <1>1, <2>0, <3>1
    <3>3. \E g \in Nat : g + Cardinality(Before(x)) = Retention
      BY <3>2
    <3> QED
      BY <3>1, <3>3
  <2>2. PICK g \in Gaps : \A h \in Gaps : ~(<<h, g>> \in OpToRel(<, Nat))
    <3> HIDE DEF Gaps
    <3> QED
      BY <2>1, NatLessThanWellFounded, WFMin
  <2>3. \A h \in Gaps : ~(h < g)
    <3> HIDE DEF Before, Left
    <3> QED
      BY <2>1, <2>2 DEF OpToRel
  <2>4. PICK oldest \in Left : g + Cardinality(Before(oldest)) = Retention
    BY <2>2
  <2>5. \A x \in Left : Cardinality(Before(x)) <= Cardinality(Before(oldest))
    <3> SUFFICES ASSUME NEW x \in Left, Cardinality(Before(x)) > Cardinality(Before(oldest))
                 PROVE  FALSE
      <4> HIDE DEF Before, Left, Gaps
      <4> QED
        BY <2>0, <2>4
    <3> DEFINE h == Retention - Cardinality(Before(x))
    <3> HIDE DEF Before, Left
    <3>1. h \in Nat /\ h + Cardinality(Before(x)) = Retention /\ h < g
      <4>1. g \in Nat
        BY <2>1, <2>2
      <4> HIDE DEF Gaps
      <4> QED
        BY <1>1, <2>0, <2>4, <4>1
    <3> HIDE DEF h
    <3>2. h \in Gaps
      BY <3>1
    <3> QED
      BY <2>3, <3>1, <3>2
  <2>6. \A x \in Left : x # oldest => x \in Before(oldest)
    <3> SUFFICES ASSUME NEW x \in Left, x # oldest, ~Newer(x, oldest)
                 PROVE  FALSE
      BY <1>4
    <3>1. x \in S /\ oldest \in S
      BY <1>4, <2>4
    <3>2. Newer(oldest, x)
      BY <3>1, NewerIsTotal
    <3>3. \A y \in S : Newer(y, oldest) => Newer(y, x)
      BY <3>1, <3>2, NewerIsTotal
    <3>4. ~Newer(oldest, oldest)
      BY <3>1, NewerIsTotal
    <3>5. Before(oldest) \cup {oldest} \in SUBSET Before(x) /\ oldest \notin Before(oldest)
      BY <3>1, <3>2, <3>3, <3>4
    <3>6. IsFiniteSet(Before(oldest)) /\ IsFiniteSet(Before(x))
      BY <1>3, <3>1
    <3> HIDE DEF Before, Left, Gaps
    <3>7. Cardinality(Before(oldest) \cup {oldest}) = Cardinality(Before(oldest)) + 1
      BY <3>5, <3>6, FS_AddElement
    <3>8. Cardinality(Before(oldest) \cup {oldest}) <= Cardinality(Before(x))
      BY <3>5, <3>6, FS_Subset
    <3> QED
      BY <1>3, <2>5, <3>1, <3>7, <3>8
  <2>7. Left \ {oldest} \in SUBSET Before(oldest)
    BY <2>6
  <2>8. IsFiniteSet(Before(oldest))
    BY <1>3, <1>4, <2>4
  <2> HIDE DEF Before, Left, Gaps
  <2>9. Cardinality(Left \ {oldest}) <= Cardinality(Before(oldest))
    BY <2>7, <2>8, FS_Subset
  <2>10. Cardinality(Left \ {oldest}) = Cardinality(Left) - 1
    BY <1>4, <2>4, FS_RemoveElement
  <2> QED
    BY <1>1, <1>2, <1>4, <2>0, <2>4, <2>9, <2>10
<1> QED
  BY <1>5, <1>6

\* A step that changes no object and no row keeps what is known of the keys, when
\* the request it moves holds what it has to.
LEMMA KeysStep ==
    ASSUME SnapshotsInv, NEW o \in Ops, NEW q \in Operations,
           op' = [op EXCEPT ![o] = q], archives' = archives, rows' = rows,
           q.pc \in Restoring => q.shot \in rows,
           o \in Captures => \A x \in archives : x.id = q.shot.id => x.at = q.shot.at
    PROVE  KeysAreKept'
<1>1. op \in [Ops -> Operations]
  BY DEF SnapshotsInv, SnapshotsShapes
<1>2. \A p \in Ops : op'[p] = IF p = o THEN q ELSE op[p]
  BY <1>1
<1>3. \A x, y \in archives' : x.id = y.id => x = y
  BY DEF SnapshotsInv, KeysAreKept
<1>4. \A p \in Captures : p \in Ops
  BY DEF Ops
<1>5. \A x \in archives', y \in rows' \cup {op'[p].shot : p \in Captures} : x.id = y.id => x.at = y.at
  <2> SUFFICES ASSUME NEW x \in archives, NEW y \in rows \cup {op'[p].shot : p \in Captures}, x.id = y.id
               PROVE  x.at = y.at
    OBVIOUS
  <2>1. CASE y \in rows
    BY <2>1 DEF SnapshotsInv, KeysAreKept
  <2>2. CASE y \in {op'[p].shot : p \in Captures}
    <3>1. PICK p \in Captures : y = op'[p].shot
      BY <2>2
    <3>2. CASE p = o
      BY <1>2, <1>4, <3>1, <3>2
    <3>3. CASE p # o
      BY <1>2, <1>4, <3>1, <3>3 DEF SnapshotsInv, KeysAreKept
    <3> QED
      BY <3>2, <3>3
  <2> QED
    BY <2>1, <2>2
<1>6. \A p \in Ops : op'[p].pc \in Restoring => op'[p].shot \in rows'
  <2> SUFFICES ASSUME NEW p \in Ops, op'[p].pc \in Restoring PROVE op'[p].shot \in rows
    OBVIOUS
  <2>1. CASE p = o
    BY <1>2, <2>1
  <2>2. CASE p # o
    BY <1>2, <2>2 DEF SnapshotsInv, KeysAreKept
  <2> QED
    BY <2>1, <2>2
<1> QED
  BY <1>3, <1>5, <1>6 DEF KeysAreKept

\* A staging file made or left by a step belongs to the request it moves.
LEMMA StagedStep ==
    ASSUME SnapshotsInv, NEW o \in Ops, NEW q \in Operations,
           op' = [op EXCEPT ![o] = q], budget'.crashes = budget.crashes,
           \A s \in staged' : s \in staged \/ s = [of |-> o, old |-> FALSE],
           budget.crashes = MaxCrashes => q.pc \in InFlight \/ \A s \in staged' : s.of # o
    PROVE  staged' \in SUBSET [of : Ops, old : BOOLEAN] /\ StagedInFlight'
<1>1. op \in [Ops -> Operations] /\ staged \in SUBSET [of : Ops, old : BOOLEAN]
  BY DEF SnapshotsInv, SnapshotsShapes
<1>2. \A p \in Ops : op'[p] = IF p = o THEN q ELSE op[p]
  BY <1>1
<1>3. \A s \in staged' : s \in [of : Ops, old : BOOLEAN]
  <2>1. [of |-> o, old |-> FALSE] \in [of : Ops, old : BOOLEAN]
    OBVIOUS
  <2> QED
    BY <1>1, <2>1
<1>4. ASSUME budget'.crashes = MaxCrashes, NEW s \in staged'
      PROVE  op'[s.of].pc \in InFlight
  <2>1. s.of \in Ops
    BY <1>3
  <2>2. CASE s.of = o
    BY <1>2, <1>4, <2>1, <2>2
  <2>3. CASE s.of # o
    <3>1. s \in staged
      BY <2>3
    <3> QED
      BY <1>2, <1>4, <2>1, <2>3, <3>1 DEF SnapshotsInv, StagedInFlight
  <2> QED
    BY <2>2, <2>3
<1>5. staged' \in SUBSET [of : Ops, old : BOOLEAN]
  BY <1>3
<1> QED
  BY <1>4, <1>5 DEF StagedInFlight

\* A step after which no prune spares more than before, and no request that had to
\* list the scope has gone, keeps the number of kept archives bounded.
LEMMA KeptStep ==
    ASSUME SnapshotsInv, budget'.crashes = budget.crashes,
           budget'.faults = MaxFaults => budget.faults = MaxFaults,
           budget'.faults = MaxFaults => \A p \in Captures : op[p].pc = "prune" => op'[p].pc = "prune",
           budget'.faults = MaxFaults => \A x \in Kept' : x \in Kept
    PROVE  KeptIsBounded'
<1> SUFFICES ASSUME budget'.crashes = MaxCrashes, budget'.faults = MaxFaults, Retention > 0,
                    \A p \in Captures : op'[p].pc # "prune"
             PROVE  Cardinality(Kept') <= Retention
  BY DEF KeptIsBounded
<1>1. Cardinality(Kept) <= Retention
  BY DEF SnapshotsInv, KeptIsBounded
<1>2. Kept' \in SUBSET Kept /\ Kept \in SUBSET archives
  BY DEF Kept
<1>3. IsFiniteSet(archives) /\ Retention \in Nat
  BY SnapshotAssumption DEF SnapshotsInv, SnapshotsShapes
<1> HIDE DEF Kept
<1>4. IsFiniteSet(Kept)
  BY <1>2, <1>3, FS_Subset
<1>5. IsFiniteSet(Kept') /\ Cardinality(Kept') <= Cardinality(Kept)
  BY <1>2, <1>4, FS_Subset
<1>6. Cardinality(Kept) \in Nat /\ Cardinality(Kept') \in Nat
  BY <1>4, <1>5, FS_CardinalityType
<1> QED
  BY <1>1, <1>3, <1>5, <1>6

\* A step of one request that leaves the objects and the rows alone.
LEMMA OpStep ==
    ASSUME SnapshotsInv, NEW o \in Ops, NEW q \in Operations,
           op' = [op EXCEPT ![o] = q], archives' = archives, rows' = rows, clock' = clock,
           machine' \in {"gone", "stopped", "running"}, home' \in SUBSET Files,
           budget' \in Budgets, budget'.crashes = budget.crashes, budget'.faults <= budget.faults,
           \A s \in staged' : s \in staged \/ s = [of |-> o, old |-> FALSE],
           budget.crashes = MaxCrashes => q.pc \in InFlight \/ \A s \in staged' : s.of # o,
           q.pc \in Restoring => q.shot \in rows,
           o \in Captures => \A x \in archives : x.id = q.shot.id => x.at = q.shot.at,
           budget'.faults = MaxFaults =>
             /\ op[o].pc # "prune" /\ q.pc # "delete"
             /\ op[o].pc = "delete" => op[o].expired = {}
    PROVE  SnapshotsInv'
<1>1. KeysAreKept'
  BY KeysStep
<1>2. staged' \in SUBSET [of : Ops, old : BOOLEAN] /\ StagedInFlight'
  BY StagedStep
<1>3. op \in [Ops -> Operations] /\ budget \in Budgets
  BY DEF SnapshotsInv, SnapshotsShapes
<1>4. \A p \in Ops : op'[p] = IF p = o THEN q ELSE op[p]
  BY <1>3
<1>5. \A p \in Captures : p \in Ops
  BY DEF Ops
<1>6. budget'.faults = MaxFaults => budget.faults = MaxFaults
  <2>1. MaxFaults \in Nat
    BY SnapshotAssumption
  <2>2. budget.faults \in 0 .. MaxFaults /\ budget'.faults \in 0 .. MaxFaults
    BY <1>3 DEF Budgets
  <2> QED
    BY <2>1, <2>2
<1>7. budget'.faults = MaxFaults => \A p \in Captures : op[p].pc = "prune" => op'[p].pc = "prune"
  BY <1>4, <1>5
<1>8. ASSUME budget'.faults = MaxFaults, NEW x \in Kept' PROVE x \in Kept
  <2>1. x \in archives
    BY DEF Kept
  <2>2. ASSUME NEW p \in Captures, op[p].pc = "delete", NEW y \in op[p].expired PROVE y.id # x.id
    <3>1. p # o
      BY <1>8, <2>2
    <3> QED
      BY <1>4, <1>5, <2>2, <3>1 DEF Kept
  <2> QED
    BY <2>1, <2>2 DEF Kept
<1>9. KeptIsBounded'
  BY <1>6, <1>7, <1>8, KeptStep
<1>10. SnapshotsShapes'
  <2>1. op' \in [Ops -> Operations]
    BY <1>3
  <2> QED
    BY <1>2, <2>1 DEF SnapshotsInv, SnapshotsShapes
<1> QED
  BY <1>1, <1>2, <1>9, <1>10 DEF SnapshotsInv

\* What the steps below need of the state.
LEMMA SnapshotFacts ==
    ASSUME SnapshotsInv
    PROVE  /\ op \in [Ops -> Operations] /\ budget \in Budgets /\ budget.faults \in Int
           /\ home \in SUBSET Files /\ machine \in {"gone", "stopped", "running"}
           /\ staged \in SUBSET [of : Ops, old : BOOLEAN]
           /\ \A o \in Captures \cup Restores : o \in Ops
           /\ \A o \in Ops : op[o] \in Operations /\ op[o].shot \in Shots
           /\ \A o \in Captures, x \in archives : x.id = op[o].shot.id => x.at = op[o].shot.at
<1>1. /\ op \in [Ops -> Operations] /\ budget \in Budgets
      /\ home \in SUBSET Files /\ machine \in {"gone", "stopped", "running"}
      /\ staged \in SUBSET [of : Ops, old : BOOLEAN]
  BY DEF SnapshotsInv, SnapshotsShapes
<1>2. budget.faults \in Int
  BY <1>1, SnapshotAssumption DEF Budgets
<1>3. \A o \in Ops : op[o] \in Operations /\ op[o].shot \in Shots
  BY <1>1 DEF Operations
<1>4. \A o \in Captures, x \in archives : x.id = op[o].shot.id => x.at = op[o].shot.at
  BY DEF SnapshotsInv, KeysAreKept
<1> QED
  BY <1>1, <1>2, <1>3, <1>4 DEF Ops

\* A request that fails holds nothing any more.
LEMMA FailStep ==
    ASSUME SnapshotsInv, NEW o \in Ops, Fail(o), archives' = archives, rows' = rows, clock' = clock,
           home' = home, machine' \in {"gone", "stopped", "running"},
           budget' \in Budgets, budget'.crashes = budget.crashes, budget'.faults <= budget.faults,
           budget'.faults = MaxFaults => op[o].pc \notin {"prune", "delete"},
           \A s \in staged' : s \in staged,
           budget.crashes = MaxCrashes => \A s \in staged' : s.of # o
    PROVE  SnapshotsInv'
<1> USE SnapshotFacts
<1> DEFINE q == [op[o] EXCEPT !.pc = "done", !.result = "failed", !.expired = {}]
<1>1. op[o] \in Operations
  OBVIOUS
<1>2. q \in Operations
  BY ONLY <1>1 DEF q, Operations
<1>3. q.pc = "done" /\ q.shot = op[o].shot
  BY ONLY <1>1 DEF q, Operations
<1>4. op' = [op EXCEPT ![o] = q]
  BY DEF Fail
<1> HIDE DEF q
<1>5. q.pc \notin Restoring
  BY <1>3 DEF Restoring
<1> QED
  BY <1>2, <1>3, <1>4, <1>5, OpStep

\* Without a crash nothing is staged for a request that is not in flight.
LEMMA NotStaged ==
    ASSUME SnapshotsInv, NEW o \in Ops, budget.crashes = MaxCrashes, op[o].pc \notin InFlight
    PROVE  \A s \in staged : s.of # o
BY DEF SnapshotsInv, StagedInFlight

\* A capture's steps before its object is stored.
LEMMA CaptureKeeps ==
    ASSUME SnapshotsInv, NEW o \in Captures, Capture(o)
    PROVE  SnapshotsInv'
<1> USE SnapshotFacts
<1>1. o \in Ops /\ op[o] \in Operations /\ op[o].pc = "new"
  BY DEF Capture, At
<1>2. CASE machine = "gone"
  <2>1. budget.crashes = MaxCrashes => \A s \in staged : s.of # o
    BY <1>1, NotStaged DEF InFlight
  <2>2. Fail(o) /\ staged' = staged /\ UNCHANGED <<machine, home, archives, rows, clock, budget>>
    BY <1>2 DEF Capture
  <2> QED
    BY <1>1, <2>1, <2>2, FailStep
<1>3. CASE machine # "gone"
  <2> DEFINE q == [op[o] EXCEPT !.pc = "produce"]
  <2>1. q \in Operations /\ q.pc = "produce" /\ q.shot = op[o].shot
    BY ONLY <1>1 DEF q, Operations
  <2>2. op' = [op EXCEPT ![o] = q]
    BY <1>3 DEF Capture
  <2>3. /\ \A s \in staged' : s \in staged \/ s = [of |-> o, old |-> FALSE]
        /\ UNCHANGED <<machine, home, archives, rows, clock, budget>>
    BY <1>3 DEF Capture
  <2> HIDE DEF q
  <2>4. q.pc \notin Restoring /\ q.pc \in InFlight
    BY <2>1 DEF Restoring, InFlight
  <2>5. /\ machine' \in {"gone", "stopped", "running"} /\ home' \in SUBSET Files
        /\ budget' \in Budgets /\ budget'.crashes = budget.crashes /\ budget'.faults <= budget.faults
    BY <2>3
  <2>6. \A x \in archives : x.id = q.shot.id => x.at = q.shot.at
    BY <1>1, <2>1
  <2>7. op[o].pc # "prune" /\ op[o].pc # "delete" /\ q.pc # "delete"
    BY <1>1, <2>1
  <2> QED
    BY <1>1, <2>1, <2>2, <2>3, <2>4, <2>5, <2>6, <2>7, OpStep
<1> QED
  BY <1>2, <1>3

LEMMA ProduceKeeps ==
    ASSUME SnapshotsInv, NEW o \in Captures, Produce(o)
    PROVE  SnapshotsInv'
<1> USE SnapshotFacts
<1>1. o \in Ops /\ op[o] \in Operations /\ op[o].pc = "produce"
  BY DEF Produce, At
<1>2. CASE machine = "gone"
  <2>1. Fail(o) /\ Unstage(o) /\ UNCHANGED <<machine, home, archives, rows, clock, budget>>
    BY <1>2 DEF Produce
  <2>2. \A s \in staged' : s \in staged /\ s.of # o
    BY <2>1 DEF Unstage
  <2> QED
    BY <1>1, <2>1, <2>2, FailStep
<1>3. CASE machine # "gone"
  <2> DEFINE q == [op[o] EXCEPT !.pc = "put", !.shot.content = home]
  <2>0. op[o].shot \in Shots /\ home \in SUBSET Files
    BY <1>1
  <2>1. q \in Operations /\ q.pc = "put" /\ q.shot.id = op[o].shot.id /\ q.shot.at = op[o].shot.at
    BY ONLY <1>1, <2>0 DEF q, Operations, Shots
  <2>2. op' = [op EXCEPT ![o] = q]
    BY <1>3 DEF Produce
  <2>3. staged' = staged /\ UNCHANGED <<machine, home, archives, rows, clock, budget>>
    BY <1>3 DEF Produce
  <2> HIDE DEF q
  <2>4. q.pc \notin Restoring /\ q.pc \in InFlight
    BY <2>1 DEF Restoring, InFlight
  <2>5. /\ machine' \in {"gone", "stopped", "running"} /\ home' \in SUBSET Files
        /\ budget' \in Budgets /\ budget'.crashes = budget.crashes /\ budget'.faults <= budget.faults
    BY <2>3
  <2>6. \A x \in archives : x.id = q.shot.id => x.at = q.shot.at
    BY <1>1, <2>1
  <2>7. op[o].pc # "prune" /\ op[o].pc # "delete" /\ q.pc # "delete"
    BY <1>1, <2>1
  <2> QED
    BY <1>1, <2>1, <2>2, <2>3, <2>4, <2>5, <2>6, <2>7, OpStep
<1> QED
  BY <1>2, <1>3

\* The object is put under a key nobody knows; its capture has its scope yet to list.
LEMMA PutKeeps ==
    ASSUME SnapshotsInv, NEW o \in Captures, Put(o)
    PROVE  SnapshotsInv'
<1> USE SnapshotFacts
<1>1. o \in Ops /\ op[o] \in Operations /\ op[o].pc = "put" /\ op[o].shot \in Shots
  BY DEF Put, At
<1>2. PICK id \in SnapshotIds \ {x.id : x \in archives \cup rows \cup {op[p].shot : p \in Captures}} :
        /\ archives' = archives \cup {[op[o].shot EXCEPT !.id = id, !.at = clock]}
        /\ op' = [op EXCEPT ![o].pc = "prune", ![o].shot = [op[o].shot EXCEPT !.id = id, !.at = clock]]
  BY DEF Put
<1>3. UNCHANGED <<machine, home, rows, staged, clock, budget>>
  BY DEF Put
<1>4. clock \in 0 .. MaxClock /\ archives \in SUBSET Objects /\ IsFiniteSet(archives)
  BY DEF SnapshotsInv, SnapshotsShapes
<1> DEFINE shot == [op[o].shot EXCEPT !.id = id, !.at = clock]
           q == [op[o] EXCEPT !.pc = "prune", !.shot = shot]
<1>5. shot \in Shots /\ shot \in Objects /\ shot.id = id /\ shot.at = clock
  BY ONLY <1>1, <1>2, <1>4 DEF shot, Shots, Objects
<1>6. q \in Operations /\ q.pc = "prune" /\ q.shot = shot
  <2> HIDE DEF shot
  <2> QED
    BY ONLY <1>1, <1>5 DEF q, Operations
<1>7. op' = [op EXCEPT ![o] = q] /\ archives' = archives \cup {shot}
  BY <1>2
<1>8. /\ \A x \in archives : x.id # id
      /\ \A x \in rows : x.id # id
      /\ \A p \in Captures : op[p].shot.id # id
  BY <1>2
<1> HIDE DEF shot, q
<1>9. \A p \in Ops : op'[p] = IF p = o THEN q ELSE op[p]
  BY <1>1, <1>7
<1>10. \A p \in Captures : p \in Ops
  OBVIOUS
<1>11. KeysAreKept'
  <2>1. \A x, y \in archives' : x.id = y.id => x = y
    BY <1>5, <1>7, <1>8 DEF SnapshotsInv, KeysAreKept
  <2>2. ASSUME NEW x \in archives', NEW y \in rows \cup {op'[p].shot : p \in Captures}, x.id = y.id
        PROVE  x.at = y.at
    <3>1. CASE y = shot
      BY <1>5, <1>7, <1>8, <2>2, <3>1
    <3>2. CASE y # shot
      <4>1. y \in rows \cup {op[p].shot : p \in Captures}
        BY <1>6, <1>9, <1>10, <2>2, <3>2
      <4>2. y.id # id
        BY <1>8, <4>1
      <4>3. x \in archives
        BY <1>5, <1>7, <2>2, <4>2
      <4> QED
        BY <2>2, <4>1, <4>3 DEF SnapshotsInv, KeysAreKept
    <3> QED
      BY <3>1, <3>2
  <2>3. ASSUME NEW p \in Ops, op'[p].pc \in Restoring PROVE op'[p].shot \in rows'
    <3>1. p # o
      BY <1>6, <1>9, <2>3 DEF Restoring
    <3> QED
      BY <1>3, <1>9, <2>3, <3>1 DEF SnapshotsInv, KeysAreKept
  <2> QED
    BY <1>3, <2>1, <2>2, <2>3 DEF KeysAreKept
<1>12. StagedInFlight'
  <2>1. q.pc \in InFlight
    BY <1>6 DEF InFlight
  <2> QED
    BY <1>1, <1>3, <1>6, <1>7, <2>1, StagedStep
<1>13. KeptIsBounded'
  <2>1. op'[o].pc = "prune"
    BY <1>1, <1>6, <1>9
  <2> QED
    BY <2>1 DEF KeptIsBounded
<1>14. SnapshotsShapes'
  <2>1. op' \in [Ops -> Operations]
    BY <1>6, <1>7
  <2>2. archives' \in SUBSET Objects
    BY <1>4, <1>5, <1>7
  <2>3. IsFiniteSet(archives')
    BY <1>4, <1>7, FS_AddElement
  <2> QED
    BY <1>3, <2>1, <2>2, <2>3 DEF SnapshotsInv, SnapshotsShapes
<1> QED
  BY <1>11, <1>12, <1>13, <1>14 DEF SnapshotsInv

\* What a capture leaves once it has listed its scope fits the retention, whatever
\* the other captures are deleting.
LEMMA ListExpiredKeeps ==
    ASSUME SnapshotsInv, NEW o \in Captures, ListExpired(o)
    PROVE  SnapshotsInv'
<1> USE SnapshotFacts
<1>1. o \in Ops /\ op[o] \in Operations /\ op[o].pc = "prune"
  BY DEF ListExpired, At
<1>2. UNCHANGED <<machine, home, archives, rows, staged, clock, budget>>
  BY DEF ListExpired
<1>3. archives \in SUBSET Objects /\ IsFiniteSet(archives)
  BY DEF SnapshotsInv, SnapshotsShapes
<1>4. Expired(archives) \in SUBSET archives
  BY DEF Expired
<1>5. Expired(archives) \in SUBSET Objects
  BY <1>3, <1>4
<1> DEFINE q == [op[o] EXCEPT !.pc = "delete", !.expired = Expired(archives)]
<1>6. q \in Operations /\ q.pc = "delete" /\ q.shot = op[o].shot /\ q.expired = Expired(archives)
  BY ONLY <1>1, <1>5 DEF q, Operations
<1>7. op' = [op EXCEPT ![o] = q]
  BY DEF ListExpired
<1> HIDE DEF q
<1>8. q.pc \notin Restoring /\ q.pc \in InFlight
  BY <1>6 DEF Restoring, InFlight
<1>9. \A x \in archives : x.id = q.shot.id => x.at = q.shot.at
  BY <1>1, <1>6
<1>10. KeysAreKept'
  BY <1>1, <1>2, <1>6, <1>7, <1>8, <1>9, KeysStep
<1>11. StagedInFlight'
  BY <1>1, <1>2, <1>6, <1>7, <1>8, StagedStep
<1>12. SnapshotsShapes'
  <2>1. op' \in [Ops -> Operations]
    BY <1>6, <1>7
  <2> QED
    BY <1>2, <2>1 DEF SnapshotsInv, SnapshotsShapes
<1>13. KeptIsBounded'
  <2>1. op'[o] = q
    BY <1>1, <1>7
  <2>2. Kept' \in SUBSET (archives \ Expired(archives))
    <3> SUFFICES ASSUME NEW x \in Kept' PROVE x \in archives /\ x \notin Expired(archives)
      OBVIOUS
    <3> QED
      BY <1>2, <1>6, <2>1 DEF Kept
  <2> SUFFICES ASSUME Retention > 0 PROVE Cardinality(Kept') <= Retention
    BY DEF KeptIsBounded
  <2>3. \A x, y \in archives : x.id = y.id => x = y
    BY DEF SnapshotsInv, KeysAreKept
  <2>4. IsFiniteSet(archives \ Expired(archives)) /\ Cardinality(archives \ Expired(archives)) <= Retention
    BY <1>3, <2>3, PruneFits
  <2> HIDE DEF Kept, Expired
  <2>5. IsFiniteSet(Kept') /\ Cardinality(Kept') <= Cardinality(archives \ Expired(archives))
    BY <2>2, <2>4, FS_Subset
  <2>6. Cardinality(Kept') \in Nat /\ Cardinality(archives \ Expired(archives)) \in Nat /\ Retention \in Nat
    BY <2>4, <2>5, FS_CardinalityType, SnapshotAssumption
  <2> QED
    BY <2>4, <2>5, <2>6
<1> QED
  BY <1>10, <1>11, <1>12, <1>13 DEF SnapshotsInv

\* Deleting an object by its key takes it out of storage and off the list at once.
LEMMA DeleteKeeps ==
    ASSUME SnapshotsInv, NEW o \in Captures, Delete(o)
    PROVE  SnapshotsInv'
<1> USE SnapshotFacts
<1>1. o \in Ops /\ op[o] \in Operations /\ op[o].pc = "delete"
  BY DEF Delete, At
<1>2. PICK x \in op[o].expired :
        /\ archives' = {y \in archives : y.id # x.id}
        /\ op' = [op EXCEPT ![o].expired = @ \ {x}]
  BY DEF Delete
<1>3. UNCHANGED <<machine, home, rows, staged, clock, budget>>
  BY DEF Delete
<1> DEFINE q == [op[o] EXCEPT !.expired = @ \ {x}]
<1>4. /\ q \in Operations /\ q.pc = "delete" /\ q.shot = op[o].shot /\ q.expired = op[o].expired \ {x}
  BY ONLY <1>1 DEF q, Operations
<1>5. op' = [op EXCEPT ![o] = q]
  BY <1>2
<1> HIDE DEF q
<1>6. \A p \in Ops : op'[p] = IF p = o THEN q ELSE op[p]
  BY <1>1, <1>5
<1>7. \A p \in Ops : op'[p].pc = op[p].pc /\ op'[p].shot = op[p].shot
  BY <1>1, <1>4, <1>6
<1>8. archives' \in SUBSET archives
  BY <1>2
<1>9. KeysAreKept'
  <2>1. \A p \in Captures : op'[p].shot = op[p].shot
    BY <1>7
  <2>2. \A u, y \in archives' : u.id = y.id => u = y
    BY <1>8 DEF SnapshotsInv, KeysAreKept
  <2>3. ASSUME NEW u \in archives', NEW y \in rows' \cup {op'[p].shot : p \in Captures}, u.id = y.id
        PROVE  u.at = y.at
    <3>1. y \in rows \cup {op[p].shot : p \in Captures}
      BY <1>3, <2>1, <2>3
    <3> QED
      BY <1>8, <2>3, <3>1 DEF SnapshotsInv, KeysAreKept
  <2>4. \A p \in Ops : op'[p].pc \in Restoring => op'[p].shot \in rows'
    BY <1>3, <1>7 DEF SnapshotsInv, KeysAreKept
  <2> QED
    BY <2>2, <2>3, <2>4 DEF KeysAreKept
<1>10. StagedInFlight'
  <2>1. q.pc \in InFlight
    BY <1>4 DEF InFlight
  <2> QED
    BY <1>1, <1>3, <1>4, <1>5, <2>1, StagedStep
<1>11. KeptIsBounded'
  <2>1. ASSUME NEW z \in Kept' PROVE z \in Kept
    <3>1. z \in archives /\ z.id # x.id
      BY <1>2 DEF Kept
    <3>2. ASSUME NEW p \in Captures, op[p].pc = "delete", NEW y \in op[p].expired PROVE y.id # z.id
      <4>1. op'[p].pc = "delete"
        BY <1>7, <3>2
      <4>2. CASE y \in op'[p].expired
        BY <4>1, <4>2 DEF Kept
      <4>3. CASE y \notin op'[p].expired
        <5>1. p = o /\ y = x
          BY <1>4, <1>6, <3>2, <4>3
        <5> QED
          BY <3>1, <5>1
      <4> QED
        BY <4>2, <4>3
    <3> QED
      BY <3>1, <3>2 DEF Kept
  <2>2. \A p \in Captures : op[p].pc = "prune" => op'[p].pc = "prune"
    BY <1>7
  <2> QED
    BY <1>3, <2>1, <2>2, KeptStep
<1>12. SnapshotsShapes'
  <2>1. op' \in [Ops -> Operations]
    BY <1>4, <1>5
  <2>2. archives' \in SUBSET Objects /\ IsFiniteSet(archives')
    BY <1>8, FS_Subset DEF SnapshotsInv, SnapshotsShapes
  <2> QED
    BY <1>3, <2>1, <2>2 DEF SnapshotsInv, SnapshotsShapes
<1> QED
  BY <1>9, <1>10, <1>11, <1>12 DEF SnapshotsInv

LEMMA CapturedKeeps ==
    ASSUME SnapshotsInv, NEW o \in Captures, Captured(o)
    PROVE  SnapshotsInv'
<1> USE SnapshotFacts
<1>1. o \in Ops /\ op[o] \in Operations /\ op[o].pc = "delete" /\ op[o].expired = {}
  BY DEF Captured, At
<1> DEFINE q == [op[o] EXCEPT !.pc = "record"]
<1>2. q \in Operations /\ q.pc = "record" /\ q.shot = op[o].shot
  BY ONLY <1>1 DEF q, Operations
<1>3. op' = [op EXCEPT ![o] = q] /\ UNCHANGED <<machine, home, archives, rows, clock, budget>>
  BY DEF Captured
<1>4. \A s \in staged' : s \in staged /\ s.of # o
  BY DEF Captured, Unstage
<1> HIDE DEF q
<1>5. q.pc \notin Restoring
  BY <1>2 DEF Restoring
<1>6. /\ machine' \in {"gone", "stopped", "running"} /\ home' \in SUBSET Files
      /\ budget' \in Budgets /\ budget'.crashes = budget.crashes /\ budget'.faults <= budget.faults
  BY <1>3
<1>7. \A x \in archives : x.id = q.shot.id => x.at = q.shot.at
  BY <1>1, <1>2
<1>8. op[o].pc # "prune" /\ q.pc # "delete"
  BY <1>1, <1>2
<1> QED
  BY <1>1, <1>2, <1>3, <1>4, <1>5, <1>6, <1>7, <1>8, OpStep

\* The row that is written is the handle of the capture that stored the object.
LEMMA RecordKeeps ==
    ASSUME SnapshotsInv, NEW o \in Captures, Record(o)
    PROVE  SnapshotsInv'
<1> USE SnapshotFacts
<1>1. o \in Ops /\ op[o] \in Operations /\ op[o].pc = "record" /\ op[o].shot \in Shots
  BY DEF Record, At
<1>2. rows' = rows \cup {op[o].shot} /\ UNCHANGED <<machine, home, archives, staged, clock, budget>>
  BY DEF Record
<1> DEFINE q == [op[o] EXCEPT !.pc = "done", !.result = "ok"]
<1>3. q \in Operations /\ q.pc = "done" /\ q.shot = op[o].shot
  BY ONLY <1>1 DEF q, Operations
<1>4. op' = [op EXCEPT ![o] = q]
  BY DEF Record
<1> HIDE DEF q
<1>5. \A p \in Ops : op'[p] = IF p = o THEN q ELSE op[p]
  BY <1>1, <1>4
<1>6. \A p \in Ops : op'[p].shot = op[p].shot
  BY <1>3, <1>5
<1>7. KeysAreKept'
  <2>1. \A p \in Captures : op'[p].shot = op[p].shot
    BY <1>6
  <2>2. \A u, y \in archives' : u.id = y.id => u = y
    BY <1>2 DEF SnapshotsInv, KeysAreKept
  <2>3. ASSUME NEW u \in archives', NEW y \in rows' \cup {op'[p].shot : p \in Captures}, u.id = y.id
        PROVE  u.at = y.at
    <3>1. y \in rows \cup {op[p].shot : p \in Captures}
      BY <1>2, <2>1, <2>3
    <3> QED
      BY <1>2, <2>3, <3>1 DEF SnapshotsInv, KeysAreKept
  <2>4. ASSUME NEW p \in Ops, op'[p].pc \in Restoring PROVE op'[p].shot \in rows'
    <3>1. p # o
      BY <1>3, <1>5, <2>4 DEF Restoring
    <3> QED
      BY <1>2, <1>5, <2>4, <3>1 DEF SnapshotsInv, KeysAreKept
  <2> QED
    BY <2>2, <2>3, <2>4 DEF KeysAreKept
<1>8. StagedInFlight'
  <2>1. budget.crashes = MaxCrashes => \A s \in staged : s.of # o
    BY <1>1, NotStaged DEF InFlight
  <2> QED
    BY <1>1, <1>2, <1>3, <1>4, <2>1, StagedStep
<1>9. KeptIsBounded'
  <2>1. \A p \in Captures : op'[p] = op[p] \/ (op[p].pc = "record" /\ op'[p].pc = "done")
    BY <1>1, <1>3, <1>5
  <2>2. \A x \in Kept' : x \in Kept
    BY <1>2, <2>1 DEF Kept
  <2>3. \A p \in Captures : op[p].pc = "prune" => op'[p].pc = "prune"
    BY <2>1
  <2> QED
    BY <1>2, <2>2, <2>3, KeptStep
<1>10. SnapshotsShapes'
  <2>1. op' \in [Ops -> Operations]
    BY <1>3, <1>4
  <2>2. rows' \in SUBSET Shots
    BY <1>1, <1>2 DEF SnapshotsInv, SnapshotsShapes
  <2> QED
    BY <1>2, <2>1, <2>2 DEF SnapshotsInv, SnapshotsShapes
<1> QED
  BY <1>7, <1>8, <1>9, <1>10 DEF SnapshotsInv

\* A restore holds the row it was asked for.
LEMMA RestoreKeeps ==
    ASSUME SnapshotsInv, NEW o \in Restores, NEW handle \in rows, Restore(o, handle)
    PROVE  SnapshotsInv'
<1> USE SnapshotFacts
<1>1. o \in Ops /\ op[o] \in Operations /\ op[o].pc = "new"
  BY DEF Restore, At
<1>2. handle \in Shots
  BY DEF SnapshotsInv, SnapshotsShapes
<1> DEFINE q == [op[o] EXCEPT !.pc = "read", !.shot = handle]
<1>3. q \in Operations /\ q.pc = "read" /\ q.shot = handle
  BY ONLY <1>1, <1>2 DEF q, Operations
<1>4. op' = [op EXCEPT ![o] = q] /\ UNCHANGED <<machine, home, archives, rows, staged, clock, budget>>
  BY DEF Restore
<1> HIDE DEF q
<1>5. \A x \in archives : x.id = q.shot.id => x.at = q.shot.at
  BY <1>3 DEF SnapshotsInv, KeysAreKept
<1>6. /\ machine' \in {"gone", "stopped", "running"} /\ home' \in SUBSET Files
      /\ budget' \in Budgets /\ budget'.crashes = budget.crashes /\ budget'.faults <= budget.faults
  BY <1>4
<1>7. budget.crashes = MaxCrashes => \A s \in staged' : s.of # o
  BY <1>1, <1>4, NotStaged DEF InFlight
<1>8. op[o].pc # "prune" /\ op[o].pc # "delete" /\ q.pc # "delete"
  BY <1>1, <1>3
<1> QED
  BY <1>1, <1>3, <1>4, <1>5, <1>6, <1>7, <1>8, OpStep

\* An archive that passes the verification is the row's, its time included: a key
\* names one object, and the row knows when it was written.
LEMMA ReadIsTheRow ==
    ASSUME SnapshotsInv, NEW o \in Ops, op[o].pc = "read",
           \E x \in Named(o) : x.content = op[o].shot.content
    PROVE  (CHOOSE x \in Named(o) : TRUE) = op[o].shot
<1>1. op[o].shot \in rows
  BY DEF SnapshotsInv, KeysAreKept, Restoring
<1>2. PICK x \in Named(o) : x.content = op[o].shot.content
  OBVIOUS
<1>3. x \in archives /\ x.id = op[o].shot.id
  BY DEF Named
<1>4. x.at = op[o].shot.at
  BY <1>1, <1>3 DEF SnapshotsInv, KeysAreKept
<1>5. x = op[o].shot
  <2>1. /\ x \in [id : SnapshotIds, content : (SUBSET Files) \cup {Altered}, at : 0 .. MaxClock]
        /\ op[o].shot \in [id : SnapshotIds \cup {0}, content : SUBSET Files, at : 0 .. MaxClock]
    BY <1>1, <1>3 DEF SnapshotsInv, SnapshotsShapes, Objects, Shots
  <2> QED
    BY <1>2, <1>3, <1>4, <2>1
<1>6. \A y \in Named(o) : y = x
  BY <1>3 DEF Named, SnapshotsInv, KeysAreKept
<1>7. (CHOOSE y \in Named(o) : TRUE) \in Named(o)
  BY <1>2
<1> QED
  BY <1>5, <1>6, <1>7

LEMMA ReadKeeps ==
    ASSUME SnapshotsInv, NEW o \in Restores, Read(o)
    PROVE  SnapshotsInv'
<1> USE SnapshotFacts
<1>1. o \in Ops /\ op[o] \in Operations /\ op[o].pc = "read" /\ op[o].shot \in Shots
  BY DEF Read, At
<1>2. UNCHANGED <<machine, home, archives, rows, clock, budget>>
  BY DEF Read
<1>3. CASE \E x \in Named(o) : x.content = op[o].shot.content
  <2>1. /\ op' = [op EXCEPT ![o].pc = "remove", ![o].shot = CHOOSE x \in Named(o) : TRUE]
        /\ staged' = staged \cup {[of |-> o, old |-> FALSE]}
    BY <1>3 DEF Read
  <2>2. (CHOOSE x \in Named(o) : TRUE) = op[o].shot
    BY <1>1, <1>3, ReadIsTheRow
  <2> DEFINE q == [op[o] EXCEPT !.pc = "remove", !.shot = op[o].shot]
  <2>3. q \in Operations /\ q.pc = "remove" /\ q.shot = op[o].shot
    BY ONLY <1>1 DEF q, Operations
  <2>4. op' = [op EXCEPT ![o] = q]
    BY <2>1, <2>2
  <2> HIDE DEF q
  <2>5. q.pc \in InFlight /\ q.shot \in rows
    BY <1>1, <2>3 DEF InFlight, SnapshotsInv, KeysAreKept, Restoring
  <2>6. \A s \in staged' : s \in staged \/ s = [of |-> o, old |-> FALSE]
    BY <2>1
  <2>7. /\ machine' \in {"gone", "stopped", "running"} /\ home' \in SUBSET Files
        /\ budget' \in Budgets /\ budget'.crashes = budget.crashes /\ budget'.faults <= budget.faults
    BY <1>2
  <2>8. o \in Captures => \A x \in archives : x.id = q.shot.id => x.at = q.shot.at
    BY <1>1, <2>3
  <2>9. op[o].pc # "prune" /\ op[o].pc # "delete" /\ q.pc # "delete"
    BY <1>1, <2>3
  <2> QED
    BY <1>1, <1>2, <2>3, <2>4, <2>5, <2>6, <2>7, <2>8, <2>9, OpStep
<1>4. CASE ~\E x \in Named(o) : x.content = op[o].shot.content
  <2>1. Fail(o) /\ staged' = staged
    BY <1>4 DEF Read
  <2>2. budget.crashes = MaxCrashes => \A s \in staged : s.of # o
    BY <1>1, NotStaged DEF InFlight
  <2> QED
    BY <1>1, <1>2, <2>1, <2>2, FailStep
<1> QED
  BY <1>3, <1>4

\* A restore that goes on to its next step keeps its row.
LEMMA RestoreStep ==
    ASSUME SnapshotsInv, NEW o \in Restores, NEW next \in {"create", "write", "start", "done"},
           NEW result \in {"none", "ok", "failed"},
           op[o].pc \in {"remove", "create", "write", "start"},
           op' = [op EXCEPT ![o] = [op[o] EXCEPT !.pc = next, !.result = result]],
           machine' \in {"gone", "stopped", "running"}, home' \in SUBSET Files,
           UNCHANGED <<archives, rows, clock, budget>>, \A s \in staged' : s \in staged,
           next = "done" => \A s \in staged' : s.of # o
    PROVE  SnapshotsInv'
<1> USE SnapshotFacts
<1>1. o \in Ops /\ op[o] \in Operations
  OBVIOUS
<1> DEFINE q == [op[o] EXCEPT !.pc = next, !.result = result]
<1>2. q \in Operations /\ q.pc = next /\ q.shot = op[o].shot
  BY ONLY <1>1, next \in {"create", "write", "start", "done"}, result \in {"none", "ok", "failed"}
     DEF q, Operations
<1>3. op' = [op EXCEPT ![o] = q]
  OBVIOUS
<1> HIDE DEF q
<1>4. next # "done" => q.pc \in InFlight
  BY <1>2 DEF InFlight
<1>5. op[o].shot \in rows
  BY <1>1 DEF SnapshotsInv, KeysAreKept, Restoring
<1>6. budget' \in Budgets /\ budget'.crashes = budget.crashes /\ budget'.faults <= budget.faults
  OBVIOUS
<1>7. o \in Captures => \A x \in archives : x.id = q.shot.id => x.at = q.shot.at
  BY <1>1, <1>2
<1>8. op[o].pc # "prune" /\ op[o].pc # "delete" /\ q.pc # "delete"
  BY <1>2
<1> QED
  BY <1>1, <1>2, <1>3, <1>4, <1>5, <1>6, <1>7, <1>8, OpStep

LEMMA ReplaceKeeps ==
    ASSUME SnapshotsInv, NEW o \in Restores, RemoveOld(o) \/ CreateNew(o) \/ WriteHome(o) \/ StartNew(o)
    PROVE  SnapshotsInv'
<1> USE SnapshotFacts
<1>1. o \in Ops /\ op[o] \in Operations /\ op[o].result \in {"none", "ok", "failed"}
  BY DEF Operations
<1>2. \A pc : [op[o] EXCEPT !.pc = pc] = [op[o] EXCEPT !.pc = pc, !.result = op[o].result]
  BY <1>1 DEF Operations
<1>3. CASE RemoveOld(o)
  <2>1. /\ op[o].pc = "remove" /\ op' = [op EXCEPT ![o] = [op[o] EXCEPT !.pc = "create"]]
        /\ machine' = "gone" /\ UNCHANGED <<home, archives, rows, staged, clock, budget>>
    BY <1>3 DEF RemoveOld, At
  <2>2. op' = [op EXCEPT ![o] = [op[o] EXCEPT !.pc = "create", !.result = op[o].result]]
    BY <1>2, <2>1
  <2> QED
    BY <1>1, <2>1, <2>2, RestoreStep
<1>4. CASE CreateNew(o)
  <2>1. /\ op[o].pc = "create" /\ op' = [op EXCEPT ![o] = [op[o] EXCEPT !.pc = "write"]]
        /\ machine' = (IF machine = "gone" THEN "stopped" ELSE machine)
        /\ UNCHANGED <<home, archives, rows, staged, clock, budget>>
    BY <1>4 DEF CreateNew, At
  <2>2. op' = [op EXCEPT ![o] = [op[o] EXCEPT !.pc = "write", !.result = op[o].result]]
    BY <1>2, <2>1
  <2> QED
    BY <1>1, <2>1, <2>2, RestoreStep
<1>5. CASE WriteHome(o) /\ machine = "gone"
  <2>1. Fail(o) /\ op[o].pc = "write" /\ UNCHANGED <<machine, home, archives, rows, clock, budget>>
    BY <1>5 DEF WriteHome, At
  <2>2. \A s \in staged' : s \in staged /\ s.of # o
    BY <1>5 DEF WriteHome, Unstage
  <2> QED
    BY <1>1, <2>1, <2>2, FailStep
<1>6. CASE WriteHome(o) /\ machine # "gone"
  <2>1. /\ op[o].pc = "write" /\ op' = [op EXCEPT ![o] = [op[o] EXCEPT !.pc = "start"]]
        /\ home' = home \cup op[o].shot.content
        /\ UNCHANGED <<machine, archives, rows, staged, clock, budget>>
    BY <1>6 DEF WriteHome, At
  <2>2. op' = [op EXCEPT ![o] = [op[o] EXCEPT !.pc = "start", !.result = op[o].result]]
    BY <1>2, <2>1
  <2>3. home' \in SUBSET Files
    BY <1>1, <2>1 DEF Operations, Shots
  <2> QED
    BY <1>1, <2>1, <2>2, <2>3, RestoreStep
<1>7. CASE StartNew(o) /\ machine = "gone"
  <2>1. Fail(o) /\ op[o].pc = "start" /\ UNCHANGED <<machine, home, archives, rows, clock, budget>>
    BY <1>7 DEF StartNew, At
  <2>2. \A s \in staged' : s \in staged /\ s.of # o
    BY <1>7 DEF StartNew, Unstage
  <2> QED
    BY <1>1, <2>1, <2>2, FailStep
<1>8. CASE StartNew(o) /\ machine # "gone"
  <2>1. /\ op[o].pc = "start"
        /\ op' = [op EXCEPT ![o] = [op[o] EXCEPT !.pc = "done", !.result = "ok"]]
        /\ machine' = "running" /\ UNCHANGED <<home, archives, rows, clock, budget>>
    BY <1>8 DEF StartNew, At
  <2>2. \A s \in staged' : s \in staged /\ s.of # o
    BY <1>8 DEF StartNew, Unstage
  <2> QED
    BY <1>1, <2>1, <2>2, RestoreStep
<1> QED
  BY <1>3, <1>4, <1>5, <1>6, <1>7, <1>8

LEMMA RefuseKeeps ==
    ASSUME SnapshotsInv, NEW o \in Ops, Refuse(o)
    PROVE  SnapshotsInv'
<1> USE SnapshotFacts
<1>1. /\ Fail(o) /\ UNCHANGED <<home, archives, rows, clock>> /\ budget.faults > 0
      /\ budget' = [budget EXCEPT !.faults = @ - 1]
      /\ machine' = IF o \in Restores /\ op[o].pc \in {"write", "start"} THEN "gone" ELSE machine
  BY DEF Refuse
<1>2. \A s \in staged' : s \in staged /\ s.of # o
  BY DEF Refuse, Unstage
<1>3. budget' \in Budgets /\ budget'.crashes = budget.crashes /\ budget'.faults = budget.faults - 1
  BY <1>1, SnapshotAssumption DEF Budgets
<1>4. budget'.faults # MaxFaults /\ budget'.faults <= budget.faults
  BY <1>3, SnapshotAssumption DEF Budgets
<1>5. machine' \in {"gone", "stopped", "running"}
  BY <1>1
<1> QED
  BY <1>1, <1>2, <1>3, <1>4, <1>5, FailStep

\* A crash ends what the supervisor was doing; what the API knows stays.
LEMMA CrashKeeps ==
    ASSUME SnapshotsInv, Crash
    PROVE  SnapshotsInv'
<1> USE SnapshotFacts
<1>1. /\ budget' = [budget EXCEPT !.crashes = @ - 1, !.pass = "due"] /\ budget.crashes > 0
      /\ UNCHANGED <<machine, home, archives, rows, staged, clock>>
  BY DEF Crash
<1> DEFINE Dead(p) == [op[p] EXCEPT !.pc = "done", !.result = "failed", !.expired = {}]
<1>2. op' = [p \in Ops |-> IF op[p].pc \in {"new", "done", "record"} THEN op[p] ELSE Dead(p)]
  BY DEF Crash
<1>3. \A p \in Ops : Dead(p) \in Operations /\ Dead(p).pc = "done" /\ Dead(p).shot = op[p].shot
  <2> SUFFICES ASSUME NEW p \in Ops
               PROVE  Dead(p) \in Operations /\ Dead(p).pc = "done" /\ Dead(p).shot = op[p].shot
    OBVIOUS
  <2>1. op[p] \in Operations
    OBVIOUS
  <2> QED
    BY ONLY <2>1 DEF Operations
<1> HIDE DEF Dead
<1>4. \A p \in Ops : op'[p] \in Operations /\ op'[p].shot = op[p].shot /\ op'[p].pc \notin Restoring
  BY <1>2, <1>3 DEF Restoring
<1>5. budget' \in Budgets /\ budget'.crashes # MaxCrashes
  <2>1. MaxCrashes \in Nat /\ budget \in Budgets /\ budget.crashes \in 0 .. MaxCrashes
    BY SnapshotAssumption DEF Budgets
  <2>2. budget.crashes - 1 \in 0 .. MaxCrashes /\ budget.crashes - 1 # MaxCrashes
    BY <1>1, <2>1
  <2>3. budget' \in Budgets
    BY ONLY <1>1, <2>1, <2>2 DEF Budgets
  <2>4. budget'.crashes = budget.crashes - 1
    BY ONLY <1>1, <2>1 DEF Budgets
  <2> QED
    BY <2>2, <2>3, <2>4
<1>6. StagedInFlight' /\ KeptIsBounded'
  BY <1>5 DEF StagedInFlight, KeptIsBounded
<1>7. KeysAreKept'
  <2>1. {op'[p].shot : p \in Captures} = {op[p].shot : p \in Captures}
    BY <1>4
  <2>2. \A x, y \in archives' : x.id = y.id => x = y
    BY <1>1 DEF SnapshotsInv, KeysAreKept
  <2>3. \A x \in archives', y \in rows' \cup {op'[p].shot : p \in Captures} : x.id = y.id => x.at = y.at
    BY <1>1, <2>1 DEF SnapshotsInv, KeysAreKept
  <2> QED
    BY <1>4, <2>2, <2>3 DEF KeysAreKept
<1>8. SnapshotsShapes'
  <2>1. op' \in [Ops -> Operations]
    BY <1>2, <1>4
  <2> QED
    BY <1>1, <1>5, <2>1 DEF SnapshotsInv, SnapshotsShapes
<1> QED
  BY <1>6, <1>7, <1>8 DEF SnapshotsInv

\* A step that moves no request and only takes objects out of storage.
LEMMA FewerKeeps ==
    ASSUME SnapshotsInv, archives' \in SUBSET archives, UNCHANGED <<rows, op>>,
           machine' \in {"gone", "stopped", "running"}, home' \in SUBSET Files,
           clock' \in 0 .. MaxClock, budget' \in Budgets,
           budget'.crashes = budget.crashes, budget'.faults = budget.faults,
           staged' \in SUBSET [of : Ops, old : BOOLEAN],
           \A s \in staged' : \E r \in staged : s.of = r.of
    PROVE  SnapshotsInv'
<1>1. KeysAreKept'
  BY DEF SnapshotsInv, KeysAreKept
<1>2. StagedInFlight'
  BY DEF SnapshotsInv, StagedInFlight
<1>3. KeptIsBounded'
  <2>1. \A x \in Kept' : x \in Kept
    BY DEF Kept
  <2> QED
    BY <2>1, KeptStep
<1>4. SnapshotsShapes'
  <2>1. archives' \in SUBSET Objects /\ IsFiniteSet(archives')
    BY FS_Subset DEF SnapshotsInv, SnapshotsShapes
  <2> QED
    BY <2>1 DEF SnapshotsInv, SnapshotsShapes
<1> QED
  BY <1>1, <1>2, <1>3, <1>4 DEF SnapshotsInv

\* The boot pass, the calendar, and what the bot and the next run do to the machine.
LEMMA AroundKeeps ==
    ASSUME SnapshotsInv, BootPass \/ EditHome \/ StoreClock \/ DayPasses \/ Boot
    PROVE  SnapshotsInv'
<1> USE SnapshotFacts
<1>0. clock \in 0 .. MaxClock /\ MaxClock \in Nat
  BY SnapshotAssumption DEF SnapshotsInv, SnapshotsShapes
<1>1. CASE BootPass
  <2>1. archives' \in SUBSET archives /\ UNCHANGED <<machine, home, rows, op, clock>>
    BY <1>1 DEF BootPass
  <2>2. budget' \in Budgets /\ budget'.crashes = budget.crashes /\ budget'.faults = budget.faults
    BY <1>1 DEF BootPass, Budgets
  <2>3. staged' \in SUBSET staged
    BY <1>1 DEF BootPass
  <2> QED
    BY <1>0, <2>1, <2>2, <2>3, FewerKeeps
<1>2. CASE EditHome
  <2>1. home' \in SUBSET Files /\ UNCHANGED <<machine, archives, rows, staged, op, clock, budget>>
    BY <1>2 DEF EditHome
  <2> QED
    BY <1>0, <2>1, FewerKeeps
<1>3. CASE StoreClock
  <2>1. clock' \in 0 .. MaxClock /\ UNCHANGED <<machine, home, archives, rows, staged, op, budget>>
    BY <1>0, <1>3 DEF StoreClock
  <2> QED
    BY <2>1, FewerKeeps
<1>4. CASE DayPasses
  <2>1. /\ staged' = {[s EXCEPT !.old = op[s.of].pc = "done"] : s \in staged}
        /\ UNCHANGED <<machine, home, archives, rows, op, clock>>
    BY <1>4 DEF DayPasses
  <2>2. budget' \in Budgets /\ budget'.crashes = budget.crashes /\ budget'.faults = budget.faults
    BY <1>4, SnapshotAssumption DEF DayPasses, Budgets
  <2>3. ASSUME NEW r \in staged
        PROVE  /\ [r EXCEPT !.old = op[r.of].pc = "done"] \in [of : Ops, old : BOOLEAN]
               /\ [r EXCEPT !.old = op[r.of].pc = "done"].of = r.of
    <3>1. r \in [of : Ops, old : BOOLEAN]
      OBVIOUS
    <3>2. (op[r.of].pc = "done") \in BOOLEAN
      OBVIOUS
    <3> DEFINE after == op[r.of].pc = "done"
    <3>3. after \in BOOLEAN
      BY <3>2
    <3> HIDE DEF after
    <3>4. [r EXCEPT !.old = after] \in [of : Ops, old : BOOLEAN] /\ [r EXCEPT !.old = after].of = r.of
      BY <3>1, <3>3
    <3> QED
      BY <3>4 DEF after
  <2>4. staged' \in SUBSET [of : Ops, old : BOOLEAN] /\ \A s \in staged' : \E r \in staged : s.of = r.of
    BY <2>1, <2>3
  <2> QED
    BY <1>0, <2>1, <2>2, <2>4, FewerKeeps
<1>5. CASE Boot
  <2>1. machine' = "running" /\ UNCHANGED <<home, archives, rows, staged, op, clock, budget>>
    BY <1>5 DEF Boot
  <2> QED
    BY <1>0, <2>1, FewerKeeps
<1> QED
  BY <1>1, <1>2, <1>3, <1>4, <1>5

\* An altered object keeps its key and its time, and is kept when it was before.
LEMMA AlterKeeps ==
    ASSUME SnapshotsInv, Alter
    PROVE  SnapshotsInv'
<1> USE SnapshotFacts
<1>1. PICK x \in archives : archives' = (archives \ {x}) \cup {[x EXCEPT !.content = Altered]}
  BY DEF Alter
<1>2. UNCHANGED <<machine, home, rows, staged, op, clock>>
  BY DEF Alter
<1>3. budget' \in Budgets /\ budget'.crashes = budget.crashes /\ budget'.faults = budget.faults
  BY SnapshotAssumption DEF Alter, Budgets
<1>4. archives \in SUBSET Objects /\ IsFiniteSet(archives)
  BY DEF SnapshotsInv, SnapshotsShapes
<1> DEFINE z == [x EXCEPT !.content = Altered]
<1>5. z \in Objects /\ z.id = x.id /\ z.at = x.at
  <2>1. x \in Objects
    BY <1>1, <1>4
  <2> QED
    BY ONLY <2>1 DEF z, Objects
<1>6. archives' = (archives \ {x}) \cup {z}
  BY <1>1
<1> HIDE DEF z
<1>7. \A u, y \in archives : u.id = y.id => u = y
  BY DEF SnapshotsInv, KeysAreKept
<1>8. KeysAreKept'
  <2>1. \A u, y \in archives' : u.id = y.id => u = y
    BY <1>1, <1>5, <1>6, <1>7
  <2>2. \A u \in archives' : \E y \in archives : u.id = y.id /\ u.at = y.at
    BY <1>1, <1>5, <1>6
  <2>3. \A u \in archives', y \in rows \cup {op[p].shot : p \in Captures} : u.id = y.id => u.at = y.at
    BY <2>2 DEF SnapshotsInv, KeysAreKept
  <2>4. \A p \in Ops : op[p].pc \in Restoring => op[p].shot \in rows
    BY DEF SnapshotsInv, KeysAreKept
  <2> QED
    BY <1>2, <2>1, <2>3, <2>4 DEF KeysAreKept
<1>9. StagedInFlight'
  BY <1>2, <1>3 DEF SnapshotsInv, StagedInFlight
<1>10. KeptIsBounded'
  <2> SUFFICES ASSUME budget.crashes = MaxCrashes, budget.faults = MaxFaults, Retention > 0,
                      \A p \in Captures : op[p].pc # "prune"
               PROVE  Cardinality(Kept') <= Retention
    BY <1>2, <1>3 DEF KeptIsBounded
  <2>1. Cardinality(Kept) <= Retention
    BY DEF SnapshotsInv, KeptIsBounded
  <2>2. Kept \in SUBSET archives
    BY DEF Kept
  <2>3. \A u \in Kept' : u = z \/ u \in Kept \ {x}
    BY <1>2, <1>6 DEF Kept
  <2>4. z \in Kept' => x \in Kept
    BY <1>1, <1>2, <1>5 DEF Kept
  <2>5. Retention \in Nat
    BY SnapshotAssumption
  <2>6. CASE x \in Kept
    <3>1. Kept' \in SUBSET ((Kept \ {x}) \cup {z})
      BY <2>3
    <3> HIDE DEF Kept
    <3>2. IsFiniteSet(Kept)
      BY <1>4, <2>2, FS_Subset
    <3>3. IsFiniteSet(Kept \ {x}) /\ Cardinality(Kept \ {x}) = Cardinality(Kept) - 1
      BY <2>6, <3>2, FS_RemoveElement
    <3>4. /\ IsFiniteSet((Kept \ {x}) \cup {z})
          /\ Cardinality((Kept \ {x}) \cup {z}) <= Cardinality(Kept \ {x}) + 1
      <4>1. Cardinality(Kept \ {x}) \in Nat
        BY <3>3, FS_CardinalityType
      <4>2. CASE z \in Kept \ {x}
        <5>1. (Kept \ {x}) \cup {z} = Kept \ {x}
          BY <4>2
        <5> QED
          BY <3>3, <4>1, <5>1
      <4>3. CASE z \notin Kept \ {x}
        <5> DEFINE T == Kept \ {x}
        <5>1. IsFiniteSet(T) /\ z \notin T /\ Cardinality(T) \in Nat
          BY <3>3, <4>1, <4>3
        <5> HIDE DEF T
        <5>2. IsFiniteSet(T \cup {z}) /\ Cardinality(T \cup {z}) = Cardinality(T) + 1
          BY <5>1, FS_AddElement
        <5>3. Cardinality(T \cup {z}) <= Cardinality(T) + 1
          BY <5>1, <5>2
        <5> QED
          BY <5>2, <5>3 DEF T
      <4> QED
        BY <4>2, <4>3
    <3>5. IsFiniteSet(Kept') /\ Cardinality(Kept') <= Cardinality((Kept \ {x}) \cup {z})
      BY <3>1, <3>4, FS_Subset
    <3>6. /\ Cardinality(Kept') \in Nat /\ Cardinality(Kept) \in Nat
          /\ Cardinality((Kept \ {x}) \cup {z}) \in Nat /\ Cardinality(Kept \ {x}) \in Nat
      BY <3>2, <3>3, <3>4, <3>5, FS_CardinalityType
    <3> QED
      BY <2>1, <2>5, <3>3, <3>4, <3>5, <3>6
  <2>7. CASE x \notin Kept
    <3>1. Kept' \in SUBSET Kept
      BY <2>3, <2>4, <2>7
    <3> HIDE DEF Kept
    <3>2. IsFiniteSet(Kept)
      BY <1>4, <2>2, FS_Subset
    <3>3. IsFiniteSet(Kept') /\ Cardinality(Kept') <= Cardinality(Kept)
      BY <3>1, <3>2, FS_Subset
    <3>4. Cardinality(Kept') \in Nat /\ Cardinality(Kept) \in Nat
      BY <3>2, <3>3, FS_CardinalityType
    <3> QED
      BY <2>1, <2>5, <3>3, <3>4
  <2> QED
    BY <2>6, <2>7
<1>11. SnapshotsShapes'
  <2>1. archives' \in SUBSET Objects
    BY <1>4, <1>5, <1>6
  <2>2. IsFiniteSet(archives')
    <3>1. IsFiniteSet(archives \ {x})
      BY <1>4, FS_Subset
    <3> QED
      BY <1>6, <3>1, FS_AddElement
  <2> QED
    BY <1>2, <1>3, <2>1, <2>2 DEF SnapshotsInv, SnapshotsShapes
<1> QED
  BY <1>8, <1>9, <1>10, <1>11 DEF SnapshotsInv

LEMMA SnapshotsStart == SnapshotsInit => SnapshotsInv
<1> SUFFICES ASSUME SnapshotsInit PROVE SnapshotsInv
  OBVIOUS
<1>1. Fresh \in Operations /\ Fresh.pc = "new"
  <2>1. NoArchive \in Shots
    BY SnapshotAssumption DEF NoArchive, Shots
  <2> QED
    BY <2>1 DEF Fresh, Operations
<1>2. op \in [Ops -> Operations] /\ \A o \in Ops : op[o].pc = "new"
  BY <1>1 DEF SnapshotsInit
<1>3. budget \in Budgets
  BY SnapshotAssumption DEF SnapshotsInit, Budgets
<1>4. IsFiniteSet({}) /\ Cardinality({}) = 0
  BY FS_EmptySet
<1>5. SnapshotsShapes
  <2>1. clock \in 0 .. MaxClock
    BY SnapshotAssumption DEF SnapshotsInit
  <2>2. /\ machine \in {"gone", "stopped", "running"} /\ home \in SUBSET Files
        /\ archives = {} /\ rows = {} /\ staged = {}
    BY DEF SnapshotsInit
  <2> QED
    BY <1>2, <1>3, <1>4, <2>1, <2>2 DEF SnapshotsShapes
<1>6. KeysAreKept
  BY <1>2 DEF SnapshotsInit, KeysAreKept, Restoring
<1>7. StagedInFlight
  BY DEF SnapshotsInit, StagedInFlight
<1>8. KeptIsBounded
  <2>1. Kept = {}
    BY DEF SnapshotsInit, Kept
  <2> QED
    BY <1>4, <2>1, SnapshotAssumption DEF KeptIsBounded
<1> QED
  BY <1>5, <1>6, <1>7, <1>8 DEF SnapshotsInv

LEMMA SnapshotsStay == SnapshotsInv /\ UNCHANGED snapshotsVars => SnapshotsInv'
<1> SUFFICES ASSUME SnapshotsInv, UNCHANGED snapshotsVars PROVE SnapshotsInv'
  OBVIOUS
<1>1. UNCHANGED <<machine, home, archives, rows, staged, op, clock, budget>>
  BY DEF snapshotsVars
<1>2. clock \in 0 .. MaxClock
  BY DEF SnapshotsInv, SnapshotsShapes
<1> QED
  BY <1>1, <1>2, SnapshotFacts, FewerKeeps

LEMMA SnapshotsStep == SnapshotsInv /\ SnapshotsNext => SnapshotsInv'
<1> SUFFICES ASSUME SnapshotsInv, SnapshotsNext PROVE SnapshotsInv'
  OBVIOUS
<1>1. \A o \in Captures \cup Restores : o \in Ops
  BY DEF Ops
<1>2. ASSUME NEW o \in Captures,
             \/ Capture(o) \/ Produce(o) \/ Put(o) \/ ListExpired(o)
             \/ Delete(o) \/ Captured(o) \/ Record(o) \/ Refuse(o)
      PROVE  SnapshotsInv'
  BY <1>1, <1>2, CaptureKeeps, ProduceKeeps, PutKeeps, ListExpiredKeeps, DeleteKeeps, CapturedKeeps,
     RecordKeeps, RefuseKeeps
<1>3. ASSUME NEW o \in Restores,
             \/ \E handle \in rows : Restore(o, handle)
             \/ Read(o) \/ RemoveOld(o) \/ CreateNew(o) \/ WriteHome(o) \/ StartNew(o) \/ Refuse(o)
      PROVE  SnapshotsInv'
  BY <1>1, <1>3, RestoreKeeps, ReadKeeps, ReplaceKeeps, RefuseKeeps
<1> QED
  BY <1>2, <1>3, CrashKeeps, AroundKeeps, AlterKeeps DEF SnapshotsNext

LEMMA SnapshotsAlways == SnapshotsSpec => []SnapshotsInv
BY SnapshotsStart, SnapshotsStay, SnapshotsStep, PTL DEF SnapshotsSpec

(* Captures and restores: at rest no more archives than the retention are kept,  *)
(* although captures overlap and each prunes a scope the others are changing; a  *)
(* restore touches the machine only with the very archive its row captured,      *)
(* although the object may be altered or pruned; and without a crash of the      *)
(* supervisor no home stays staged.                                              *)
THEOREM SnapshotsProved == SnapshotsSpec => []SnapshotsAreSound
<1>1. SnapshotsInv => SnapshotsAreSound
  <2> SUFFICES ASSUME SnapshotsInv PROVE SnapshotsAreSound
    OBVIOUS
  <2>1. SnapshotsTypeOK
    <3>1. \A x \in archives : x.id \in SnapshotIds /\ x.at \in 0 .. MaxClock
      BY DEF SnapshotsInv, SnapshotsShapes, Objects
    <3>2. \A o \in Ops : op[o].result \in {"none", "ok", "failed"}
      BY DEF SnapshotsInv, SnapshotsShapes, Operations
    <3> QED
      BY <3>1, <3>2, SnapshotFacts DEF SnapshotsTypeOK
  <2>2. ArchivesBounded
    <3> SUFFICES ASSUME Idle, budget.crashes = MaxCrashes, budget.faults = MaxFaults, Retention > 0
                 PROVE  Cardinality(archives) <= Retention
      BY DEF ArchivesBounded
    <3>1. \A o \in Captures : op[o].pc \in {"new", "done"}
      BY DEF Idle, Ops
    <3>2. Kept = archives
      BY <3>1 DEF Kept
    <3> QED
      BY <3>1, <3>2 DEF SnapshotsInv, KeptIsBounded
  <2>3. RestoresWhatWasCaptured
    BY DEF RestoresWhatWasCaptured, SnapshotsInv, KeysAreKept, Restoring, Ops
  <2>4. NothingStaysStaged
    BY DEF NothingStaysStaged, SnapshotsInv, StagedInFlight, InFlight
  <2> QED
    BY <2>1, <2>2, <2>3, <2>4 DEF SnapshotsAreSound
<1> QED
  BY <1>1, SnapshotsAlways, PTL

-----------------------------------------------------------------------------
(* What a request has left to do *)

LEMMA AfterFacts ==
    /\ After("findEnsure") = {"touch"} /\ After("adopt") = {"touch"} /\ After("proxyReady") = {"touch"}
    /\ After("findStop") = {"forget"} /\ After("seeStopped") = {"forget"}
    /\ After("findRemove") = {"findEnsure"} /\ After("dropNetwork") = {"findEnsure"}
    /\ After("findExec") = {"begin"} /\ After("begin") = {"running"}
    /\ After("seeLive") = {"putGrant"} /\ After("seeRevoke") = {"putTombstone"}
    /\ After("prepare") = {"makeBox"} /\ After("makeBox") = {"makeNewProxy"}
    /\ After("makeNewProxy") = {"joinNewProxy"} /\ After("joinNewProxy") = {"seeProxy"}
    /\ After("stopBox") = {"seeProxy"} /\ After("seeProxy") = {"dropProxy"}
    /\ After("dropProxy") = {"makeProxy", "seeStopped", "dropBox"}
    /\ After("makeProxy") = {"joinProxy"} /\ After("joinProxy") = {"startProxy"}
    /\ After("startProxy") = {"startBox"} /\ After("startBox") = {"boxReady"}
    /\ After("boxReady") = {"proxyReady"} /\ After("dropBox") = {"dropNetwork"}
    /\ After("touch") = {} /\ After("forget") = {} /\ After("check") = {} /\ After("running") = {}
    /\ After("putGrant") = {} /\ After("putTombstone") = {}
BY DEF After

\* What is left after a call is in order, and begins with a call that may come next.
LEMMA RestIsOrdered ==
    ASSUME NEW s \in Seq(CallNames), s # <<>>, Ordered(s)
    PROVE  /\ Tail(s) \in Seq(CallNames) /\ Ordered(Tail(s))
           /\ Tail(s) # <<>> => Head(Tail(s)) \in After(Head(s))
           /\ Tail(s) = <<>> <=> Len(s) = 1
           /\ Revival(s) => /\ Revival(Tail(s)) /\ Head(s) \in RevivalCalls
                            /\ Tail(s) = <<>> => Head(s) = "touch"
                            /\ Tail(s) # <<>> => Head(Tail(s)) \in RevivalCalls
<1> DEFINE t == Tail(s)
<1>1. /\ t \in Seq(CallNames) /\ Len(t) = Len(s) - 1 /\ Len(s) \in Nat \ {0}
      /\ \A n \in 1 .. Len(t) : t[n] = s[n + 1]
  BY HeadTailProperties, EmptySeq, LenProperties
<1> HIDE DEF t
<1>2. Head(s) = s[1] /\ (t # <<>> => Head(t) = t[1] /\ 1 \in 1 .. Len(t)) /\ (t = <<>> <=> Len(s) = 1)
  <2>1. Head(s) = s[1] /\ (t = <<>> <=> Len(t) = 0)
    BY <1>1, EmptySeq
  <2> QED
    BY <1>1, <2>1
<1>3. Ordered(t)
  BY <1>1 DEF Ordered
<1>4. t # <<>> => Head(t) \in After(Head(s))
  BY <1>1, <1>2 DEF Ordered
<1>5. Revival(s) => /\ Revival(t) /\ Head(s) \in RevivalCalls
                    /\ (t = <<>> => Head(s) = "touch") /\ (t # <<>> => Head(t) \in RevivalCalls)
  BY <1>1, <1>2 DEF Revival
<1> QED
  BY <1>1, <1>2, <1>3, <1>4, <1>5 DEF t

\* A piece of a plan, from its first call to its last.
Piece(s, first, last) ==
    s \in Seq(CallNames) /\ s # <<>> /\ Ordered(s) /\ Head(s) = first /\ s[Len(s)] = last
Reviver(s) == \A n \in 1 .. Len(s) : s[n] \in RevivalCalls

LEMMA PiecesJoin ==
    ASSUME NEW a, NEW b, NEW c, NEW d, NEW s, NEW t, Piece(s, a, b), Piece(t, c, d), c \in After(b)
    PROVE  Piece(s \o t, a, d) /\ (Reviver(s) /\ Reviver(t) => Reviver(s \o t))
<1>1. s \in Seq(CallNames) /\ t \in Seq(CallNames) /\ s # <<>> /\ t # <<>>
  BY DEF Piece
<1> DEFINE u == s \o t
<1>2. /\ u \in Seq(CallNames) /\ Len(u) = Len(s) + Len(t) /\ Len(s) \in Nat \ {0} /\ Len(t) \in Nat \ {0}
      /\ \A n \in 1 .. Len(s) : u[n] = s[n]
      /\ \A n \in 1 .. Len(t) : u[Len(s) + n] = t[n]
  BY <1>1, ConcatProperties, EmptySeq, LenProperties
<1> HIDE DEF u
<1>3. Head(s) = s[1] /\ Head(t) = t[1] /\ Head(u) = u[1] /\ u # <<>>
  BY <1>1, <1>2
<1>4. Head(u) = a /\ u[Len(u)] = d
  <2>1. Head(s) = a /\ t[Len(t)] = d
    BY DEF Piece
  <2>2. 1 \in 1 .. Len(s) /\ Len(t) \in 1 .. Len(t)
    BY <1>2
  <2>3. u[1] = s[1] /\ u[Len(s) + Len(t)] = t[Len(t)]
    BY <1>2, <2>2
  <2>4. u[Len(u)] = t[Len(t)]
    BY <1>2, <2>3
  <2> QED
    BY <1>3, <2>1, <2>3, <2>4
<1>5. Ordered(u)
  <2>1. SUFFICES ASSUME NEW n \in 1 .. Len(u) - 1 PROVE u[n + 1] \in After(u[n])
    BY DEF Ordered
  <2>2. CASE n < Len(s)
    <3>1. n \in 1 .. Len(s) - 1 /\ n \in 1 .. Len(s) /\ n + 1 \in 1 .. Len(s)
      BY <1>2, <2>1, <2>2
    <3>2. u[n] = s[n] /\ u[n + 1] = s[n + 1]
      BY <1>2, <3>1
    <3> QED
      BY <3>1, <3>2 DEF Piece, Ordered
  <2>3. CASE n = Len(s)
    BY <1>2, <1>3, <2>3 DEF Piece
  <2>4. CASE n > Len(s)
    <3>1. n - Len(s) \in 1 .. Len(t) - 1 /\ n - Len(s) \in 1 .. Len(t) /\ n - Len(s) + 1 \in 1 .. Len(t)
      BY <1>2, <2>1, <2>4
    <3>2. u[n] = t[n - Len(s)] /\ u[n + 1] = t[n - Len(s) + 1]
      <4>1. u[Len(s) + (n - Len(s))] = t[n - Len(s)] /\ u[Len(s) + (n - Len(s) + 1)] = t[n - Len(s) + 1]
        BY <1>2, <3>1
      <4>2. Len(s) + (n - Len(s)) = n /\ Len(s) + (n - Len(s) + 1) = n + 1
        BY <1>2, <2>1
      <4> QED
        BY <4>1, <4>2
    <3> QED
      BY <3>1, <3>2 DEF Piece, Ordered
  <2> QED
    BY <1>2, <2>1, <2>2, <2>3, <2>4
<1>6. Reviver(s) /\ Reviver(t) => Reviver(u)
  <2>1. SUFFICES ASSUME Reviver(s), Reviver(t), NEW n \in 1 .. Len(u) PROVE u[n] \in RevivalCalls
    BY DEF Reviver
  <2>2. CASE n <= Len(s)
    BY <1>2, <2>1, <2>2 DEF Reviver
  <2>3. CASE n > Len(s)
    <3>1. n - Len(s) \in 1 .. Len(t) /\ Len(s) + (n - Len(s)) = n
      BY <1>2, <2>1, <2>3
    <3>2. u[Len(s) + (n - Len(s))] = t[n - Len(s)]
      BY <1>2, <3>1
    <3> QED
      BY <2>1, <3>1, <3>2 DEF Reviver
  <2> QED
    BY <1>2, <2>1, <2>2, <2>3
<1> QED
  BY <1>2, <1>3, <1>4, <1>5, <1>6 DEF Piece, u

\* A piece in front of the rest of a plan.
LEMMA PieceGoesFirst ==
    ASSUME NEW a, NEW b, NEW s, Piece(s, a, b), NEW t \in Seq(CallNames), Ordered(t),
           t # <<>> => Head(t) \in After(b)
    PROVE  /\ s \o t \in Seq(CallNames) /\ s \o t # <<>> /\ Ordered(s \o t) /\ Head(s \o t) = a
           /\ Reviver(s) /\ Revival(t) /\ t # <<>> => Revival(s \o t)
<1>1. CASE t = <<>>
  <2>1. s \o t = s
    BY <1>1, ConcatEmptySeq DEF Piece
  <2> QED
    BY <1>1, <2>1 DEF Piece
<1>2. CASE t # <<>>
  <2> DEFINE c == Head(t)
             d == t[Len(t)]
  <2>1. Piece(t, c, d)
    BY <1>2 DEF Piece
  <2>2. c \in After(b)
    BY <1>2
  <2> HIDE DEF c, d
  <2>3. Piece(s \o t, a, d) /\ (Reviver(s) /\ Reviver(t) => Reviver(s \o t))
    BY <2>1, <2>2, PiecesJoin
  <2>4. Revival(t) => Reviver(t) /\ d = "touch"
    BY <1>2 DEF Revival, Reviver, d
  <2> QED
    BY <2>3, <2>4 DEF Piece, Revival, Reviver
<1> QED
  BY <1>1, <1>2

LEMMA Pieces ==
    /\ Piece(PrepareCreate, "prepare", "joinNewProxy") /\ Reviver(PrepareCreate)
    /\ Piece(Start, "seeProxy", "startBox") /\ Reviver(Start)
    /\ Piece(Ready, "boxReady", "proxyReady") /\ Reviver(Ready)
    /\ Piece(Stop, "stopBox", "seeStopped")
    /\ Piece(Remove, "seeProxy", "dropNetwork") /\ Reviver(Remove)
<1>1. Piece(PrepareCreate, "prepare", "joinNewProxy") /\ Reviver(PrepareCreate)
  <2>1. /\ PrepareCreate \in Seq(CallNames) /\ Len(PrepareCreate) = 4 /\ PrepareCreate # <<>> /\ Head(PrepareCreate) = "prepare"
        /\ PrepareCreate[1] = "prepare" /\ PrepareCreate[2] = "makeBox" /\ PrepareCreate[3] = "makeNewProxy"
        /\ PrepareCreate[4] = "joinNewProxy"
    BY DEF PrepareCreate, CallNames, RevivalCalls
  <2>2. \A n \in 1 .. 3 : n = 1 \/ n = 2 \/ n = 3
    OBVIOUS
  <2>3. Ordered(PrepareCreate)
    BY <2>1, <2>2, AfterFacts DEF Ordered
  <2>4. Reviver(PrepareCreate)
    <3>1. \A n \in 1 .. 4 : n = 4 \/ n \in 1 .. 3
      OBVIOUS
    <3> QED
      BY <2>1, <2>2, <3>1 DEF Reviver, RevivalCalls
  <2> QED
    BY <2>1, <2>3, <2>4 DEF Piece
<1>2. Piece(Start, "seeProxy", "startBox") /\ Reviver(Start)
  <2>1. /\ Start \in Seq(CallNames) /\ Len(Start) = 6 /\ Start # <<>> /\ Head(Start) = "seeProxy"
        /\ Start[1] = "seeProxy" /\ Start[2] = "dropProxy" /\ Start[3] = "makeProxy"
        /\ Start[4] = "joinProxy" /\ Start[5] = "startProxy" /\ Start[6] = "startBox"
    BY DEF Start, CallNames, RevivalCalls
  <2>2. \A n \in 1 .. 5 : n = 1 \/ n = 2 \/ n = 3 \/ n = 4 \/ n = 5
    OBVIOUS
  <2>3. Ordered(Start)
    BY <2>1, <2>2, AfterFacts DEF Ordered
  <2>4. Reviver(Start)
    <3>1. \A n \in 1 .. 6 : n = 6 \/ n \in 1 .. 5
      OBVIOUS
    <3> QED
      BY <2>1, <2>2, <3>1 DEF Reviver, RevivalCalls
  <2> QED
    BY <2>1, <2>3, <2>4 DEF Piece
<1>3. Piece(Ready, "boxReady", "proxyReady") /\ Reviver(Ready)
  <2>1. /\ Ready \in Seq(CallNames) /\ Len(Ready) = 2 /\ Ready # <<>> /\ Head(Ready) = "boxReady"
        /\ Ready[1] = "boxReady" /\ Ready[2] = "proxyReady"
    BY DEF Ready, CallNames, RevivalCalls
  <2>2. \A n \in 1 .. 1 : n = 1
    OBVIOUS
  <2>3. Ordered(Ready)
    BY <2>1, <2>2, AfterFacts DEF Ordered
  <2>4. Reviver(Ready)
    <3>1. \A n \in 1 .. 2 : n = 2 \/ n \in 1 .. 1
      OBVIOUS
    <3> QED
      BY <2>1, <2>2, <3>1 DEF Reviver, RevivalCalls
  <2> QED
    BY <2>1, <2>3, <2>4 DEF Piece
<1>4. Piece(Stop, "stopBox", "seeStopped")
  <2>1. /\ Stop \in Seq(CallNames) /\ Len(Stop) = 4 /\ Stop # <<>> /\ Head(Stop) = "stopBox"
        /\ Stop[1] = "stopBox" /\ Stop[2] = "seeProxy" /\ Stop[3] = "dropProxy"
        /\ Stop[4] = "seeStopped"
    BY DEF Stop, CallNames, RevivalCalls
  <2>2. \A n \in 1 .. 3 : n = 1 \/ n = 2 \/ n = 3
    OBVIOUS
  <2>3. Ordered(Stop)
    BY <2>1, <2>2, AfterFacts DEF Ordered
  <2> QED
    BY <2>1, <2>3 DEF Piece
<1>5. Piece(Remove, "seeProxy", "dropNetwork") /\ Reviver(Remove)
  <2>1. /\ Remove \in Seq(CallNames) /\ Len(Remove) = 4 /\ Remove # <<>> /\ Head(Remove) = "seeProxy"
        /\ Remove[1] = "seeProxy" /\ Remove[2] = "dropProxy" /\ Remove[3] = "dropBox"
        /\ Remove[4] = "dropNetwork"
    BY DEF Remove, CallNames, RevivalCalls
  <2>2. \A n \in 1 .. 3 : n = 1 \/ n = 2 \/ n = 3
    OBVIOUS
  <2>3. Ordered(Remove)
    BY <2>1, <2>2, AfterFacts DEF Ordered
  <2>4. Reviver(Remove)
    <3>1. \A n \in 1 .. 4 : n = 4 \/ n \in 1 .. 3
      OBVIOUS
    <3> QED
      BY <2>1, <2>2, <3>1 DEF Reviver, RevivalCalls
  <2> QED
    BY <2>1, <2>3, <2>4 DEF Piece
<1> QED
  BY <1>1, <1>2, <1>3, <1>4, <1>5

\* What ensure goes on with is in order, whatever it found.
LEMMA EnsureIsPiece ==
    /\ \E a \in {"boxReady", "seeProxy", "prepare"} : 
         /\ Piece(EnsureCalls, a, "proxyReady")
         /\ a = "boxReady" => box.up
         /\ a = "seeProxy" => ~box.up /\ box.id # 0
         /\ a = "prepare" => box.id = 0
    /\ Reviver(EnsureCalls)
<1> USE Pieces, AfterFacts
<1>1. CASE box.up
  BY <1>1 DEF EnsureCalls
<1>2. Piece(Start \o Ready, "seeProxy", "proxyReady") /\ Reviver(Start \o Ready)
  BY PiecesJoin
<1>3. CASE ~box.up /\ box.id # 0
  BY <1>2, <1>3 DEF EnsureCalls
<1>4. CASE ~box.up /\ box.id = 0
  <2>1. Piece(PrepareCreate \o Start, "prepare", "startBox") /\ Reviver(PrepareCreate \o Start)
    BY PiecesJoin
  <2>2. Piece((PrepareCreate \o Start) \o Ready, "prepare", "proxyReady") /\ Reviver((PrepareCreate \o Start) \o Ready)
    BY <2>1, PiecesJoin
  <2> QED
    BY <1>4, <2>2 DEF EnsureCalls
<1> QED
  BY <1>1, <1>3, <1>4

-----------------------------------------------------------------------------
(* Containers and requests *)

LEMMA RequestsAreFinite == IsFiniteSet(Requests) /\ Cardinality(Requests) \in Nat
<1>1. IsFiniteSet(Clients) /\ IsFiniteSet({"sweeper", "reconciler"})
  <2>1. IsFiniteSet({"sweeper"}) /\ {"sweeper", "reconciler"} = {"sweeper"} \cup {"reconciler"}
    BY FS_Singleton
  <2>2. IsFiniteSet({"sweeper"} \cup {"reconciler"})
    BY <2>1, FS_AddElement
  <2> QED
    BY <2>1, <2>2, MachineAssumption
<1> QED
  BY <1>1, FS_Union, FS_CardinalityType DEF Requests

\* There is a name the daemon has not given to anything a request still speaks of.
LEMMA FreshIdIsNew == FreshId \in Ids
<1> DEFINE A == {req[r].box : r \in Requests}
           B == {req[r].proxy : r \in Requests}
           C == {box.id, proxy.id}
           n == Cardinality(Requests)
<1>1. IsFiniteSet(Requests) /\ n \in Nat
  BY RequestsAreFinite
<1>2. IsFiniteSet(A) /\ Cardinality(A) <= n /\ Cardinality(A) \in Nat
  <2> DEFINE f == [r \in Requests |-> req[r].box]
  <2>1. f \in Surjection(Requests, A)
    BY DEF Surjection
  <2> HIDE DEF f, A
  <2> QED
    BY <1>1, <2>1, FS_Surjection, FS_CardinalityType
<1>3. IsFiniteSet(B) /\ Cardinality(B) <= n /\ Cardinality(B) \in Nat
  <2> DEFINE f == [r \in Requests |-> req[r].proxy]
  <2>1. f \in Surjection(Requests, B)
    BY DEF Surjection
  <2> HIDE DEF f, B
  <2> QED
    BY <1>1, <2>1, FS_Surjection, FS_CardinalityType
<1>4. IsFiniteSet(C) /\ Cardinality(C) <= 2 /\ Cardinality(C) \in Nat
  <2>1. IsFiniteSet({box.id}) /\ Cardinality({box.id}) = 1
    BY FS_Singleton
  <2>2. IsFiniteSet({box.id} \cup {proxy.id}) /\ Cardinality({box.id} \cup {proxy.id}) <= 2
    BY <2>1, FS_AddElement
  <2>3. C = {box.id} \cup {proxy.id}
    OBVIOUS
  <2> QED
    BY <2>2, <2>3, FS_CardinalityType
<1> HIDE DEF A, B, C
<1>5. IsFiniteSet(C \cup A) /\ Cardinality(C \cup A) <= 2 + n /\ Cardinality(C \cup A) \in Nat
  <2>1. IsFiniteSet(C \cap A) /\ Cardinality(C \cap A) \in Nat
    BY <1>4, FS_Intersection, FS_CardinalityType
  <2>2. /\ IsFiniteSet(C \cup A)
        /\ Cardinality(C \cup A) = Cardinality(C) + Cardinality(A) - Cardinality(C \cap A)
    BY <1>2, <1>4, FS_Union
  <2> QED
    BY <1>1, <1>2, <1>4, <2>1, <2>2, FS_CardinalityType
<1>6. IsFiniteSet((C \cup A) \cup B) /\ Cardinality((C \cup A) \cup B) <= 2 + 2 * n
  <2>1. IsFiniteSet((C \cup A) \cap B) /\ Cardinality((C \cup A) \cap B) \in Nat
    BY <1>5, FS_Intersection, FS_CardinalityType
  <2>2. /\ IsFiniteSet((C \cup A) \cup B)
        /\ Cardinality((C \cup A) \cup B) = Cardinality(C \cup A) + Cardinality(B) - Cardinality((C \cup A) \cap B)
    BY <1>3, <1>5, FS_Union
  <2> QED
    BY <1>1, <1>3, <1>5, <2>1, <2>2
<1>7. InUse = (C \cup A) \cup B
  BY DEF InUse, A, B, C
<1>8. Ids \ InUse # {}
  <2>1. SUFFICES ASSUME Ids \subseteq InUse PROVE FALSE
    OBVIOUS
  <2>2. Cardinality(Ids) <= Cardinality(InUse) /\ Cardinality(InUse) \in Nat
    BY <1>6, <1>7, <2>1, FS_Subset, FS_CardinalityType
  <2>3. Cardinality(Ids) = 3 + 2 * n
    <3>1. 3 + 2 * n \in Nat /\ 1 \in Nat
      BY <1>1
    <3> QED
      BY <3>1, FS_Interval DEF Ids
  <2> QED
    BY <1>1, <1>6, <1>7, <2>2, <2>3
<1>9. Ids \ InUse \in SUBSET Nat
  BY <1>1 DEF Ids
<1>10. PICK k \in Ids \ InUse : \A m \in Ids \ InUse : ~(<<m, k>> \in OpToRel(<, Nat))
  BY <1>8, <1>9, NatLessThanWellFounded, WFMin
<1>11. \A m \in Ids \ InUse : k <= m
  <2>1. \A m \in Ids \ InUse : ~(m < k)
    BY <1>9, <1>10 DEF OpToRel
  <2> QED
    BY <1>9, <2>1
<1> QED
  BY <1>11 DEF FreshId

LEMMA IdFacts == 0 \notin Ids /\ NoBox \in Boxes /\ NoProxy \in Proxies
BY DEF Ids, NoBox, NoProxy, Boxes, Proxies

LEMMA RequestFacts ==
    ASSUME NEW kind \in Kinds \cup {"none", "answered", "sweep", "reconcile"},
           NEW todo \in Seq(CallNames), NEW alone \in BOOLEAN
    PROVE  /\ Request(kind, todo, alone) \in RequestStates
           /\ Request(kind, todo, alone).kind = kind /\ Request(kind, todo, alone).todo = todo
           /\ Request(kind, todo, alone).alone = alone
BY DEF Request, RequestStates

LEMMA IdleFacts ==
    /\ NoRequest \in RequestStates /\ NoRequest.todo = <<>> /\ ~NoRequest.alone
    /\ Answered \in RequestStates /\ Answered.todo = <<>> /\ ~Answered.alone
    /\ Answered.kind = "answered" /\ NoRequest.kind = "none"
<1>1. <<>> \in Seq(CallNames)
  OBVIOUS
<1> QED
  BY <1>1, RequestFacts DEF NoRequest, Answered

\* The other requests stay where they are, and are not alone any more.
Aside(r) ==
    /\ req' \in [Requests -> RequestStates]
    /\ \A q \in Requests : q # r =>
        /\ req'[q].todo = req[q].todo /\ ~req'[q].alone
        /\ Working(q) => /\ req'[q].proxy = req[q].proxy /\ req'[q].kind = req[q].kind
                         /\ req'[q].box = req[q].box

LEMMA DisturbedFacts ==
    ASSUME MachineIsTyped, NEW q \in Requests
    PROVE  /\ Disturbed(q) \in RequestStates /\ Disturbed(q).todo = req[q].todo /\ ~Disturbed(q).alone
           /\ Working(q) => /\ Disturbed(q).proxy = req[q].proxy /\ Disturbed(q).kind = req[q].kind
                            /\ Disturbed(q).box = req[q].box
<1>1. req[q] \in RequestStates
  BY DEF MachineIsTyped
<1>2. CASE Working(q) \/ req[q] = NoRequest
  <2>1. Disturbed(q) = [req[q] EXCEPT !.alone = FALSE]
    BY <1>2 DEF Disturbed
  <2> QED
    BY <1>1, <2>1 DEF RequestStates
<1>3. CASE ~(Working(q) \/ req[q] = NoRequest)
  <2>1. Disturbed(q) = Answered /\ req[q].todo = <<>>
    BY <1>3 DEF Disturbed, Working
  <2> QED
    BY <1>3, <2>1, IdleFacts
<1> QED
  BY <1>2, <1>3

LEMMA GoFacts ==
    ASSUME MachineIsTyped, NEW r \in Requests, NEW new \in RequestStates, Go(r, new)
    PROVE  Aside(r) /\ req'[r] = new
<1>1. req' = [q \in Requests |-> IF q = r THEN new ELSE Disturbed(q)]
  BY DEF Go
<1>2. \A q \in Requests : q # r => req'[q] = Disturbed(q)
  BY <1>1
<1>3. req' \in [Requests -> RequestStates]
  BY <1>1, DisturbedFacts
<1> QED
  BY <1>1, <1>2, <1>3, DisturbedFacts DEF Aside

\* What the daemon and the supervisor's memory are.
AroundIsTyped ==
    /\ box \in Boxes /\ proxy \in Proxies /\ (box.up => box.id # 0)
    /\ (proxy.up => proxy.id # 0) /\ (proxy.grant # "none" => proxy.id # 0)
    /\ idle \in Unseen .. IdleTimeout /\ busy \in BOOLEAN

\* A step of one request keeps the invariant if it keeps it for that request, replaces no
\* parked sidecar by another and parks a grant only in everybody's sight.
LEMMA OwnStepKeeps ==
    ASSUME MachineInv, NEW r \in Requests, Aside(r), AroundIsTyped', NoParkedGrant',
           Planned(r)', HoldsIds(r)', StillReplaces(r)',
           req'[r].alone => req[r].alone \/ Quiet,
           req'[r].alone /\ Reviving(r)' => IF Working(r)' THEN OnCourse(r)' ELSE Revived(r)',
           proxy'.grant = "parked" =>
              \/ proxy.grant = "parked" /\ proxy'.id = proxy.id /\ overtaken' = overtaken
              \/ \A q \in Requests : Working(q) => q \in overtaken'
    PROVE  MachineInv'
<1>1. MachineIsTyped'
  BY DEF AroundIsTyped, MachineIsTyped, Aside
<1>2. ASSUME NEW q \in Requests, q # r PROVE Planned(q)' /\ HoldsIds(q)' /\ StillReplaces(q)' /\ Undisturbed(q)'
  <2>1. /\ req'[q].todo = req[q].todo /\ ~req'[q].alone
        /\ Working(q) => /\ req'[q].proxy = req[q].proxy /\ req'[q].kind = req[q].kind
                         /\ req'[q].box = req[q].box
    BY <1>2 DEF Aside
  <2>2. Planned(q) /\ HoldsIds(q) /\ StillReplaces(q)
    BY DEF MachineInv
  <2>3. Planned(q)'
    BY <2>1, <2>2 DEF Planned, Reviving, Revival, Working
  <2>4. StillReplaces(q)'
    BY <2>1, <2>2 DEF StillReplaces, Working
  <2>5. HoldsIds(q)'
    BY <2>1, <2>2 DEF HoldsIds, Working
  <2> QED
    BY <2>1, <2>3, <2>4, <2>5 DEF Undisturbed
<1>3. Undisturbed(r)'
  <2>1. SUFFICES ASSUME req'[r].alone PROVE Undisturbed(r)'
    BY DEF Undisturbed
  <2>2. \A q \in Requests : q # r => ~Working(q)
    BY <2>1 DEF MachineInv, Undisturbed, Quiet
  <2>3. \A q \in Requests : q # r => ~Working(q)'
    BY <2>2 DEF Aside, Working
  <2> QED
    BY <2>1, <2>3 DEF Undisturbed
<1> QED
  BY <1>1, <1>2, <1>3 DEF MachineInv

-----------------------------------------------------------------------------
(* A request that moves on *)

LEMMA CallFacts ==
    ASSUME MachineInv, NEW r \in Requests, NEW c, Calling(r, c)
    PROVE  /\ req[r] \in RequestStates /\ req[r].todo \in Seq(CallNames) /\ req[r].todo # <<>>
           /\ c = Head(req[r].todo) /\ c \in CallNames /\ Working(r)
           /\ Planned(r) /\ HoldsIds(r) /\ StillReplaces(r) /\ Undisturbed(r)
           /\ Reviving(r) => c \in RevivalCalls
<1>1. /\ req[r] \in RequestStates /\ req[r].todo # <<>> /\ c = Head(req[r].todo) /\ Working(r)
      /\ Planned(r) /\ HoldsIds(r) /\ StillReplaces(r) /\ Undisturbed(r)
  BY DEF MachineInv, MachineIsTyped, Calling, Working
<1>2. req[r].todo \in Seq(CallNames)
  BY <1>1 DEF RequestStates
<1>3. c \in CallNames
  BY <1>1, <1>2
<1> QED
  BY <1>1, <1>2, <1>3, RestIsOrdered DEF Planned

LEMMA NewFacts ==
    ASSUME MachineInv, NEW r \in Requests, NEW c, Calling(r, c), NEW x \in {0} \cup Ids,
           NEW result \in {"none", "ok", "failed"}
    PROVE  /\ Next1(r) \in RequestStates /\ Next1(r).todo = Tail(req[r].todo) /\ Next1(r).kind = req[r].kind
           /\ Next1(r).alone = req[r].alone /\ Next1(r).box = req[r].box /\ Next1(r).proxy = req[r].proxy
           /\ [Next1(r) EXCEPT !.proxy = x] \in RequestStates
           /\ [Next1(r) EXCEPT !.proxy = x].todo = Tail(req[r].todo)
           /\ [Next1(r) EXCEPT !.proxy = x].kind = req[r].kind
           /\ [Next1(r) EXCEPT !.proxy = x].alone = req[r].alone
           /\ [Next1(r) EXCEPT !.proxy = x].box = req[r].box /\ [Next1(r) EXCEPT !.proxy = x].proxy = x
           /\ Done(r, result) \in RequestStates /\ Done(r, result).todo = <<>>
           /\ Done(r, result).kind = req[r].kind /\ Done(r, result).alone = req[r].alone
           /\ Done(r, result).result = result
<1>1. req[r] \in RequestStates /\ Tail(req[r].todo) \in Seq(CallNames) /\ <<>> \in Seq(CallNames)
  BY CallFacts, RestIsOrdered DEF Planned
<1>2. /\ Next1(r) \in RequestStates /\ Next1(r).todo = Tail(req[r].todo) /\ Next1(r).kind = req[r].kind
      /\ Next1(r).alone = req[r].alone /\ Next1(r).box = req[r].box /\ Next1(r).proxy = req[r].proxy
  BY <1>1 DEF Next1, RequestStates
<1>3. /\ [Next1(r) EXCEPT !.proxy = x] \in RequestStates
      /\ [Next1(r) EXCEPT !.proxy = x].todo = Next1(r).todo
      /\ [Next1(r) EXCEPT !.proxy = x].kind = Next1(r).kind
      /\ [Next1(r) EXCEPT !.proxy = x].alone = Next1(r).alone
      /\ [Next1(r) EXCEPT !.proxy = x].box = Next1(r).box /\ [Next1(r) EXCEPT !.proxy = x].proxy = x
  BY <1>2 DEF RequestStates
<1>4. /\ Done(r, result) \in RequestStates /\ Done(r, result).todo = <<>>
      /\ Done(r, result).kind = req[r].kind /\ Done(r, result).alone = req[r].alone
      /\ Done(r, result).result = result
  BY <1>1 DEF Done, RequestStates
<1> QED
  BY <1>2, <1>3, <1>4

LEMMA AnswerFacts ==
    ASSUME MachineInv, NEW r \in Requests, NEW c, Calling(r, c)
    PROVE  /\ Answer(r) \in RequestStates /\ Answer(r).todo = Tail(req[r].todo)
           /\ Answer(r).kind = req[r].kind /\ Answer(r).alone = req[r].alone
           /\ Tail(req[r].todo) = <<>> => Answer(r).result = "ok"
           /\ Tail(req[r].todo) # <<>> => Answer(r) = Next1(r)
<1>1. Tail(req[r].todo) = <<>> <=> Len(req[r].todo) = 1
  BY CallFacts, RestIsOrdered DEF Planned
<1>2. 0 \in {0} \cup Ids
  OBVIOUS
<1> QED
  BY <1>1, <1>2, NewFacts DEF Answer

LEMMA MovesOn ==
    ASSUME MachineInv, NEW r \in Requests, NEW c, Calling(r, c), NEW new \in RequestStates,
           new.kind = req[r].kind, new.todo = Tail(req[r].todo), Go(r, new)
    PROVE  /\ Aside(r) /\ req'[r] = new /\ Planned(r)'
           /\ Working(r)' => Head(req'[r].todo) \in After(c)
           /\ Reviving(r)' => /\ c \in RevivalCalls /\ (c # "touch" => Working(r)')
                              /\ Working(r)' => Head(req'[r].todo) \in RevivalCalls
<1>1. Aside(r) /\ req'[r] = new
  BY GoFacts DEF MachineInv
<1>2. /\ req[r].todo \in Seq(CallNames) /\ req[r].todo # <<>> /\ c = Head(req[r].todo) /\ Planned(r)
  BY CallFacts
<1> QED
  BY <1>1, <1>2, RestIsOrdered DEF Planned, Reviving, Working

LEMMA EndsThere ==
    ASSUME MachineInv, NEW r \in Requests, NEW new \in RequestStates, new.todo = <<>>, Go(r, new)
    PROVE  /\ Aside(r) /\ req'[r] = new /\ Planned(r)' /\ ~Working(r)' /\ HoldsIds(r)' /\ StillReplaces(r)'
<1>1. Aside(r) /\ req'[r] = new
  BY GoFacts DEF MachineInv
<1>2. Len(<<>>) = 0
  OBVIOUS
<1>3. Ordered(<<>>)
  BY DEF Ordered
<1> QED
  BY <1>1, <1>3 DEF Planned, Revival, Working, HoldsIds, StillReplaces

\* Only a look at the sidecar or its removal brings a request that was not overtaken past it.
LEMMA ReplacesOn ==
    ASSUME MachineInv, NEW r \in Requests, NEW c, Calling(r, c), c # "seeProxy", c # "dropProxy",
           Working(r)' => Head(req'[r].todo) \in After(c),
           proxy'.grant = "parked" => (proxy.grant = "parked" /\ overtaken' = overtaken) \/ r \in overtaken'
    PROVE  StillReplaces(r)'
<1>1. SUFFICES ASSUME proxy'.grant = "parked", r \notin overtaken', Working(r)' PROVE StillReplaces(r)'
  BY DEF StillReplaces
<1>2. proxy.grant = "parked" /\ r \notin overtaken
  BY <1>1
<1>3. c \in CallNames /\ c \notin {"makeProxy", "joinProxy", "startProxy", "startBox"}
  BY <1>2, CallFacts DEF StillReplaces
<1>4. After(c) \cap {"makeProxy", "joinProxy", "startProxy", "startBox", "dropProxy"} = {}
  BY <1>3, AfterFacts DEF CallNames, RevivalCalls
<1> QED
  BY <1>1, <1>4 DEF StillReplaces

\* The request of a call that comes by no container.
LEMMA NamesOn ==
    ASSUME MachineInv, NEW r \in Requests, NEW c, Calling(r, c), 
           Working(r)' => Head(req'[r].todo) \in After(c),
           c \notin {"makeBox", "makeNewProxy", "makeProxy", "seeLive", "seeRevoke"},
           Working(r)' => req'[r].box = req[r].box,
           Working(r)' => req'[r].proxy = req[r].proxy \/ c \in {"seeProxy", "dropProxy", "startProxy"}
    PROVE  HoldsIds(r)'
<1>1. SUFFICES ASSUME Working(r)' PROVE HoldsIds(r)'
  BY DEF HoldsIds
<1>2. c \in CallNames /\ HoldsIds(r) /\ c = Head(req[r].todo) /\ Working(r)
  BY CallFacts
<1>3. Head(req'[r].todo) \in {"makeNewProxy", "joinNewProxy", "seeProxy", "dropProxy", "makeProxy",
        "joinProxy", "startProxy", "startBox", "stopBox"} =>
        c \in {"makeNewProxy", "joinNewProxy", "stopBox", "seeProxy", "dropProxy", "makeProxy",
               "joinProxy", "startProxy"}
  BY <1>1, <1>2, AfterFacts DEF CallNames, RevivalCalls
<1>4. Head(req'[r].todo) \in {"joinNewProxy", "joinProxy", "startProxy", "putGrant", "putTombstone"} =>
        c = "joinProxy"
  BY <1>1, <1>2, AfterFacts DEF CallNames, RevivalCalls
<1>5. Head(req'[r].todo) \in {"makeNewProxy", "joinNewProxy", "seeProxy", "dropProxy", "makeProxy",
        "joinProxy", "startProxy", "startBox", "stopBox"} => req'[r].box # 0
  BY <1>1, <1>2, <1>3 DEF HoldsIds
<1>6. Head(req'[r].todo) \in {"joinNewProxy", "joinProxy", "startProxy", "putGrant", "putTombstone"} =>
        req'[r].proxy # 0
  BY <1>1, <1>2, <1>4 DEF HoldsIds
<1> QED
  BY <1>5, <1>6 DEF HoldsIds

\* A step that only looks.
LEMMA LookKeeps ==
    ASSUME MachineInv, NEW r \in Requests, Aside(r), UNCHANGED <<box, proxy, overtaken, late>>,
           idle' \in Unseen .. IdleTimeout, busy' \in BOOLEAN,
           Planned(r)', HoldsIds(r)', StillReplaces(r)', req'[r].alone => req[r].alone \/ Quiet,
           req'[r].alone /\ Reviving(r)' => IF Working(r)' THEN OnCourse(r)' ELSE Revived(r)'
    PROVE  MachineInv'
<1>1. AroundIsTyped' /\ NoParkedGrant'
  BY DEF MachineInv, MachineIsTyped, AroundIsTyped, NoParkedGrant
<1> QED
  BY <1>1, OwnStepKeeps

\* A call that throws ends its request; a boot that is alone throws only for want of a sidecar.
LEMMA ThrowKeeps ==
    ASSUME MachineInv, NEW r \in Requests, NEW c, Calling(r, c), Throw(r),
           UNCHANGED <<proxy, idle, overtaken, late>>, box' = box \/ box' = NoBox,
           req[r].alone /\ Reviving(r) => req[r].kind = "boot" /\ box'.up /\ ~proxy.up
    PROVE  MachineInv'
<1>1. 0 \in {0} \cup Ids
  OBVIOUS
<1>2. /\ Done(r, "failed") \in RequestStates /\ Done(r, "failed").todo = <<>>
      /\ Done(r, "failed").kind = req[r].kind /\ Done(r, "failed").alone = req[r].alone
  BY <1>1, NewFacts
<1>3. Go(r, Done(r, "failed")) /\ (busy' = FALSE \/ busy' = busy)
  BY DEF Throw
<1>4. /\ Aside(r) /\ req'[r] = Done(r, "failed") /\ Planned(r)' /\ ~Working(r)' /\ HoldsIds(r)' /\ StillReplaces(r)'
  BY <1>2, <1>3, EndsThere
<1>5. NoBox \in Boxes /\ ~NoBox.up
  BY IdFacts DEF NoBox
<1>6. AroundIsTyped' /\ NoParkedGrant'
  BY <1>3, <1>5 DEF MachineInv, MachineIsTyped, AroundIsTyped, NoParkedGrant
<1>7. req'[r].alone /\ Reviving(r)' => Revived(r)'
  BY <1>2, <1>4 DEF Reviving, Revived
<1> QED
  BY <1>2, <1>4, <1>6, <1>7, OwnStepKeeps

-----------------------------------------------------------------------------
(* Reading the machine *)

LEMMA FindEnsureKeeps ==
    ASSUME MachineInv, NEW r \in Requests, FindEnsure(r)
    PROVE  MachineInv'
<1> DEFINE t == Tail(req[r].todo)
           new == [req[r] EXCEPT !.todo = EnsureCalls \o t, !.box = box.id]
<1>1. /\ Calling(r, "findEnsure") /\ Go(r, new) /\ UNCHANGED <<box, proxy, overtaken, late, idle, busy>>
  BY DEF FindEnsure, daemon, history
<1>2. /\ req[r] \in RequestStates /\ req[r].todo \in Seq(CallNames) /\ req[r].todo # <<>>
      /\ "findEnsure" = Head(req[r].todo) /\ Planned(r) /\ Undisturbed(r) /\ Working(r)
  BY <1>1, CallFacts
<1>3. /\ t \in Seq(CallNames) /\ Ordered(t) /\ (t # <<>> => Head(t) \in After("findEnsure"))
      /\ Reviving(r) => Revival(t) /\ t # <<>>
  BY <1>2, RestIsOrdered DEF Planned
<1>4. PICK a \in {"boxReady", "seeProxy", "prepare"} :
        /\ Piece(EnsureCalls, a, "proxyReady")
        /\ a = "boxReady" => box.up
        /\ a = "seeProxy" => ~box.up /\ box.id # 0
        /\ a = "prepare" => box.id = 0
  BY EnsureIsPiece
<1> HIDE DEF t
<1>5. /\ EnsureCalls \o t \in Seq(CallNames) /\ EnsureCalls \o t # <<>> /\ Ordered(EnsureCalls \o t)
      /\ Head(EnsureCalls \o t) = a /\ (Reviving(r) => Revival(EnsureCalls \o t))
  BY <1>3, <1>4, EnsureIsPiece, PieceGoesFirst, AfterFacts
<1>6. box.id \in {0} \cup Ids /\ (box.up => box.id # 0)
  BY DEF MachineInv, MachineIsTyped, Boxes
<1>7. /\ new \in RequestStates /\ new.todo = EnsureCalls \o t /\ new.kind = req[r].kind
      /\ new.alone = req[r].alone /\ new.box = box.id
  BY <1>2, <1>5, <1>6 DEF RequestStates
<1> HIDE DEF new
<1>8. Aside(r) /\ req'[r] = new
  BY <1>1, <1>7, GoFacts DEF MachineInv
<1>9. Planned(r)' /\ Working(r)' /\ Head(req'[r].todo) = a
  BY <1>5, <1>7, <1>8 DEF Planned, Reviving, Working
<1>10. HoldsIds(r)' /\ StillReplaces(r)'
  BY <1>4, <1>6, <1>7, <1>8, <1>9 DEF HoldsIds, StillReplaces
<1>11. req'[r].alone /\ Reviving(r)' => OnCourse(r)'
  <2>1. SUFFICES ASSUME req[r].alone, Reviving(r) PROVE OnCourse(r)'
    BY <1>7, <1>8 DEF Reviving
  <2>2. OnCourse(r)
    BY <1>2, <2>1 DEF Undisturbed
  <2>3. req[r].kind = "reset" => box.id = 0
    BY <1>2, <2>2 DEF OnCourse
  <2>4. req[r].kind = "boot" \/ req[r].kind = "reset"
    BY <2>1 DEF Reviving
  <2> QED
    BY <1>1, <1>4, <1>6, <1>7, <1>8, <1>9, <2>3, <2>4 DEF OnCourse
<1>12. idle' \in Unseen .. IdleTimeout /\ busy' \in BOOLEAN
  BY <1>1 DEF MachineInv, MachineIsTyped
<1> QED
  BY <1>1, <1>7, <1>8, <1>9, <1>10, <1>11, <1>12, LookKeeps

LEMMA FindStopKeeps ==
    ASSUME MachineInv, NEW r \in Requests, FindStop(r)
    PROVE  MachineInv'
<1> DEFINE t == Tail(req[r].todo)
           new == [req[r] EXCEPT !.todo = Stop \o t, !.box = box.id]
<1>1. /\ Calling(r, "findStop") /\ UNCHANGED <<box, proxy, overtaken, late, idle, busy>>
      /\ Go(r, IF box.up THEN new ELSE Answer(r))
  BY DEF FindStop, daemon, history
<1>2. /\ req[r] \in RequestStates /\ req[r].todo \in Seq(CallNames) /\ req[r].todo # <<>>
      /\ "findStop" = Head(req[r].todo) /\ Planned(r) /\ ~Reviving(r)
  BY <1>1, CallFacts DEF RevivalCalls
<1>3. /\ t \in Seq(CallNames) /\ Ordered(t) /\ (t # <<>> => Head(t) \in After("findStop"))
  BY <1>2, RestIsOrdered DEF Planned
<1>4. idle' \in Unseen .. IdleTimeout /\ busy' \in BOOLEAN
  BY <1>1 DEF MachineInv, MachineIsTyped
<1> HIDE DEF t
<1>5. CASE box.up
  <2>1. /\ Stop \o t \in Seq(CallNames) /\ Stop \o t # <<>> /\ Ordered(Stop \o t)
        /\ Head(Stop \o t) = "stopBox"
    BY <1>3, Pieces, PieceGoesFirst, AfterFacts
  <2>2. box.id \in {0} \cup Ids /\ box.id # 0
    BY <1>5 DEF MachineInv, MachineIsTyped, Boxes
  <2>3. /\ new \in RequestStates /\ new.todo = Stop \o t /\ new.kind = req[r].kind
        /\ new.alone = req[r].alone /\ new.box = box.id
    BY <1>2, <2>1, <2>2 DEF RequestStates
  <2>4. Go(r, new)
    BY <1>1, <1>5
  <2> HIDE DEF new
  <2>5. Aside(r) /\ req'[r] = new
    BY <2>3, <2>4, GoFacts DEF MachineInv
  <2>6. Planned(r)' /\ ~Reviving(r)' /\ HoldsIds(r)' /\ StillReplaces(r)'
    BY <1>2, <2>1, <2>2, <2>3, <2>5 DEF Planned, Reviving, Working, HoldsIds, StillReplaces
  <2> QED
    BY <1>1, <1>4, <2>3, <2>5, <2>6, LookKeeps
<1>6. CASE ~box.up
  <2>1. Go(r, Answer(r))
    BY <1>1, <1>6
  <2>2. /\ Aside(r) /\ req'[r] = Answer(r) /\ Planned(r)'
        /\ Working(r)' => Head(req'[r].todo) \in After("findStop")
    BY <1>1, <2>1, AnswerFacts, MovesOn
  <2>3. ~Reviving(r)' /\ req'[r].alone = req[r].alone
    BY <1>1, <1>2, <2>2, AnswerFacts DEF Reviving
  <2>4. HoldsIds(r)' /\ StillReplaces(r)'
    BY <2>2, AfterFacts DEF HoldsIds, StillReplaces
  <2> QED
    BY <1>1, <1>4, <2>2, <2>3, <2>4, LookKeeps
<1> QED
  BY <1>5, <1>6

LEMMA FindRemoveKeeps ==
    ASSUME MachineInv, NEW r \in Requests, FindRemove(r)
    PROVE  MachineInv'
<1> DEFINE t == Tail(req[r].todo)
           new == [req[r] EXCEPT !.todo = Remove \o t, !.box = box.id]
<1>1. /\ Calling(r, "findRemove") /\ UNCHANGED <<box, proxy, overtaken, late, idle, busy>>
      /\ Go(r, IF box.id # 0 THEN new ELSE Answer(r))
  BY DEF FindRemove, daemon, history
<1>2. /\ req[r] \in RequestStates /\ req[r].todo \in Seq(CallNames) /\ req[r].todo # <<>>
      /\ "findRemove" = Head(req[r].todo) /\ Planned(r)
  BY <1>1, CallFacts
<1>3. /\ t \in Seq(CallNames) /\ Ordered(t) /\ (t # <<>> => Head(t) \in After("findRemove"))
      /\ Reviving(r) => Revival(t) /\ t # <<>>
  BY <1>2, RestIsOrdered DEF Planned
<1>4. idle' \in Unseen .. IdleTimeout /\ busy' \in BOOLEAN
  BY <1>1 DEF MachineInv, MachineIsTyped
<1>5. CASE box.id # 0
  <2> HIDE DEF t
  <2>1. /\ Remove \o t \in Seq(CallNames) /\ Remove \o t # <<>> /\ Ordered(Remove \o t)
        /\ Head(Remove \o t) = "seeProxy" /\ (Reviving(r) => Revival(Remove \o t))
    BY <1>3, Pieces, PieceGoesFirst, AfterFacts
  <2>2. box.id \in {0} \cup Ids
    BY DEF MachineInv, MachineIsTyped, Boxes
  <2>3. /\ new \in RequestStates /\ new.todo = Remove \o t /\ new.kind = req[r].kind
        /\ new.alone = req[r].alone /\ new.box = box.id
    BY <1>2, <2>1, <2>2 DEF RequestStates
  <2>4. Go(r, new)
    BY <1>1, <1>5
  <2> HIDE DEF new
  <2>5. Aside(r) /\ req'[r] = new
    BY <2>3, <2>4, GoFacts DEF MachineInv
  <2>6. Planned(r)' /\ HoldsIds(r)' /\ StillReplaces(r)' /\ Working(r)'
    BY <1>5, <2>1, <2>3, <2>5 DEF Planned, Reviving, Working, HoldsIds, StillReplaces
  <2>7. OnCourse(r)'
    BY <1>1, <1>5, <2>1, <2>3, <2>5 DEF OnCourse
  <2> QED
    BY <1>1, <1>4, <2>3, <2>5, <2>6, <2>7, LookKeeps
<1>6. CASE box.id = 0
  <2>1. Go(r, Answer(r))
    BY <1>1, <1>6
  <2>2. /\ Aside(r) /\ req'[r] = Answer(r) /\ Planned(r)'
        /\ Working(r)' => Head(req'[r].todo) \in After("findRemove")
        /\ Reviving(r)' => Working(r)'
    BY <1>1, <2>1, AnswerFacts, MovesOn
  <2>3. req'[r].alone = req[r].alone
    BY <1>1, <2>2, AnswerFacts
  <2>4. HoldsIds(r)' /\ StillReplaces(r)'
    BY <2>2, AfterFacts DEF HoldsIds, StillReplaces
  <2>5. Working(r)' => OnCourse(r)'
    BY <1>1, <1>6, <2>2, AfterFacts DEF OnCourse
  <2> QED
    BY <1>1, <1>4, <2>2, <2>3, <2>4, <2>5, LookKeeps
<1> QED
  BY <1>5, <1>6

\* A call that leaves the daemon and the request's names as they are and moves on.
LEMMA PassKeepsOn ==
    ASSUME MachineInv, NEW r \in Requests, NEW c, Calling(r, c), Go(r, Next1(r)),
           c \notin {"seeProxy", "dropProxy", "makeBox", "makeNewProxy", "makeProxy", "seeLive", "seeRevoke"},
           UNCHANGED <<box, proxy, overtaken, late, idle>>, busy' \in BOOLEAN,
           c # "touch",
           req[r].alone /\ Reviving(r) => (Working(r)' => OnCourse(r)')
    PROVE  MachineInv'
<1>1. 0 \in {0} \cup Ids
  OBVIOUS
<1>2. /\ Next1(r) \in RequestStates /\ Next1(r).todo = Tail(req[r].todo) /\ Next1(r).kind = req[r].kind
      /\ Next1(r).alone = req[r].alone /\ Next1(r).box = req[r].box /\ Next1(r).proxy = req[r].proxy
  BY <1>1, NewFacts
<1>3. /\ Aside(r) /\ req'[r] = Next1(r) /\ Planned(r)'
      /\ Working(r)' => Head(req'[r].todo) \in After(c)
      /\ Reviving(r)' => Working(r)'
  BY <1>2, MovesOn
<1>4. StillReplaces(r)'
  BY <1>3, ReplacesOn
<1>5. HoldsIds(r)'
  BY <1>2, <1>3, NamesOn
<1>6. idle' \in Unseen .. IdleTimeout
  BY DEF MachineInv, MachineIsTyped
<1>7. req'[r].alone /\ Reviving(r)' => Working(r)' /\ OnCourse(r)'
  BY <1>2, <1>3 DEF Reviving
<1> QED
  BY <1>2, <1>3, <1>4, <1>5, <1>6, <1>7, LookKeeps

LEMMA CommandKeeps ==
    ASSUME MachineInv, NEW r \in Requests, FindExec(r) \/ BeginCommand(r) \/ EndCommand(r)
    PROVE  MachineInv'
<1>1. UNCHANGED <<box, proxy, overtaken, late, idle>> /\ busy \in BOOLEAN
  BY DEF FindExec, BeginCommand, EndCommand, daemon, history, MachineInv, MachineIsTyped
<1>2. CASE BeginCommand(r)
  <2>1. Calling(r, "begin") /\ ((Go(r, Next1(r)) /\ busy' = busy) \/ Throw(r))
    BY <1>2 DEF BeginCommand
  <2>2. ~Reviving(r)
    BY <2>1, CallFacts DEF RevivalCalls
  <2> QED
    BY <1>1, <2>1, <2>2, PassKeepsOn, ThrowKeeps
<1>3. CASE EndCommand(r)
  <2>1. Calling(r, "running") /\ Go(r, Done(r, "ok")) /\ busy' = FALSE
    BY <1>3 DEF EndCommand
  <2>2. ~Reviving(r) /\ 0 \in {0} \cup Ids
    BY <2>1, CallFacts DEF RevivalCalls
  <2>3. /\ Done(r, "ok") \in RequestStates /\ Done(r, "ok").todo = <<>>
        /\ Done(r, "ok").kind = req[r].kind /\ Done(r, "ok").alone = req[r].alone
    BY <2>1, <2>2, NewFacts
  <2>4. /\ Aside(r) /\ req'[r] = Done(r, "ok") /\ Planned(r)' /\ ~Working(r)' /\ HoldsIds(r)' /\ StillReplaces(r)'
    BY <2>1, <2>3, EndsThere
  <2>5. ~Reviving(r)' /\ idle' \in Unseen .. IdleTimeout
    BY <1>1, <2>2, <2>3, <2>4 DEF Reviving, MachineInv, MachineIsTyped
  <2> QED
    BY <1>1, <2>1, <2>3, <2>4, <2>5, LookKeeps
<1>4. CASE FindExec(r)
  <2> DEFINE new == [req[r] EXCEPT !.todo = Tail(@), !.box = box.id]
  <2>1. Calling(r, "findExec") /\ ((Go(r, new) /\ busy' = busy) \/ Throw(r))
    BY <1>4 DEF FindExec
  <2>2. /\ ~Reviving(r) /\ req[r] \in RequestStates /\ box.id \in {0} \cup Ids
        /\ Tail(req[r].todo) \in Seq(CallNames)
    BY <2>1, CallFacts, RestIsOrdered DEF RevivalCalls, MachineInv, MachineIsTyped, Boxes, Planned
  <2>3. CASE Throw(r)
    BY <1>1, <2>1, <2>2, <2>3, ThrowKeeps
  <2>4. CASE Go(r, new) /\ busy' = busy
    <3>1. /\ new \in RequestStates /\ new.todo = Tail(req[r].todo) /\ new.kind = req[r].kind
          /\ new.alone = req[r].alone
      BY <2>2 DEF RequestStates
    <3> HIDE DEF new
    <3>2. /\ Aside(r) /\ req'[r] = new /\ Planned(r)'
          /\ Working(r)' => Head(req'[r].todo) \in After("findExec")
      BY <2>1, <2>4, <3>1, MovesOn
    <3>3. HoldsIds(r)' /\ StillReplaces(r)'
      BY <3>2, AfterFacts DEF HoldsIds, StillReplaces
    <3>4. ~Reviving(r)' /\ idle' \in Unseen .. IdleTimeout
      BY <1>1, <2>2, <3>1, <3>2 DEF Reviving, MachineInv, MachineIsTyped
    <3> QED
      BY <1>1, <2>4, <3>1, <3>2, <3>3, <3>4, LookKeeps
  <2> QED
    BY <2>1, <2>3, <2>4
<1> QED
  BY <1>2, <1>3, <1>4

LEMMA ReadyKeeps ==
    ASSUME MachineInv, NEW r \in Requests, BoxReady(r) \/ ProxyReady(r) \/ PrepareNetwork(r)
    PROVE  MachineInv'
<1>1. UNCHANGED <<box, proxy, overtaken, late, idle>> /\ busy \in BOOLEAN
  BY DEF BoxReady, ProxyReady, PrepareNetwork, daemon, history, MachineInv, MachineIsTyped
<1>2. ASSUME NEW c, Calling(r, c), req[r].alone, Reviving(r), Working(r)', Go(r, Next1(r))
      PROVE  /\ OnCourse(r) /\ Head(req[r].todo) = c /\ req'[r].kind = req[r].kind
             /\ Head(req'[r].todo) \in After(c)
  <2>1. Undisturbed(r) /\ Working(r) /\ Head(req[r].todo) = c /\ 0 \in {0} \cup Ids
    BY <1>2, CallFacts
  <2>2. Next1(r) \in RequestStates /\ Next1(r).kind = req[r].kind /\ Next1(r).todo = Tail(req[r].todo)
    BY <1>2, <2>1, NewFacts
  <2>3. req'[r] = Next1(r) /\ Head(req'[r].todo) \in After(c)
    BY <1>2, <2>2, MovesOn
  <2> QED
    BY <1>2, <2>1, <2>2, <2>3 DEF Undisturbed
<1>3. CASE BoxReady(r)
  <2>1. Calling(r, "boxReady")
    BY <1>3 DEF BoxReady
  <2>2. Undisturbed(r) /\ Working(r) /\ Head(req[r].todo) = "boxReady"
    BY <2>1, CallFacts
  <2>3. CASE box.id = req[r].box /\ box.up
    <3>1. Go(r, Next1(r)) /\ UNCHANGED busy
      BY <1>3, <2>3 DEF BoxReady
    <3>2. ASSUME req[r].alone, Reviving(r), Working(r)' PROVE OnCourse(r)'
      <4>1. /\ OnCourse(r) /\ Head(req'[r].todo) = "proxyReady" /\ req'[r].kind = req[r].kind
        BY <1>2, <2>1, <3>1, <3>2, AfterFacts
      <4> QED
        BY <1>1, <2>2, <4>1 DEF OnCourse
    <3> QED
      BY <1>1, <2>1, <3>1, <3>2, PassKeepsOn
  <2>4. CASE ~(box.id = req[r].box /\ box.up)
    <3>1. Throw(r)
      BY <1>3, <2>4 DEF BoxReady
    <3>2. ~(req[r].alone /\ Reviving(r))
      BY <2>2, <2>4 DEF Undisturbed, OnCourse
    <3> QED
      BY <1>1, <2>1, <3>1, <3>2, ThrowKeeps
  <2> QED
    BY <2>3, <2>4
<1>4. CASE ProxyReady(r)
  <2>1. Calling(r, "proxyReady")
    BY <1>4 DEF ProxyReady
  <2>2. Undisturbed(r) /\ Working(r) /\ Head(req[r].todo) = "proxyReady"
    BY <2>1, CallFacts
  <2>3. CASE proxy.up
    <3>1. Go(r, Next1(r)) /\ UNCHANGED busy
      BY <1>4, <2>3 DEF ProxyReady
    <3>2. ASSUME req[r].alone, Reviving(r), Working(r)' PROVE OnCourse(r)'
      <4>1. /\ OnCourse(r) /\ Head(req'[r].todo) = "touch"
        BY <1>2, <2>1, <3>1, <3>2, AfterFacts
      <4> QED
        BY <1>1, <2>2, <2>3, <4>1 DEF OnCourse
    <3> QED
      BY <1>1, <2>1, <3>1, <3>2, PassKeepsOn
  <2>4. CASE ~proxy.up
    <3>1. Throw(r)
      BY <1>4, <2>4 DEF ProxyReady
    <3>2. req[r].alone /\ Reviving(r) => req[r].kind = "boot" /\ box.up
      BY <2>2, <2>4 DEF Undisturbed, OnCourse
    <3> QED
      BY <1>1, <2>1, <2>4, <3>1, <3>2, ThrowKeeps
  <2> QED
    BY <2>3, <2>4
<1>5. CASE PrepareNetwork(r)
  <2>1. Calling(r, "prepare") /\ Go(r, Next1(r)) /\ UNCHANGED busy
    BY <1>5 DEF PrepareNetwork
  <2>2. ASSUME req[r].alone, Reviving(r), Working(r)' PROVE OnCourse(r)'
    <3>1. Head(req'[r].todo) = "makeBox"
      BY <1>2, <2>1, <2>2, AfterFacts
    <3> QED
      BY <3>1 DEF OnCourse
  <2> QED
    BY <1>1, <2>1, <2>2, PassKeepsOn
<1> QED
  BY <1>3, <1>4, <1>5

\* The answer that ends a boot or a stop.
LEMMA AnswerKeeps ==
    ASSUME MachineInv, NEW r \in Requests, Touch(r) \/ SeeStopped(r)
    PROVE  MachineInv'
<1>1. PICK c \in {"touch", "seeStopped"} :
        Calling(r, c) /\ Go(r, Answer(r)) /\ UNCHANGED <<box, proxy, overtaken, late, busy>>
  BY DEF Touch, SeeStopped, daemon, history
<1>2. idle' \in Unseen .. IdleTimeout /\ busy' \in BOOLEAN
  <2>1. idle' = 0 \/ idle' = idle
    BY DEF Touch, SeeStopped
  <2> QED
    BY <1>1, <2>1, MachineAssumption DEF MachineInv, MachineIsTyped, Unseen
<1>3. /\ Answer(r) \in RequestStates /\ Answer(r).todo = Tail(req[r].todo)
      /\ Answer(r).kind = req[r].kind /\ Answer(r).alone = req[r].alone
      /\ Tail(req[r].todo) = <<>> => Answer(r).result = "ok"
  BY <1>1, AnswerFacts
<1>4. /\ Aside(r) /\ req'[r] = Answer(r) /\ Planned(r)'
      /\ Working(r)' => Head(req'[r].todo) \in After(c)
      /\ Reviving(r)' => c \in RevivalCalls
  BY <1>1, <1>3, MovesOn
<1>5. HoldsIds(r)' /\ StillReplaces(r)'
  BY <1>4, AfterFacts DEF HoldsIds, StillReplaces
<1>6. ASSUME req'[r].alone, Reviving(r)' PROVE ~Working(r)' /\ Revived(r)'
  <2>1. c = "touch" /\ ~Working(r)'
    BY <1>4, <1>6, AfterFacts DEF RevivalCalls
  <2>2. Undisturbed(r) /\ Working(r) /\ Head(req[r].todo) = "touch"
    BY <1>1, <2>1, CallFacts
  <2>3. box.up /\ proxy.up
    BY <1>3, <1>4, <1>6, <2>2 DEF Undisturbed, OnCourse, Reviving
  <2> QED
    BY <1>1, <1>3, <1>4, <2>1, <2>3 DEF Revived, Working
<1> QED
  BY <1>1, <1>2, <1>3, <1>4, <1>5, <1>6, LookKeeps

-----------------------------------------------------------------------------
(* The sidecar *)

\* What a request that is alone finds at its call.
LEMMA CourseFacts ==
    ASSUME MachineInv, NEW r \in Requests, NEW c, Calling(r, c), req[r].alone, Reviving(r)
    PROVE  OnCourse(r) /\ Head(req[r].todo) = c
BY CallFacts DEF Undisturbed

LEMMA MakeProxyKeeps ==
    ASSUME MachineInv, NEW r \in Requests, MakeProxy(r)
    PROVE  MachineInv'
<1>1. PICK c \in {"makeProxy", "makeNewProxy"} : Calling(r, c)
  BY DEF MakeProxy
<1>2. /\ proxy' = IF proxy.id = 0 THEN [NoProxy EXCEPT !.id = FreshId] ELSE proxy
      /\ Go(r, [Next1(r) EXCEPT !.proxy = proxy'.id])
      /\ UNCHANGED <<box, overtaken, late, idle, busy>>
  BY DEF MakeProxy, history
<1>3. FreshId \in Ids /\ 0 \notin Ids
  BY FreshIdIsNew, IdFacts
<1>4. /\ proxy' \in Proxies /\ proxy'.id # 0 /\ proxy'.id \in Ids /\ (proxy'.grant = "parked" => proxy' = proxy)
      /\ (proxy'.up => proxy.up) /\ (proxy'.grant # "none" => proxy' = proxy)
  <2>1. proxy \in Proxies
    BY DEF MachineInv, MachineIsTyped
  <2>2. CASE proxy.id = 0
    <3>1. proxy' = [id |-> FreshId, up |-> FALSE, grant |-> "none"]
      BY <1>2, <2>2 DEF NoProxy
    <3> QED
      BY <1>3, <3>1 DEF Proxies
  <2>3. CASE proxy.id # 0
    BY <1>2, <2>1, <2>3 DEF Proxies
  <2> QED
    BY <2>2, <2>3
<1> DEFINE new == [Next1(r) EXCEPT !.proxy = proxy'.id]
<1>5. /\ new \in RequestStates /\ new.todo = Tail(req[r].todo) /\ new.kind = req[r].kind
      /\ new.alone = req[r].alone /\ new.box = req[r].box /\ new.proxy = proxy'.id
  BY <1>1, <1>4, NewFacts
<1>6. Go(r, new)
  BY <1>2
<1> HIDE DEF new
<1>7. /\ Aside(r) /\ req'[r] = new /\ Planned(r)'
      /\ Working(r)' => Head(req'[r].todo) \in After(c)
      /\ Reviving(r)' => Working(r)'
  BY <1>1, <1>5, <1>6, MovesOn
<1>8. AroundIsTyped' /\ NoParkedGrant'
  BY <1>2, <1>4 DEF MachineInv, MachineIsTyped, AroundIsTyped, NoParkedGrant
<1>9. StillReplaces(r)'
  BY <1>1, <1>2, <1>4, <1>7, ReplacesOn
<1>10. HoldsIds(r) /\ Head(req[r].todo) = c /\ Working(r)
  BY <1>1, CallFacts
<1>11. HoldsIds(r)'
  BY <1>4, <1>5, <1>7, <1>10 DEF HoldsIds
<1>12. ASSUME req'[r].alone, Reviving(r)' PROVE Working(r)' /\ OnCourse(r)'
  <2>1. OnCourse(r) /\ Head(req[r].todo) = c
    BY <1>1, <1>5, <1>7, <1>12, CourseFacts DEF Reviving
  <2>2. Head(req'[r].todo) \in {"joinProxy", "joinNewProxy"}
    BY <1>7, <1>12, AfterFacts
  <2> QED
    BY <1>2, <1>4, <1>5, <1>7, <1>12, <2>1, <2>2 DEF OnCourse
<1> QED
  BY <1>2, <1>4, <1>5, <1>7, <1>8, <1>9, <1>11, <1>12, OwnStepKeeps

LEMMA JoinProxyKeeps ==
    ASSUME MachineInv, NEW r \in Requests, JoinProxy(r)
    PROVE  MachineInv'
<1>1. PICK c \in {"joinProxy", "joinNewProxy"} : Calling(r, c)
  BY DEF JoinProxy
<1>2. UNCHANGED <<proxy, overtaken, late, idle>> /\ busy \in BOOLEAN
  BY DEF JoinProxy, history, MachineInv, MachineIsTyped
<1>3. CASE proxy.id = req[r].proxy
  <2>1. Go(r, Next1(r)) /\ UNCHANGED <<box, busy>>
    BY <1>3 DEF JoinProxy
  <2>2. ASSUME req[r].alone, Reviving(r), Working(r)' PROVE OnCourse(r)'
    <3>1. OnCourse(r) /\ Head(req[r].todo) = c
      BY <1>1, <2>2, CourseFacts
    <3>2. 0 \in {0} \cup Ids
      OBVIOUS
    <3>3. /\ Next1(r) \in RequestStates /\ Next1(r).todo = Tail(req[r].todo) /\ Next1(r).kind = req[r].kind
          /\ Next1(r).box = req[r].box /\ Next1(r).proxy = req[r].proxy
      BY <1>1, <3>2, NewFacts
    <3>4. req'[r] = Next1(r) /\ Head(req'[r].todo) \in After(c)
      BY <1>1, <2>1, <2>2, <3>3, MovesOn
    <3>5. Head(req'[r].todo) \in {"startProxy", "seeProxy"}
      BY <3>4, AfterFacts
    <3> QED
      BY <1>2, <2>1, <3>1, <3>3, <3>4, <3>5 DEF OnCourse
  <2> QED
    BY <1>1, <1>2, <2>1, <2>2, PassKeepsOn
<1>4. CASE proxy.id # req[r].proxy
  <2>1. Throw(r) /\ (box' = box \/ box' = NoBox)
    BY <1>4 DEF JoinProxy, UndoBox
  <2>2. ~(req[r].alone /\ Reviving(r))
    BY <1>1, <1>4, CourseFacts DEF OnCourse
  <2> QED
    BY <1>1, <1>2, <2>1, <2>2, ThrowKeeps
<1> QED
  BY <1>3, <1>4

LEMMA SeeProxyKeeps ==
    ASSUME MachineInv, NEW r \in Requests, SeeProxy(r)
    PROVE  MachineInv'
<1>1. /\ Calling(r, "seeProxy") /\ UNCHANGED <<box, proxy, overtaken, late, idle, busy>>
      /\ Go(r, IF proxy.id # 0 THEN [Next1(r) EXCEPT !.proxy = proxy.id]
               ELSE [req[r] EXCEPT !.todo = Tail(Tail(@)), !.proxy = 0])
  BY DEF SeeProxy, daemon, history
<1>2. proxy.id \in {0} \cup Ids /\ idle' \in Unseen .. IdleTimeout /\ busy' \in BOOLEAN
  BY <1>1 DEF MachineInv, MachineIsTyped, Proxies
<1>3. /\ req[r] \in RequestStates /\ req[r].todo \in Seq(CallNames) /\ req[r].todo # <<>> /\ HoldsIds(r)
      /\ Head(req[r].todo) = "seeProxy" /\ Planned(r) /\ Working(r)
  BY <1>1, CallFacts
<1>4. req[r].box # 0
  BY <1>3 DEF HoldsIds
<1>5. CASE proxy.id # 0
  <2> DEFINE new == [Next1(r) EXCEPT !.proxy = proxy.id]
  <2>1. /\ new \in RequestStates /\ new.todo = Tail(req[r].todo) /\ new.kind = req[r].kind
        /\ new.alone = req[r].alone /\ new.box = req[r].box /\ new.proxy = proxy.id
    BY <1>1, <1>2, NewFacts
  <2>2. Go(r, new)
    BY <1>1, <1>5
  <2> HIDE DEF new
  <2>3. /\ Aside(r) /\ req'[r] = new /\ Planned(r)'
        /\ Working(r)' => Head(req'[r].todo) \in After("seeProxy")
        /\ Reviving(r)' => Working(r)'
    BY <1>1, <2>1, <2>2, MovesOn
  <2>4. Working(r)' => Head(req'[r].todo) = "dropProxy"
    BY <2>3, AfterFacts
  <2>5. StillReplaces(r)' /\ HoldsIds(r)'
    BY <1>1, <1>4, <2>1, <2>3, <2>4 DEF StillReplaces, HoldsIds
  <2>6. ASSUME req'[r].alone, Reviving(r)' PROVE Working(r)' /\ OnCourse(r)'
    <3>1. OnCourse(r)
      BY <1>1, <2>1, <2>3, <2>6, CourseFacts DEF Reviving
    <3> QED
      BY <1>1, <1>3, <1>5, <2>1, <2>3, <2>4, <2>6, <3>1 DEF OnCourse
  <2> QED
    BY <1>1, <1>2, <2>1, <2>3, <2>5, <2>6, LookKeeps
<1>6. CASE proxy.id = 0
  <2> DEFINE t == Tail(req[r].todo)
             new == [req[r] EXCEPT !.todo = Tail(t), !.proxy = 0]
  <2>1. Go(r, new)
    BY <1>1, <1>6
  <2>2. /\ t \in Seq(CallNames) /\ Ordered(t) /\ (t # <<>> => Head(t) \in After("seeProxy"))
        /\ Reviving(r) => Revival(t) /\ t # <<>>
    BY <1>3, RestIsOrdered DEF Planned
  <2> HIDE DEF t
  <2>3. CASE t = <<>>
    <3>1. ~Reviving(r)
      BY <2>2, <2>3
    <3>2. <<>> \in Seq(CallNames) /\ Tail(<<>>) = <<>>
      OBVIOUS
    <3>3. new \in RequestStates /\ new.todo = <<>> /\ new.kind = req[r].kind /\ new.alone = req[r].alone
      BY <1>3, <2>3, <3>2 DEF RequestStates
    <3> HIDE DEF new
    <3>4. Aside(r) /\ req'[r] = new /\ Planned(r)' /\ ~Working(r)' /\ HoldsIds(r)' /\ StillReplaces(r)'
      BY <2>1, <3>3, EndsThere
    <3> QED
      BY <1>1, <1>2, <3>1, <3>3, <3>4, LookKeeps DEF Reviving
  <2>4. CASE t # <<>>
    <3>1. Head(t) = "dropProxy"
      BY <2>2, <2>4, AfterFacts
    <3>2. /\ Tail(t) \in Seq(CallNames) /\ Ordered(Tail(t))
          /\ Tail(t) # <<>> => Head(Tail(t)) \in After("dropProxy")
          /\ Reviving(r) => Revival(Tail(t)) /\ Tail(t) # <<>> /\ Head(Tail(t)) \in RevivalCalls
      BY <2>2, <2>4, <3>1, RestIsOrdered
    <3>3. /\ new \in RequestStates /\ new.todo = Tail(t) /\ new.kind = req[r].kind
          /\ new.alone = req[r].alone /\ new.box = req[r].box
      BY <1>3, <3>2 DEF RequestStates
    <3> HIDE DEF new
    <3>4. Aside(r) /\ req'[r] = new
      BY <2>1, <3>3, GoFacts DEF MachineInv
    <3>5. Planned(r)' /\ (Reviving(r)' => Working(r)')
      BY <3>2, <3>3, <3>4 DEF Planned, Reviving, Working
    <3>6. Working(r)' => Head(req'[r].todo) \in {"makeProxy", "seeStopped", "dropBox"}
      BY <3>2, <3>3, <3>4, AfterFacts DEF Working
    <3>7. HoldsIds(r)'
      BY <1>4, <3>3, <3>4, <3>6 DEF HoldsIds
    <3>8. StillReplaces(r)'
      <4>1. proxy'.grant # "parked"
        BY <1>1, <1>6 DEF MachineInv, MachineIsTyped
      <4> QED
        BY <4>1 DEF StillReplaces
    <3>9. ASSUME req'[r].alone, Reviving(r)' PROVE Working(r)' /\ OnCourse(r)'
      <4>1. OnCourse(r)
        BY <1>1, <3>3, <3>4, <3>9, CourseFacts DEF Reviving
      <4>2. Head(req'[r].todo) \in {"makeProxy", "dropBox"}
        BY <3>2, <3>3, <3>4, <3>5, <3>6, <3>9 DEF RevivalCalls, Reviving
      <4> QED
        BY <1>1, <1>3, <1>6, <3>3, <3>4, <3>5, <3>9, <4>1, <4>2 DEF OnCourse
    <3> QED
      BY <1>1, <1>2, <3>3, <3>4, <3>5, <3>7, <3>8, <3>9, LookKeeps
  <2> QED
    BY <2>3, <2>4
<1> QED
  BY <1>5, <1>6

\* The sidecar that was seen goes; one that came after it stays, with no parked grant on it
\* unless the request was overtaken.
LEMMA DropProxyKeeps ==
    ASSUME MachineInv, NEW r \in Requests, DropProxy(r)
    PROVE  MachineInv'
<1> DEFINE new == [Next1(r) EXCEPT !.proxy = 0]
<1>1. /\ Calling(r, "dropProxy") /\ Go(r, new) /\ UNCHANGED <<box, overtaken, late, idle, busy>>
      /\ proxy' = IF proxy.id = req[r].proxy THEN NoProxy ELSE proxy
  BY DEF DropProxy, history
<1>2. 0 \in {0} \cup Ids
  OBVIOUS
<1>3. /\ new \in RequestStates /\ new.todo = Tail(req[r].todo) /\ new.kind = req[r].kind
      /\ new.alone = req[r].alone /\ new.box = req[r].box
  BY <1>1, <1>2, NewFacts
<1> HIDE DEF new
<1>4. /\ Aside(r) /\ req'[r] = new /\ Planned(r)'
      /\ Working(r)' => Head(req'[r].todo) \in After("dropProxy")
      /\ Reviving(r)' => Working(r)' /\ Head(req'[r].todo) \in RevivalCalls
  BY <1>1, <1>3, MovesOn
<1>5. HoldsIds(r) /\ StillReplaces(r) /\ Head(req[r].todo) = "dropProxy" /\ Working(r)
  BY <1>1, CallFacts
<1>6. /\ NoProxy \in Proxies /\ NoProxy.id = 0 /\ ~NoProxy.up /\ NoProxy.grant = "none"
  BY IdFacts DEF NoProxy
<1>7. AroundIsTyped' /\ NoParkedGrant'
  BY <1>1, <1>6 DEF MachineInv, MachineIsTyped, AroundIsTyped, NoParkedGrant
<1>8. StillReplaces(r)'
  BY <1>1, <1>5, <1>6 DEF StillReplaces
<1>9. HoldsIds(r)'
  BY <1>3, <1>4, <1>5, AfterFacts DEF HoldsIds
<1>10. ASSUME req'[r].alone, Reviving(r)' PROVE Working(r)' /\ OnCourse(r)'
  <2>1. OnCourse(r) /\ Head(req[r].todo) = "dropProxy"
    BY <1>1, <1>3, <1>4, <1>10, CourseFacts DEF Reviving
  <2>2. Head(req'[r].todo) \in {"makeProxy", "dropBox"}
    BY <1>4, <1>10, AfterFacts DEF RevivalCalls
  <2> QED
    BY <1>1, <1>3, <1>4, <1>6, <1>10, <2>1, <2>2 DEF OnCourse
<1> QED
  BY <1>1, <1>3, <1>4, <1>6, <1>7, <1>8, <1>9, <1>10, OwnStepKeeps

LEMMA StartProxyKeeps ==
    ASSUME MachineInv, NEW r \in Requests, StartProxy(r)
    PROVE  MachineInv'
<1>1. /\ Calling(r, "startProxy") /\ UNCHANGED <<box, overtaken, late, idle>>
  BY DEF StartProxy, history
<1>2. HoldsIds(r) /\ Head(req[r].todo) = "startProxy" /\ Working(r)
  BY <1>1, CallFacts
<1>3. CASE proxy.id # req[r].proxy
  <2>1. Throw(r) /\ UNCHANGED proxy
    BY <1>3 DEF StartProxy
  <2>2. ~(req[r].alone /\ Reviving(r))
    BY <1>1, <1>3, CourseFacts DEF OnCourse
  <2> QED
    BY <1>1, <2>1, <2>2, ThrowKeeps
<1>4. CASE proxy.id = req[r].proxy
  <2> DEFINE new == [Next1(r) EXCEPT !.proxy = 0]
  <2>1. Go(r, new) /\ UNCHANGED busy /\ proxy' = [proxy EXCEPT !.up = TRUE]
    BY <1>4 DEF StartProxy
  <2>2. 0 \in {0} \cup Ids
    OBVIOUS
  <2>3. /\ new \in RequestStates /\ new.todo = Tail(req[r].todo) /\ new.kind = req[r].kind
        /\ new.alone = req[r].alone /\ new.box = req[r].box
    BY <1>1, <2>2, NewFacts
  <2> HIDE DEF new
  <2>4. /\ Aside(r) /\ req'[r] = new /\ Planned(r)'
        /\ Working(r)' => Head(req'[r].todo) \in After("startProxy")
        /\ Reviving(r)' => Working(r)'
    BY <1>1, <2>1, <2>3, MovesOn
  <2>5. /\ proxy' \in Proxies /\ proxy'.id = proxy.id /\ proxy'.up /\ proxy'.grant = proxy.grant
        /\ proxy.id # 0
    <3>1. proxy \in Proxies /\ proxy.id # 0
      BY <1>2, <1>4 DEF MachineInv, MachineIsTyped, HoldsIds
    <3> QED
      BY <2>1, <3>1 DEF Proxies
  <2>6. AroundIsTyped' /\ NoParkedGrant'
    BY <1>1, <2>1, <2>5 DEF MachineInv, MachineIsTyped, AroundIsTyped, NoParkedGrant
  <2>7. StillReplaces(r)'
    BY <1>1, <2>4, <2>5, ReplacesOn
  <2>8. HoldsIds(r)'
    BY <1>1, <2>3, <2>4, NamesOn
  <2>9. ASSUME req'[r].alone, Reviving(r)' PROVE Working(r)' /\ OnCourse(r)'
    <3>1. OnCourse(r) /\ Head(req[r].todo) = "startProxy"
      BY <1>1, <2>3, <2>4, <2>9, CourseFacts DEF Reviving
    <3>2. Head(req'[r].todo) = "startBox"
      BY <2>4, <2>9, AfterFacts
    <3> QED
      BY <1>1, <2>3, <2>4, <2>5, <2>9, <3>1, <3>2 DEF OnCourse
  <2> QED
    BY <1>1, <2>3, <2>4, <2>5, <2>6, <2>7, <2>8, <2>9, OwnStepKeeps
<1> QED
  BY <1>3, <1>4

-----------------------------------------------------------------------------
(* The machine's container *)

\* A start that was not overtaken cannot come to the container beside a parked grant.
LEMMA StartBoxKeeps ==
    ASSUME MachineInv, NEW r \in Requests, StartBox(r)
    PROVE  MachineInv'
<1>1. /\ Calling(r, "startBox") /\ UNCHANGED <<proxy, overtaken, idle>>
  BY DEF StartBox
<1>2. HoldsIds(r) /\ StillReplaces(r) /\ Head(req[r].todo) = "startBox" /\ Working(r)
  BY <1>1, CallFacts
<1>3. CASE box.id # req[r].box
  <2>1. Throw(r) /\ UNCHANGED <<box, late>>
    BY <1>3 DEF StartBox
  <2>2. ~(req[r].alone /\ Reviving(r))
    BY <1>1, <1>3, CourseFacts DEF OnCourse
  <2> QED
    BY <1>1, <2>1, <2>2, ThrowKeeps
<1>4. CASE box.id = req[r].box
  <2>1. /\ Go(r, Next1(r)) /\ UNCHANGED busy /\ box' = [box EXCEPT !.up = TRUE]
        /\ late' = IF box.up THEN late ELSE r \in overtaken
    BY <1>4 DEF StartBox
  <2>2. 0 \in {0} \cup Ids
    OBVIOUS
  <2>3. /\ Next1(r) \in RequestStates /\ Next1(r).todo = Tail(req[r].todo) /\ Next1(r).kind = req[r].kind
        /\ Next1(r).alone = req[r].alone /\ Next1(r).box = req[r].box /\ Next1(r).proxy = req[r].proxy
    BY <1>1, <2>2, NewFacts
  <2>4. /\ Aside(r) /\ req'[r] = Next1(r) /\ Planned(r)'
        /\ Working(r)' => Head(req'[r].todo) \in After("startBox")
        /\ Reviving(r)' => Working(r)'
    BY <1>1, <2>1, <2>3, MovesOn
  <2>5. /\ box' \in Boxes /\ box'.id = box.id /\ box'.up /\ box.id # 0
    <3>1. box \in Boxes /\ box.id # 0
      BY <1>2, <1>4 DEF MachineInv, MachineIsTyped, HoldsIds
    <3> QED
      BY <2>1, <3>1 DEF Boxes
  <2>6. AroundIsTyped'
    BY <1>1, <2>1, <2>5 DEF MachineInv, MachineIsTyped, AroundIsTyped
  <2>7. NoParkedGrant'
    <3>1. SUFFICES ASSUME proxy.grant = "parked" PROVE late'
      BY <1>1 DEF NoParkedGrant
    <3>2. r \in overtaken
      BY <1>2, <3>1 DEF StillReplaces
    <3> QED
      BY <2>1, <3>1, <3>2 DEF MachineInv, NoParkedGrant
  <2>8. StillReplaces(r)'
    BY <1>1, <2>4, ReplacesOn
  <2>9. HoldsIds(r)'
    BY <1>1, <2>3, <2>4, NamesOn
  <2>10. ASSUME req'[r].alone, Reviving(r)' PROVE Working(r)' /\ OnCourse(r)'
    <3>1. OnCourse(r) /\ Head(req[r].todo) = "startBox"
      BY <1>1, <2>3, <2>4, <2>10, CourseFacts DEF Reviving
    <3>2. Head(req'[r].todo) = "boxReady"
      BY <2>4, <2>10, AfterFacts
    <3> QED
      BY <1>1, <2>3, <2>4, <2>5, <2>10, <3>1, <3>2 DEF OnCourse
  <2> QED
    BY <1>1, <2>3, <2>4, <2>6, <2>7, <2>8, <2>9, <2>10, OwnStepKeeps
<1> QED
  BY <1>3, <1>4

LEMMA MakeBoxKeeps ==
    ASSUME MachineInv, NEW r \in Requests, MakeBox(r)
    PROVE  MachineInv'
<1> DEFINE new == [Next1(r) EXCEPT !.box = box'.id]
<1>1. /\ Calling(r, "makeBox") /\ Go(r, new) /\ UNCHANGED <<proxy, overtaken, late, idle, busy>>
      /\ box' = IF box.id = 0 THEN [id |-> FreshId, up |-> FALSE] ELSE box
  BY DEF MakeBox, history
<1>2. FreshId \in Ids /\ 0 \notin Ids
  BY FreshIdIsNew, IdFacts
<1>3. /\ box' \in Boxes /\ box'.id # 0 /\ box'.id \in {0} \cup Ids /\ (box'.up => box.up)
  BY <1>1, <1>2 DEF MachineInv, MachineIsTyped, Boxes
<1>4. 0 \in {0} \cup Ids
  OBVIOUS
<1>5. /\ Next1(r) \in RequestStates /\ Next1(r).todo = Tail(req[r].todo) /\ Next1(r).kind = req[r].kind
      /\ Next1(r).alone = req[r].alone
  BY <1>1, <1>4, NewFacts
<1>6. /\ new \in RequestStates /\ new.todo = Tail(req[r].todo) /\ new.kind = req[r].kind
      /\ new.alone = req[r].alone /\ new.box = box'.id
  BY <1>3, <1>5 DEF RequestStates
<1> HIDE DEF new
<1>7. /\ Aside(r) /\ req'[r] = new /\ Planned(r)'
      /\ Working(r)' => Head(req'[r].todo) \in After("makeBox")
      /\ Reviving(r)' => Working(r)'
  BY <1>1, <1>6, MovesOn
<1>8. Working(r)' => Head(req'[r].todo) = "makeNewProxy"
  BY <1>7, AfterFacts
<1>9. AroundIsTyped' /\ NoParkedGrant'
  BY <1>1, <1>3 DEF MachineInv, MachineIsTyped, AroundIsTyped, NoParkedGrant
<1>10. StillReplaces(r)' /\ HoldsIds(r)'
  BY <1>3, <1>6, <1>7, <1>8 DEF StillReplaces, HoldsIds
<1>11. Working(r)' => OnCourse(r)'
  BY <1>3, <1>6, <1>7, <1>8 DEF OnCourse
<1> QED
  BY <1>1, <1>6, <1>7, <1>9, <1>10, <1>11, OwnStepKeeps

\* The grant a stop parks, it parks in the sight of everybody in flight.
LEMMA StopBoxKeeps ==
    ASSUME MachineInv, NEW r \in Requests, StopBox(r)
    PROVE  MachineInv'
<1>1. /\ Calling(r, "stopBox") /\ Go(r, Next1(r)) /\ UNCHANGED <<late, idle, busy>>
  BY DEF StopBox
<1>2. 0 \in {0} \cup Ids /\ ~Reviving(r) /\ Working(r)
  BY <1>1, CallFacts DEF RevivalCalls
<1>3. /\ Next1(r) \in RequestStates /\ Next1(r).todo = Tail(req[r].todo) /\ Next1(r).kind = req[r].kind
      /\ Next1(r).alone = req[r].alone /\ Next1(r).box = req[r].box /\ Next1(r).proxy = req[r].proxy
  BY <1>1, <1>2, NewFacts
<1>4. /\ Aside(r) /\ req'[r] = Next1(r) /\ Planned(r)'
      /\ Working(r)' => Head(req'[r].todo) \in After("stopBox")
  BY <1>1, <1>3, MovesOn
<1>5. HoldsIds(r)'
  BY <1>1, <1>3, <1>4, NamesOn
<1>6. box \in Boxes /\ proxy \in Proxies
  BY DEF MachineInv, MachineIsTyped
<1>7. CASE box.id = req[r].box /\ box.up
  <2>1. /\ box' = [box EXCEPT !.up = FALSE]
        /\ proxy' = [proxy EXCEPT !.grant = IF @ = "live" THEN "parked" ELSE @]
        /\ overtaken' = IF proxy.grant = "none" THEN overtaken ELSE {q \in Requests : Working(q)}
    BY <1>7 DEF StopBox
  <2>2. box' \in Boxes /\ ~box'.up
    BY <1>6, <2>1 DEF Boxes
  <2>3. /\ proxy' \in Proxies /\ proxy'.id = proxy.id /\ proxy'.up = proxy.up
        /\ (proxy'.grant # "none" => proxy.grant # "none")
    BY <1>6, <2>1 DEF Proxies
  <2>4. proxy'.grant = "parked" => \A q \in Requests : Working(q) => q \in overtaken'
    BY <2>1, <2>3
  <2>5. AroundIsTyped' /\ NoParkedGrant'
    BY <1>1, <2>2, <2>3 DEF MachineInv, MachineIsTyped, AroundIsTyped, NoParkedGrant
  <2>6. StillReplaces(r)'
    BY <1>2, <2>4 DEF StillReplaces
  <2> QED
    BY <1>2, <1>3, <1>4, <1>5, <2>4, <2>5, <2>6, OwnStepKeeps DEF Reviving
<1>8. CASE ~(box.id = req[r].box /\ box.up)
  <2>1. UNCHANGED <<box, proxy, overtaken>>
    BY <1>8 DEF StopBox
  <2>2. StillReplaces(r)'
    BY <1>1, <1>4, <2>1, ReplacesOn
  <2>3. idle' \in Unseen .. IdleTimeout /\ busy' \in BOOLEAN
    BY <1>1 DEF MachineInv, MachineIsTyped
  <2> QED
    BY <1>1, <1>2, <1>3, <1>4, <1>5, <2>1, <2>2, <2>3, LookKeeps DEF Reviving
<1> QED
  BY <1>7, <1>8

LEMMA DropBoxKeeps ==
    ASSUME MachineInv, NEW r \in Requests, DropBox(r)
    PROVE  MachineInv'
<1>1. /\ Calling(r, "dropBox") /\ Go(r, Next1(r)) /\ UNCHANGED <<proxy, overtaken, late, idle, busy>>
      /\ box' = IF box.id = req[r].box THEN NoBox ELSE box
  BY DEF DropBox, UndoBox, history
<1>2. 0 \in {0} \cup Ids
  OBVIOUS
<1>3. /\ Next1(r) \in RequestStates /\ Next1(r).todo = Tail(req[r].todo) /\ Next1(r).kind = req[r].kind
      /\ Next1(r).alone = req[r].alone /\ Next1(r).box = req[r].box /\ Next1(r).proxy = req[r].proxy
  BY <1>1, <1>2, NewFacts
<1>4. /\ Aside(r) /\ req'[r] = Next1(r) /\ Planned(r)'
      /\ Working(r)' => Head(req'[r].todo) \in After("dropBox")
      /\ Reviving(r)' => Working(r)'
  BY <1>1, <1>3, MovesOn
<1>5. NoBox \in Boxes /\ NoBox.id = 0 /\ ~NoBox.up
  BY IdFacts DEF NoBox
<1>6. AroundIsTyped' /\ NoParkedGrant'
  BY <1>1, <1>5 DEF MachineInv, MachineIsTyped, AroundIsTyped, NoParkedGrant
<1>7. StillReplaces(r)'
  BY <1>1, <1>4, ReplacesOn
<1>8. HoldsIds(r)'
  BY <1>1, <1>3, <1>4, NamesOn
<1>9. ASSUME req'[r].alone, Reviving(r)' PROVE Working(r)' /\ OnCourse(r)'
  <2>1. OnCourse(r) /\ Head(req[r].todo) = "dropBox"
    BY <1>1, <1>3, <1>4, <1>9, CourseFacts DEF Reviving
  <2>2. Head(req'[r].todo) = "dropNetwork"
    BY <1>4, <1>9, AfterFacts
  <2> QED
    BY <1>1, <1>3, <1>4, <1>5, <1>9, <2>1, <2>2 DEF OnCourse
<1> QED
  BY <1>1, <1>3, <1>4, <1>6, <1>7, <1>8, <1>9, OwnStepKeeps

LEMMA DropNetworkKeeps ==
    ASSUME MachineInv, NEW r \in Requests, DropNetwork(r)
    PROVE  MachineInv'
<1>1. Calling(r, "dropNetwork") /\ UNCHANGED <<box, proxy, overtaken, late, idle>>
  BY DEF DropNetwork, history
<1>2. CASE ~(box.id = 0 /\ proxy.id = 0)
  <2>1. Throw(r)
    BY <1>2 DEF DropNetwork
  <2>2. ~(req[r].alone /\ Reviving(r))
    BY <1>1, <1>2, CourseFacts DEF OnCourse
  <2> QED
    BY <1>1, <2>1, <2>2, ThrowKeeps
<1>3. CASE box.id = 0 /\ proxy.id = 0
  <2>1. Go(r, Answer(r)) /\ UNCHANGED busy
    BY <1>3 DEF DropNetwork
  <2>2. /\ Aside(r) /\ req'[r] = Answer(r) /\ Planned(r)'
        /\ Working(r)' => Head(req'[r].todo) \in After("dropNetwork")
        /\ Reviving(r)' => Working(r)'
    BY <1>1, <2>1, AnswerFacts, MovesOn
  <2>3. req'[r].alone = req[r].alone
    BY <1>1, <2>2, AnswerFacts
  <2>4. Working(r)' => Head(req'[r].todo) = "findEnsure"
    BY <2>2, AfterFacts
  <2>5. HoldsIds(r)' /\ StillReplaces(r)' /\ (Working(r)' => OnCourse(r)')
    BY <1>1, <1>3, <2>4 DEF HoldsIds, StillReplaces, OnCourse
  <2>6. idle' \in Unseen .. IdleTimeout /\ busy' \in BOOLEAN
    BY <1>1, <2>1 DEF MachineInv, MachineIsTyped
  <2> QED
    BY <1>1, <2>2, <2>3, <2>5, <2>6, LookKeeps
<1> QED
  BY <1>2, <1>3

-----------------------------------------------------------------------------
(* Grants *)

LEMMA SeeLiveProxyKeeps ==
    ASSUME MachineInv, NEW r \in Requests, SeeLiveProxy(r)
    PROVE  MachineInv'
<1>1. PICK c \in {"seeLive", "seeRevoke"} : Calling(r, c)
  BY DEF SeeLiveProxy
<1>2. /\ UNCHANGED <<box, proxy, overtaken, late, idle>>
      /\ \/ proxy.up /\ Go(r, [Next1(r) EXCEPT !.proxy = proxy.id]) /\ UNCHANGED busy
         \/ Go(r, Done(r, "ok")) /\ UNCHANGED busy
         \/ Throw(r)
  BY DEF SeeLiveProxy, daemon, history
<1>3. ~Reviving(r) /\ 0 \in {0} \cup Ids
  BY <1>1, CallFacts DEF RevivalCalls
<1>4. idle' \in Unseen .. IdleTimeout /\ busy \in BOOLEAN
  BY <1>2 DEF MachineInv, MachineIsTyped
<1>5. CASE Throw(r)
  BY <1>1, <1>2, <1>3, <1>5, ThrowKeeps
<1>6. CASE Go(r, Done(r, "ok")) /\ UNCHANGED busy
  <2>1. /\ Done(r, "ok") \in RequestStates /\ Done(r, "ok").todo = <<>>
        /\ Done(r, "ok").kind = req[r].kind /\ Done(r, "ok").alone = req[r].alone
    BY <1>1, <1>3, NewFacts
  <2>2. /\ Aside(r) /\ req'[r] = Done(r, "ok") /\ Planned(r)' /\ ~Working(r)' /\ HoldsIds(r)' /\ StillReplaces(r)'
    BY <1>6, <2>1, EndsThere
  <2> QED
    BY <1>2, <1>3, <1>4, <1>6, <2>1, <2>2, LookKeeps DEF Reviving
<1>7. CASE proxy.up /\ Go(r, [Next1(r) EXCEPT !.proxy = proxy.id]) /\ UNCHANGED busy
  <2> DEFINE new == [Next1(r) EXCEPT !.proxy = proxy.id]
  <2>1. proxy.id \in {0} \cup Ids /\ proxy.id # 0
    BY <1>7 DEF MachineInv, MachineIsTyped, Proxies
  <2>2. /\ new \in RequestStates /\ new.todo = Tail(req[r].todo) /\ new.kind = req[r].kind
        /\ new.alone = req[r].alone /\ new.proxy = proxy.id
    BY <1>1, <2>1, NewFacts
  <2>3. Go(r, new)
    BY <1>7
  <2> HIDE DEF new
  <2>4. /\ Aside(r) /\ req'[r] = new /\ Planned(r)'
        /\ Working(r)' => Head(req'[r].todo) \in After(c)
    BY <1>1, <2>2, <2>3, MovesOn
  <2>5. Working(r)' => Head(req'[r].todo) \in {"putGrant", "putTombstone"}
    BY <2>4, AfterFacts
  <2>6. HoldsIds(r)' /\ StillReplaces(r)'
    BY <2>1, <2>2, <2>4, <2>5 DEF HoldsIds, StillReplaces
  <2> QED
    BY <1>2, <1>3, <1>4, <1>7, <2>2, <2>4, <2>6, LookKeeps DEF Reviving
<1> QED
  BY <1>2, <1>5, <1>6, <1>7

LEMMA PutGrantKeeps ==
    ASSUME MachineInv, NEW r \in Requests, PutGrant(r)
    PROVE  MachineInv'
<1>1. PICK c \in {"putGrant", "putTombstone"} : Calling(r, c)
  BY DEF PutGrant
<1>2. UNCHANGED <<box, overtaken, late, idle>>
  BY DEF PutGrant, history
<1>3. ~Reviving(r) /\ HoldsIds(r) /\ Working(r) /\ Head(req[r].todo) = c
  BY <1>1, CallFacts DEF RevivalCalls
<1>4. CASE proxy.id # req[r].proxy
  <2>1. Throw(r) /\ UNCHANGED proxy
    BY <1>4 DEF PutGrant
  <2> QED
    BY <1>1, <1>2, <1>3, <2>1, ThrowKeeps
<1>5. CASE proxy.id = req[r].proxy
  <2>1. PICK g \in {"live", "none"} : proxy' = [proxy EXCEPT !.grant = g]
    BY <1>5 DEF PutGrant
  <2>2. Go(r, Answer(r)) /\ UNCHANGED busy
    BY <1>5 DEF PutGrant
  <2>3. proxy \in Proxies /\ proxy.id # 0
    BY <1>3, <1>5 DEF MachineInv, MachineIsTyped, HoldsIds
  <2>4. /\ proxy' \in Proxies /\ proxy'.id # 0 /\ proxy'.grant # "parked"
    BY <2>1, <2>3 DEF Proxies
  <2>5. AroundIsTyped' /\ NoParkedGrant'
    BY <1>2, <2>2, <2>4 DEF MachineInv, MachineIsTyped, AroundIsTyped, NoParkedGrant
  <2>6. /\ Aside(r) /\ req'[r] = Answer(r) /\ Planned(r)'
        /\ Working(r)' => Head(req'[r].todo) \in After(c)
    BY <1>1, <2>2, AnswerFacts, MovesOn
  <2>7. ~Working(r)'
    BY <2>6, AfterFacts
  <2>8. HoldsIds(r)' /\ StillReplaces(r)'
    BY <2>7 DEF HoldsIds, StillReplaces
  <2>9. req'[r].alone = req[r].alone /\ ~Reviving(r)'
    BY <1>1, <1>3, <2>6, AnswerFacts DEF Reviving
  <2> QED
    BY <2>4, <2>5, <2>6, <2>8, <2>9, OwnStepKeeps
<1> QED
  BY <1>4, <1>5

-----------------------------------------------------------------------------
(* Arrivals, the sweep and the supervisor's own start *)

\* A plan of one, two or three calls.
LEMMA ShortPlans ==
    /\ \A a \in CallNames : /\ <<a>> \in Seq(CallNames) /\ <<a>> # <<>> /\ Ordered(<<a>>) /\ Head(<<a>>) = a
                            /\ a \in RevivalCalls /\ a = "touch" => Revival(<<a>>)
    /\ \A a, b \in CallNames : b \in After(a) =>
         /\ <<a, b>> \in Seq(CallNames) /\ <<a, b>> # <<>> /\ Ordered(<<a, b>>) /\ Head(<<a, b>>) = a
         /\ a \in RevivalCalls /\ b \in RevivalCalls /\ b = "touch" => Revival(<<a, b>>)
    /\ \A a, b, c \in CallNames : b \in After(a) /\ c \in After(b) =>
         /\ <<a, b, c>> \in Seq(CallNames) /\ <<a, b, c>> # <<>> /\ Ordered(<<a, b, c>>) /\ Head(<<a, b, c>>) = a
         /\ a \in RevivalCalls /\ b \in RevivalCalls /\ c \in RevivalCalls /\ c = "touch" => Revival(<<a, b, c>>)
<1>1. ASSUME NEW a \in CallNames
      PROVE  /\ <<a>> \in Seq(CallNames) /\ <<a>> # <<>> /\ Ordered(<<a>>) /\ Head(<<a>>) = a
             /\ a \in RevivalCalls /\ a = "touch" => Revival(<<a>>)
  <2> DEFINE s == <<a>>
  <2>1. s \in Seq(CallNames) /\ Len(s) = 1 /\ s # <<>> /\ Head(s) = a /\ s[1] = a
    OBVIOUS
  <2> HIDE DEF s
  <2>2. Ordered(s) /\ (a \in RevivalCalls /\ a = "touch" => Revival(s))
    BY <2>1 DEF Ordered, Revival
  <2> QED
    BY <2>1, <2>2 DEF s
<1>2. ASSUME NEW a \in CallNames, NEW b \in CallNames, b \in After(a)
      PROVE  /\ <<a, b>> \in Seq(CallNames) /\ <<a, b>> # <<>> /\ Ordered(<<a, b>>) /\ Head(<<a, b>>) = a
             /\ a \in RevivalCalls /\ b \in RevivalCalls /\ b = "touch" => Revival(<<a, b>>)
  <2> DEFINE s == <<a, b>>
  <2>1. s \in Seq(CallNames) /\ Len(s) = 2 /\ s # <<>> /\ Head(s) = a /\ s[1] = a /\ s[2] = b
    OBVIOUS
  <2> HIDE DEF s
  <2>2. (\A n \in 1 .. 2 : n = 1 \/ n = 2) /\ (\A n \in 1 .. 1 : n = 1)
    OBVIOUS
  <2>3. Ordered(s)
    BY <1>2, <2>1, <2>2 DEF Ordered
  <2>4. a \in RevivalCalls /\ b \in RevivalCalls /\ b = "touch" => Revival(s)
    BY <2>1, <2>2 DEF Revival
  <2> QED
    BY <2>1, <2>3, <2>4 DEF s
<1>3. ASSUME NEW a \in CallNames, NEW b \in CallNames, NEW c \in CallNames, b \in After(a), c \in After(b)
      PROVE  /\ <<a, b, c>> \in Seq(CallNames) /\ <<a, b, c>> # <<>> /\ Ordered(<<a, b, c>>)
             /\ Head(<<a, b, c>>) = a
             /\ a \in RevivalCalls /\ b \in RevivalCalls /\ c \in RevivalCalls /\ c = "touch"
                  => Revival(<<a, b, c>>)
  <2> DEFINE s == <<a, b, c>>
  <2>1. /\ s \in Seq(CallNames) /\ Len(s) = 3 /\ s # <<>> /\ Head(s) = a
        /\ s[1] = a /\ s[2] = b /\ s[3] = c
    OBVIOUS
  <2> HIDE DEF s
  <2>2. (\A n \in 1 .. 3 : n = 1 \/ n = 2 \/ n = 3) /\ (\A n \in 1 .. 2 : n = 1 \/ n = 2)
    OBVIOUS
  <2>3. Ordered(s)
    BY <1>3, <2>1, <2>2 DEF Ordered
  <2>4. a \in RevivalCalls /\ b \in RevivalCalls /\ c \in RevivalCalls /\ c = "touch" => Revival(s)
    BY <2>1, <2>2 DEF Revival
  <2> QED
    BY <2>1, <2>3, <2>4 DEF s
<1> QED
  BY <1>1, <1>2, <1>3

LEMMA CallsAreOrdered ==
    ASSUME NEW kind \in Kinds
    PROVE  /\ FirstCalls(kind) \in Seq(CallNames) /\ FirstCalls(kind) # <<>> /\ Ordered(FirstCalls(kind))
           /\ Head(FirstCalls(kind)) \in {"findEnsure", "findStop", "findRemove", "findExec", "seeLive", "seeRevoke"}
           /\ kind \in {"boot", "reset"} => Revival(FirstCalls(kind))
           /\ Head(FirstCalls(kind)) = "findEnsure" => kind = "boot"
<1>1. kind \in {"boot", "stop", "reset", "destroy", "exec", "grant", "revoke"}
  BY MachineAssumption
<1>2. /\ {"findEnsure", "touch", "findStop", "findRemove", "findExec", "begin", "running", "seeLive",
          "putGrant", "seeRevoke", "putTombstone"} \subseteq CallNames
      /\ {"findEnsure", "touch", "findRemove"} \subseteq RevivalCalls
  BY DEF CallNames, RevivalCalls
<1>3. CASE kind = "boot"
  <2> DEFINE s == <<"findEnsure", "touch">>
  <2>1. FirstCalls(kind) = s
    BY <1>3 DEF FirstCalls
  <2>2. "findEnsure" \in CallNames /\ "touch" \in CallNames /\ "touch" \in After("findEnsure")
    BY <1>2, AfterFacts
  <2>3. s \in Seq(CallNames) /\ s # <<>> /\ Ordered(s) /\ Head(s) = "findEnsure" /\ Revival(s)
    BY <1>2, <2>2, ShortPlans
  <2> HIDE DEF s
  <2> QED
    BY <1>3, <2>1, <2>3
<1>4. CASE kind = "stop"
  <2> DEFINE s == <<"findStop">>
  <2>1. FirstCalls(kind) = s
    BY <1>4 DEF FirstCalls
  <2>2. "findStop" \in CallNames
    BY <1>2, AfterFacts
  <2>3. s \in Seq(CallNames) /\ s # <<>> /\ Ordered(s) /\ Head(s) = "findStop"
    BY <1>2, <2>2, ShortPlans
  <2> HIDE DEF s
  <2> QED
    BY <1>4, <2>1, <2>3
<1>5. CASE kind = "reset"
  <2> DEFINE s == <<"findRemove", "findEnsure", "touch">>
  <2>1. FirstCalls(kind) = s
    BY <1>5 DEF FirstCalls
  <2>2. "findRemove" \in CallNames /\ "findEnsure" \in CallNames /\ "touch" \in CallNames /\ "findEnsure" \in After("findRemove") /\ "touch" \in After("findEnsure")
    BY <1>2, AfterFacts
  <2>3. s \in Seq(CallNames) /\ s # <<>> /\ Ordered(s) /\ Head(s) = "findRemove" /\ Revival(s)
    BY <1>2, <2>2, ShortPlans
  <2> HIDE DEF s
  <2> QED
    BY <1>5, <2>1, <2>3
<1>6. CASE kind = "destroy"
  <2> DEFINE s == <<"findRemove">>
  <2>1. FirstCalls(kind) = s
    BY <1>6 DEF FirstCalls
  <2>2. "findRemove" \in CallNames
    BY <1>2, AfterFacts
  <2>3. s \in Seq(CallNames) /\ s # <<>> /\ Ordered(s) /\ Head(s) = "findRemove"
    BY <1>2, <2>2, ShortPlans
  <2> HIDE DEF s
  <2> QED
    BY <1>6, <2>1, <2>3
<1>7. CASE kind = "exec"
  <2> DEFINE s == <<"findExec", "begin", "running">>
  <2>1. FirstCalls(kind) = s
    BY <1>7 DEF FirstCalls
  <2>2. "findExec" \in CallNames /\ "begin" \in CallNames /\ "running" \in CallNames /\ "begin" \in After("findExec") /\ "running" \in After("begin")
    BY <1>2, AfterFacts
  <2>3. s \in Seq(CallNames) /\ s # <<>> /\ Ordered(s) /\ Head(s) = "findExec"
    BY <1>2, <2>2, ShortPlans
  <2> HIDE DEF s
  <2> QED
    BY <1>7, <2>1, <2>3
<1>8. CASE kind = "grant"
  <2> DEFINE s == <<"seeLive", "putGrant">>
  <2>1. FirstCalls(kind) = s
    BY <1>8 DEF FirstCalls
  <2>2. "seeLive" \in CallNames /\ "putGrant" \in CallNames /\ "putGrant" \in After("seeLive")
    BY <1>2, AfterFacts
  <2>3. s \in Seq(CallNames) /\ s # <<>> /\ Ordered(s) /\ Head(s) = "seeLive"
    BY <1>2, <2>2, ShortPlans
  <2> HIDE DEF s
  <2> QED
    BY <1>8, <2>1, <2>3
<1>9. CASE kind = "revoke"
  <2> DEFINE s == <<"seeRevoke", "putTombstone">>
  <2>1. FirstCalls(kind) = s
    BY <1>9 DEF FirstCalls
  <2>2. "seeRevoke" \in CallNames /\ "putTombstone" \in CallNames /\ "putTombstone" \in After("seeRevoke")
    BY <1>2, AfterFacts
  <2>3. s \in Seq(CallNames) /\ s # <<>> /\ Ordered(s) /\ Head(s) = "seeRevoke"
    BY <1>2, <2>2, ShortPlans
  <2> HIDE DEF s
  <2> QED
    BY <1>9, <2>1, <2>3
<1> QED
  BY <1>1, <1>3, <1>4, <1>5, <1>6, <1>7, <1>8, <1>9

LEMMA SubmitKeeps ==
    ASSUME MachineInv, NEW r \in Clients, NEW kind \in Kinds, Submit(r, kind)
    PROVE  MachineInv'
<1> DEFINE new == Request(kind, FirstCalls(kind), Quiet)
<1>1. /\ Go(r, new) /\ UNCHANGED <<box, proxy, overtaken, late>> /\ busy' = (busy \/ kind = "exec")
      /\ idle' = 0 \/ idle' = Unseen \/ idle' = idle
  BY DEF Submit, daemon, history
<1>2. idle' \in Unseen .. IdleTimeout /\ busy' \in BOOLEAN
  BY <1>1, MachineAssumption DEF MachineInv, MachineIsTyped, Unseen
<1>3. r \in Requests /\ Quiet \in BOOLEAN /\ kind \in Kinds \cup {"none", "answered", "sweep", "reconcile"}
  BY DEF Requests, Quiet
<1>4. /\ FirstCalls(kind) \in Seq(CallNames) /\ FirstCalls(kind) # <<>> /\ Ordered(FirstCalls(kind))
      /\ Head(FirstCalls(kind)) \in {"findEnsure", "findStop", "findRemove", "findExec", "seeLive", "seeRevoke"}
      /\ kind \in {"boot", "reset"} => Revival(FirstCalls(kind))
      /\ Head(FirstCalls(kind)) = "findEnsure" => kind = "boot"
  BY CallsAreOrdered
<1>5. new \in RequestStates /\ new.kind = kind /\ new.todo = FirstCalls(kind) /\ new.alone = Quiet
  BY <1>3, <1>4, RequestFacts
<1> HIDE DEF new
<1>6. Aside(r) /\ req'[r] = new
  BY <1>1, <1>3, <1>5, GoFacts DEF MachineInv
<1>7. Planned(r)' /\ Working(r)'
  BY <1>4, <1>5, <1>6 DEF Planned, Reviving, Working
<1>8. HoldsIds(r)' /\ StillReplaces(r)' /\ OnCourse(r)'
  BY <1>4, <1>5, <1>6 DEF HoldsIds, StillReplaces, OnCourse
<1> QED
  BY <1>1, <1>2, <1>3, <1>5, <1>6, <1>7, <1>8, LookKeeps

LEMMA SweepKeeps ==
    ASSUME MachineInv, Sweep \/ ReconcileList
    PROVE  MachineInv'
<1>1. /\ UNCHANGED <<box, proxy, overtaken, late, busy>> /\ "sweeper" \in Requests /\ "reconciler" \in Requests
  BY DEF Sweep, SweepList, SweepCheck, SweepForget, ReconcileList, daemon, history, Requests
<1>2. idle' \in Unseen .. IdleTimeout /\ busy' \in BOOLEAN
  <2>1. idle' = 0 \/ idle' = Unseen \/ idle' = idle
    BY DEF Sweep, SweepList, SweepCheck, SweepForget, ReconcileList
  <2> QED
    BY <1>1, <2>1, MachineAssumption DEF MachineInv, MachineIsTyped, Unseen
<1>3. {"check", "findStop", "forget", "findEnsure", "touch"} \subseteq CallNames /\ 0 \in {0} \cup Ids
  BY DEF CallNames, RevivalCalls
<1>4. ASSUME NEW r \in Requests, NEW new \in RequestStates, Go(r, new), Ordered(new.todo),
             new.alone => req[r].alone, new.kind \notin {"boot", "reset"},
             new.todo # <<>> => Head(new.todo) \in {"check", "findStop", "forget", "findEnsure", "touch"}
      PROVE  MachineInv'
  <2>1. Aside(r) /\ req'[r] = new
    BY <1>4, GoFacts DEF MachineInv
  <2>2. Planned(r)' /\ ~Reviving(r)' /\ HoldsIds(r)' /\ StillReplaces(r)'
    BY <1>4, <2>1 DEF Planned, Reviving, Working, HoldsIds, StillReplaces
  <2> QED
    BY <1>1, <1>2, <1>4, <2>1, <2>2, LookKeeps
<1>5. CASE SweepList
  <2> DEFINE new == Request("sweep", <<"check">>, FALSE)
  <2>1. Go("sweeper", new)
    BY <1>5 DEF SweepList
  <2>2. <<"check">> \in Seq(CallNames) /\ Ordered(<<"check">>) /\ Head(<<"check">>) = "check"
    BY <1>3, ShortPlans
  <2>3. new \in RequestStates /\ new.kind = "sweep" /\ new.todo = <<"check">> /\ ~new.alone
    BY <2>2, RequestFacts
  <2> HIDE DEF new
  <2> QED
    BY <1>1, <1>4, <2>1, <2>2, <2>3
<1>6. CASE SweepCheck
  <2>1. Calling("sweeper", "check")
    BY <1>6 DEF SweepCheck
  <2>2. req["sweeper"] \in RequestStates /\ req["sweeper"].kind \notin {"boot", "reset"}
    BY <1>1, <2>1, CallFacts DEF RevivalCalls, Reviving
  <2> DEFINE plan == <<"findStop", "forget">>
             go == [req["sweeper"] EXCEPT !.todo = plan]
  <2>3. Go("sweeper", go) \/ Go("sweeper", Done("sweeper", "ok"))
    BY <1>6 DEF SweepCheck
  <2>4. plan \in Seq(CallNames) /\ Ordered(plan) /\ Head(plan) = "findStop"
    BY <1>3, ShortPlans, AfterFacts
  <2> HIDE DEF plan
  <2>5. go \in RequestStates /\ go.kind = req["sweeper"].kind /\ go.todo = plan /\ go.alone = req["sweeper"].alone
    BY <2>2, <2>4 DEF RequestStates
  <2> HIDE DEF go
  <2>6. CASE Go("sweeper", go)
    BY <1>1, <1>4, <2>2, <2>4, <2>5, <2>6
  <2>7. CASE Go("sweeper", Done("sweeper", "ok"))
    <3>1. /\ Done("sweeper", "ok") \in RequestStates /\ Done("sweeper", "ok").todo = <<>>
          /\ Done("sweeper", "ok").kind = req["sweeper"].kind /\ Done("sweeper", "ok").alone = req["sweeper"].alone
      BY <1>1, <1>3, <2>1, NewFacts
    <3>2. Ordered(<<>>)
      BY DEF Ordered
    <3> QED
      BY <1>1, <1>4, <2>2, <2>7, <3>1, <3>2
  <2> QED
    BY <2>3, <2>6, <2>7
<1>7. CASE SweepForget
  <2>1. Calling("sweeper", "forget") /\ Go("sweeper", Done("sweeper", "ok"))
    BY <1>7 DEF SweepForget
  <2>2. req["sweeper"].kind \notin {"boot", "reset"}
    BY <1>1, <2>1, CallFacts DEF RevivalCalls, Reviving
  <2>3. /\ Done("sweeper", "ok") \in RequestStates /\ Done("sweeper", "ok").todo = <<>>
        /\ Done("sweeper", "ok").kind = req["sweeper"].kind /\ Done("sweeper", "ok").alone = req["sweeper"].alone
    BY <1>1, <1>3, <2>1, NewFacts
  <2>4. Ordered(<<>>)
    BY DEF Ordered
  <2> QED
    BY <1>1, <1>4, <2>1, <2>2, <2>3, <2>4
<1>8. CASE ReconcileList
  <2> DEFINE plan == IF box.up THEN <<"findEnsure", "touch">> ELSE IF box.id # 0 THEN <<"touch">> ELSE <<>>
             go == [req["reconciler"] EXCEPT !.todo = plan]
  <2>1. Calling("reconciler", "adopt") /\ Go("reconciler", go)
    BY <1>8 DEF ReconcileList
  <2>2. req["reconciler"] \in RequestStates /\ req["reconciler"].kind \notin {"boot", "reset"}
    BY <1>1, <2>1, CallFacts DEF RevivalCalls, Reviving
  <2>3. /\ plan \in Seq(CallNames) /\ Ordered(plan)
        /\ plan # <<>> => Head(plan) \in {"findEnsure", "touch"}
    <3>1. <<>> \in Seq(CallNames) /\ Ordered(<<>>)
      BY DEF Ordered
    <3>2. <<"touch">> \in Seq(CallNames) /\ Ordered(<<"touch">>) /\ Head(<<"touch">>) = "touch"
      BY <1>3, ShortPlans
    <3>3. /\ <<"findEnsure", "touch">> \in Seq(CallNames) /\ Ordered(<<"findEnsure", "touch">>)
          /\ Head(<<"findEnsure", "touch">>) = "findEnsure"
      BY <1>3, ShortPlans, AfterFacts
    <3> QED
      BY <3>1, <3>2, <3>3
  <2> HIDE DEF plan
  <2>4. /\ go \in RequestStates /\ go.kind = req["reconciler"].kind /\ go.todo = plan
        /\ go.alone = req["reconciler"].alone
    BY <2>2, <2>3 DEF RequestStates
  <2> HIDE DEF go
  <2> QED
    BY <1>1, <1>4, <2>1, <2>2, <2>3, <2>4
<1> QED
  BY <1>5, <1>6, <1>7, <1>8 DEF Sweep

-----------------------------------------------------------------------------
(* What comes from outside *)

\* A supervisor that died knows of nothing; its machine is as it left it.
LEMMA SupervisorDiesKeeps ==
    ASSUME MachineInv, SupervisorDies
    PROVE  MachineInv'
<1>1. /\ UNCHANGED <<box, proxy, late>> /\ idle' = Unseen /\ busy' = FALSE
      /\ req' = [r \in Requests |->
               IF r = "reconciler"
               THEN Request("reconcile", <<"adopt", "touch">>, FALSE)
               ELSE IF req[r] = NoRequest THEN NoRequest ELSE Answered]
  BY DEF SupervisorDies, daemon
<1> DEFINE plan == <<"adopt", "touch">>
           new == Request("reconcile", plan, FALSE)
<1>2. plan \in Seq(CallNames) /\ plan # <<>> /\ Ordered(plan) /\ Head(plan) = "adopt"
  <2>1. "adopt" \in CallNames /\ "touch" \in CallNames
    BY DEF CallNames, RevivalCalls
  <2> QED
    BY <2>1, ShortPlans, AfterFacts
<1> HIDE DEF plan
<1>3. new \in RequestStates /\ new.kind = "reconcile" /\ new.todo = plan /\ ~new.alone
  BY <1>2, RequestFacts
<1> HIDE DEF new
<1>4. \A r \in Requests : req'[r] = new \/ req'[r] = NoRequest \/ req'[r] = Answered
  BY <1>1 DEF new, plan
<1>5. req' \in [Requests -> RequestStates]
  <2>1. /\ req' = [r \in Requests |->
               IF r = "reconciler" THEN new ELSE IF req[r] = NoRequest THEN NoRequest ELSE Answered]
    BY <1>1 DEF new, plan
  <2> QED
    BY <1>3, <2>1, IdleFacts
<1>6. MachineIsTyped' /\ NoParkedGrant'
  <2>1. Unseen \in Unseen .. IdleTimeout
    BY MachineAssumption DEF Unseen
  <2> QED
    BY <1>1, <1>5, <2>1 DEF MachineInv, MachineIsTyped, NoParkedGrant
<1>7. ASSUME NEW r \in Requests PROVE Planned(r)' /\ HoldsIds(r)' /\ StillReplaces(r)' /\ Undisturbed(r)'
  <2>1. /\ ~req'[r].alone /\ req'[r].kind \notin {"boot", "reset"}
        /\ req'[r].todo = plan \/ req'[r].todo = <<>>
    BY <1>3, <1>4, IdleFacts
  <2>2. Ordered(<<>>)
    BY DEF Ordered
  <2> QED
    BY <1>2, <2>1, <2>2 DEF Planned, Reviving, HoldsIds, StillReplaces, Undisturbed, Working
<1> QED
  BY <1>6, <1>7 DEF MachineInv

LEMMA DaemonRefusesKeeps ==
    ASSUME MachineInv, NEW r \in Requests, DaemonRefuses(r)
    PROVE  MachineInv'
<1>1. /\ Working(r) /\ UNCHANGED <<proxy, idle, overtaken, late>>
      /\ req' = [q \in Requests |-> IF q = r THEN Answered ELSE req[q]]
      /\ busy' = FALSE \/ busy' = busy
      /\ box' = NoBox \/ box' = box
  BY DEF DaemonRefuses, history
<1>2. req \in [Requests -> RequestStates]
  BY DEF MachineInv, MachineIsTyped
<1>3. req' \in [Requests -> RequestStates] /\ req'[r] = Answered /\ \A q \in Requests : q # r => req'[q] = req[q]
  BY <1>1, <1>2, IdleFacts
<1>4. \A q \in Requests : q # r => ~req[q].alone
  BY <1>1 DEF MachineInv, Undisturbed
<1>5. Aside(r)
  BY <1>3, <1>4 DEF Aside
<1>6. AroundIsTyped' /\ NoParkedGrant'
  <2>1. NoBox \in Boxes /\ ~NoBox.up
    BY IdFacts DEF NoBox
  <2> QED
    BY <1>1, <2>1 DEF MachineInv, MachineIsTyped, AroundIsTyped, NoParkedGrant
<1>7. Planned(r)' /\ HoldsIds(r)' /\ StillReplaces(r)' /\ ~req'[r].alone
  <2>1. Ordered(<<>>)
    BY DEF Ordered
  <2> QED
    BY <1>3, <2>1, IdleFacts DEF Planned, Reviving, Working, HoldsIds, StillReplaces
<1> QED
  BY <1>1, <1>5, <1>6, <1>7, OwnStepKeeps

\* A container's process that exits parks nothing.
LEMMA DeathKeeps ==
    ASSUME MachineInv, BoxDies \/ ProxyDies
    PROVE  MachineInv'
<1> DEFINE r == "sweeper"
<1>1. r \in Requests
  BY DEF Requests
<1>2. Disturb /\ UNCHANGED <<idle, busy, overtaken, late>>
  BY DEF BoxDies, ProxyDies, history
<1>3. box \in Boxes /\ proxy \in Proxies
  BY DEF MachineInv, MachineIsTyped
<1>4. /\ box' \in Boxes /\ proxy' \in Proxies /\ box'.id = box.id /\ proxy'.id = proxy.id
      /\ proxy'.grant = proxy.grant /\ (box'.up => box.up) /\ (proxy'.up => proxy.up)
  <2>1. CASE BoxDies
    <3>1. box' = [box EXCEPT !.up = FALSE] /\ proxy' = proxy
      BY <2>1 DEF BoxDies
    <3> QED
      BY <1>3, <3>1 DEF Boxes
  <2>2. CASE ProxyDies
    <3>1. proxy' = [proxy EXCEPT !.up = FALSE] /\ box' = box
      BY <2>2 DEF ProxyDies
    <3> QED
      BY <1>3, <3>1 DEF Proxies
  <2> QED
    BY <2>1, <2>2
<1>5. AroundIsTyped' /\ NoParkedGrant'
  BY <1>2, <1>4 DEF MachineInv, MachineIsTyped, AroundIsTyped, NoParkedGrant
<1>6. Go(r, Disturbed(r))
  BY <1>2 DEF Go, Disturb
<1>7. /\ Disturbed(r) \in RequestStates /\ Disturbed(r).todo = req[r].todo /\ ~Disturbed(r).alone
      /\ Working(r) => /\ Disturbed(r).proxy = req[r].proxy /\ Disturbed(r).kind = req[r].kind
                       /\ Disturbed(r).box = req[r].box
  BY <1>1, DisturbedFacts DEF MachineInv
<1>8. Aside(r) /\ req'[r] = Disturbed(r)
  BY <1>1, <1>6, <1>7, GoFacts DEF MachineInv
<1>9. Planned(r) /\ HoldsIds(r) /\ StillReplaces(r)
  BY <1>1 DEF MachineInv
<1> HIDE DEF r
<1>10. Planned(r)' /\ HoldsIds(r)' /\ StillReplaces(r)'
  BY <1>2, <1>4, <1>7, <1>8, <1>9 DEF Planned, Reviving, Revival, Working, HoldsIds, StillReplaces
<1> QED
  BY <1>1, <1>2, <1>4, <1>5, <1>7, <1>8, <1>10, OwnStepKeeps

\* The idle clock has no part in any of this.
LEMMA IdleClockKeeps ==
    ASSUME MachineInv, Tick \/ UNCHANGED machineVars
    PROVE  MachineInv'
<1>1. UNCHANGED <<box, proxy, busy, req, overtaken, late>>
  BY DEF Tick, machineVars, daemon, history
<1>2. idle' \in Unseen .. IdleTimeout
  BY MachineAssumption DEF Tick, machineVars, MachineInv, MachineIsTyped, Unseen
<1>3. MachineIsTyped' /\ NoParkedGrant'
  BY <1>1, <1>2 DEF MachineInv, MachineIsTyped, NoParkedGrant
<1>4. ASSUME NEW r \in Requests PROVE Planned(r)' /\ HoldsIds(r)' /\ StillReplaces(r)' /\ Undisturbed(r)'
  <2>1. Planned(r) /\ HoldsIds(r) /\ StillReplaces(r) /\ Undisturbed(r)
    BY DEF MachineInv
  <2> QED
    BY <1>1, <2>1 DEF Planned, Reviving, Working, HoldsIds, StillReplaces, Undisturbed, OnCourse, Revived
<1> QED
  BY <1>3, <1>4 DEF MachineInv

-----------------------------------------------------------------------------
(* Together *)

LEMMA MachineStarts == MachineInit => MachineInv
<1>1. SUFFICES ASSUME MachineInit PROVE MachineInv
  OBVIOUS
<1>2. Ordered(<<>>)
  BY DEF Ordered
<1>3. ASSUME NEW r \in Requests PROVE Planned(r) /\ HoldsIds(r) /\ StillReplaces(r) /\ Undisturbed(r)
  <2>1. req[r] = NoRequest
    BY <1>1 DEF MachineInit
  <2> QED
    BY <1>2, <2>1, IdleFacts DEF Planned, Reviving, Working, HoldsIds, StillReplaces, Undisturbed
<1>4. req \in [Requests -> RequestStates]
  BY <1>1, IdleFacts DEF MachineInit
<1>5. /\ box \in Boxes /\ proxy \in Proxies /\ (box.up => box.id # 0)
      /\ (proxy.up => proxy.id # 0) /\ proxy.grant = "none"
  <2>1. CASE box = NoBox /\ proxy = NoProxy
    BY <2>1, IdFacts DEF NoBox, NoProxy
  <2>2. CASE box = [id |-> 1, up |-> TRUE] /\ proxy = [id |-> 2, up |-> TRUE, grant |-> "none"]
    <3>1. 1 \in Ids /\ 2 \in Ids
      <4>1. Cardinality(Requests) \in Nat
        BY RequestsAreFinite
      <4> QED
        BY <4>1 DEF Ids
    <3> QED
      BY <2>2, <3>1 DEF Boxes, Proxies
  <2> QED
    BY <1>1, <2>1, <2>2 DEF MachineInit
<1>6. MachineIsTyped /\ NoParkedGrant
  <2>1. Unseen \in Unseen .. IdleTimeout
    BY MachineAssumption DEF Unseen
  <2>2. idle = Unseen /\ busy = FALSE
    BY <1>1 DEF MachineInit
  <2> QED
    BY <1>4, <1>5, <2>1, <2>2 DEF MachineIsTyped, NoParkedGrant
<1> QED
  BY <1>3, <1>6 DEF MachineInv

LEMMA MachineStep == MachineInv /\ [MachineNext]_machineVars => MachineInv'
<1>1. SUFFICES ASSUME MachineInv, [MachineNext]_machineVars PROVE MachineInv'
  OBVIOUS
<1>2. ASSUME NEW r \in Requests, Step(r) PROVE MachineInv'
  BY <1>1, <1>2, FindEnsureKeeps, FindStopKeeps, FindRemoveKeeps, CommandKeeps, ReadyKeeps, MakeBoxKeeps,
     MakeProxyKeeps, JoinProxyKeeps, SeeProxyKeeps, DropProxyKeeps, StartProxyKeeps, StartBoxKeeps,
     AnswerKeeps, StopBoxKeeps, DropBoxKeeps, DropNetworkKeeps, SeeLiveProxyKeeps, PutGrantKeeps DEF Step
<1> QED
  BY <1>1, <1>2, SubmitKeeps, DaemonRefusesKeeps, SweepKeeps, SupervisorDiesKeeps, DeathKeeps, IdleClockKeeps
  DEF MachineNext

LEMMA MachineInvSuffices == MachineInv => MachineIsSound
<1>1. SUFFICES ASSUME MachineInv PROVE MachineIsSound
  OBVIOUS
<1>2. MachineTypeOK
  <2>1. ASSUME NEW r \in Requests
        PROVE  /\ req[r].result \in {"none", "ok", "failed"}
               /\ req[r].box \in {0} \cup Ids /\ req[r].proxy \in {0} \cup Ids
    <3>1. req[r] \in RequestStates
      BY <1>1 DEF MachineInv, MachineIsTyped
    <3> QED
      BY <3>1 DEF RequestStates
  <2> QED
    BY <1>1, <2>1 DEF MachineTypeOK, MachineInv, MachineIsTyped, Boxes, Proxies
<1>3. AloneRevives
  BY <1>1 DEF AloneRevives, MachineInv, Undisturbed, Reviving, Revived, Requests
<1> QED
  BY <1>1, <1>2, <1>3 DEF MachineIsSound, MachineInv

\* Whatever requests, crashes and refusals interleave, containers and requests stay in range; a
\* grant parked with its machine is served again only behind a start that was under way when it
\* was parked; and a boot or reset nothing else interfered with brings the machine up with its
\* sidecar, unless the machine already ran without one.
THEOREM MachineProved == MachineSpec => []MachineIsSound
<1>1. MachineInit => MachineInv
  BY MachineStarts
<1>2. MachineInv /\ [MachineNext]_machineVars => MachineInv'
  BY MachineStep
<1>3. MachineInv => MachineIsSound
  BY MachineInvSuffices
<1> QED
  BY <1>1, <1>2, <1>3, PTL DEF MachineSpec
=============================================================================
