------------------------ MODULE ComputerLeaseProofs ------------------------
(***************************************************************************)
(* Machine-checked proofs about ComputerLease, for every number of runs,    *)
(* fences and command keys, and every lease and command duration the        *)
(* dispatcher admits.                                                       *)
(***************************************************************************)
EXTENDS ComputerLease, TLAPS

USE LeaseAssumption DEF ComputerTtl

LEMMA ExecutionParts ==
    ASSUME NEW x \in Executions
    PROVE RunOf(x) \in Runs /\ FenceOf(x) \in 1 .. MaxFence
    BY DEF Executions, RunOf, FenceOf

LEMMA ExecutionOf ==
    ASSUME NEW r \in Runs, NEW f \in 1 .. MaxFence
    PROVE <<r, f>> \in Executions /\ RunOf(<<r, f>>) = r /\ FenceOf(<<r, f>>) = f
    BY DEF Executions, RunOf, FenceOf

-----------------------------------------------------------------------------
(* Type correctness *)

LEMMA MachineTypeInit == LeaseInit => LeaseTypeOK
    BY DEF LeaseInit, LeaseTypeOK, Steps, EffectStatuses

LEMMA SettledType ==
    ASSUME NEW es \in [Calls -> EffectStatuses]
    PROVE SettleInFlight(es) \in [Calls -> EffectStatuses]
    BY DEF SettleInFlight, EffectStatuses

LEMMA RecordType ==
    ASSUME LeaseTypeOK, NEW r \in Runs, NEW c, NEW s \in EffectStatuses
    PROVE [effects EXCEPT ![r][c] = s] \in [Runs -> [Calls -> EffectStatuses]]
<1>1. [effects[r] EXCEPT ![c] = s] \in [Calls -> EffectStatuses] BY DEF LeaseTypeOK
<1> QED BY <1>1 DEF LeaseTypeOK

LEMMA CountType ==
    ASSUME LeaseTypeOK, NEW r \in Runs, NEW c
    PROVE [ran EXCEPT ![r][c] = @ + 1] \in [Runs -> [Calls -> Nat]]
<1>1. ran \in [Runs -> [Calls -> Nat]] /\ ran[r] \in [Calls -> Nat] BY DEF LeaseTypeOK
<1>2. \A d \in Calls : ran[r][d] + 1 \in Nat BY <1>1
<1>3. [ran[r] EXCEPT ![c] = ran[r][c] + 1] \in [Calls -> Nat] BY <1>1, <1>2
<1> QED BY <1>1, <1>3

LEMMA SettleType ==
    ASSUME LeaseTypeOK, NEW r \in Runs
    PROVE [effects EXCEPT ![r] = SettleInFlight(@)] \in [Runs -> [Calls -> EffectStatuses]]
<1>1. SettleInFlight(effects[r]) \in [Calls -> EffectStatuses] BY SettledType DEF LeaseTypeOK
<1> QED BY <1>1 DEF LeaseTypeOK

LEMMA MachineTypeStep == LeaseTypeOK /\ [LeaseNext]_leaseVars => LeaseTypeOK'
<1> SUFFICES ASSUME LeaseTypeOK, [LeaseNext]_leaseVars PROVE LeaseTypeOK'
    OBVIOUS
<1> USE DEF Goto, Leave, Steps, InHandler, runVars, leaseRow, callVars, commands, watch
<1>1. ASSUME NEW r \in Runs, Acquire(r) PROVE LeaseTypeOK'
    <2>1. effects' \in [Runs -> [Calls -> EffectStatuses]]
        BY <1>1, SettleType DEF Acquire
    <2>2. fence' \in [Runs -> 0 .. MaxFence] /\ runTtl' \in [Runs -> 0 .. LeaseTtl]
        BY <1>1 DEF Acquire, LeaseTypeOK
    <2>3. pc' \in [Executions -> Steps] BY <1>1 DEF Acquire, LeaseTypeOK
    <2> QED BY <1>1, <2>1, <2>2, <2>3 DEF Acquire, LeaseTypeOK
<1>2. ASSUME NEW x \in Executions, Command(x) PROVE LeaseTypeOK'
    <2> USE ExecutionParts
    <2>1. CASE Begin(x)
        <3>1. effects' \in [Runs -> [Calls -> EffectStatuses]]
            BY <2>1 DEF Begin, LeaseTypeOK, EffectStatuses
        <3> QED BY <2>1, <3>1 DEF Begin, LeaseTypeOK
    <2>2. CASE HoldBefore(x)
        <3>1. ran' \in [Runs -> [Calls -> Nat]]
            BY <2>2, CountType DEF HoldBefore, LeaseTypeOK
        <3>2. lease' \in 0 .. LeaseTtl /\ holder' \in Executions \cup {NoOne}
            BY <2>2 DEF HoldBefore, Hold, LeaseTypeOK
        <3>3. onMachine' \in [Executions -> 0 .. MaxDuration]
            <4>1. onMachine' = onMachine \/ onMachine' = [onMachine EXCEPT ![x] = MaxDuration]
                BY <2>2 DEF HoldBefore
            <4>2. onMachine \in [Executions -> 0 .. MaxDuration] BY DEF LeaseTypeOK
            <4>3. MaxDuration \in 0 .. MaxDuration BY LeaseAssumption
            <4> QED BY ONLY <4>1, <4>2, <4>3
        <3>4. pc' \in [Executions -> Steps]
            BY <2>2 DEF HoldBefore, LeaseTypeOK
        <3> QED BY <2>2, <3>1, <3>2, <3>3, <3>4 DEF HoldBefore, LeaseTypeOK
    <2>3. CASE SettleFailure(x)
        <3>1. effects' \in [Runs -> [Calls -> EffectStatuses]]
            BY <2>3, RecordType DEF SettleFailure, LeaseTypeOK, EffectStatuses
        <3>2. pc' \in [Executions -> Steps] /\ calling' \in [Executions -> Calls \cup {NoCall}]
            BY <2>3 DEF SettleFailure, LeaseTypeOK
        <3> QED BY <2>3, <3>1, <3>2 DEF SettleFailure, LeaseTypeOK
    <2>4. CASE ExecEnds(x) BY <2>4 DEF ExecEnds, LeaseTypeOK
    <2>5. CASE TimeOutTool(x) BY <2>5 DEF TimeOutTool, LeaseTypeOK
    <2>6. CASE HoldAfter(x)
        <3>1. lease' \in 0 .. LeaseTtl /\ holder' \in Executions \cup {NoOne}
            BY <2>6 DEF HoldAfter, Hold, LeaseTypeOK
        <3>2. pc' \in [Executions -> Steps] /\ calling' \in [Executions -> Calls \cup {NoCall}]
            BY <2>6 DEF HoldAfter, LeaseTypeOK
        <3> QED BY <2>6, <3>1, <3>2 DEF HoldAfter, LeaseTypeOK
    <2>7. CASE Complete(x)
        <3>1. effects' \in [Runs -> [Calls -> EffectStatuses]]
            BY <2>7, RecordType DEF Complete, LeaseTypeOK, EffectStatuses
        <3> QED BY <2>7, <3>1 DEF Complete, LeaseTypeOK
    <2> QED BY <1>2, <2>1, <2>2, <2>3, <2>4, <2>5, <2>6, <2>7 DEF Command
<1>3. ASSUME NEW x \in Executions, Executes(x) PROVE LeaseTypeOK'
    <2> USE ExecutionParts
    <2>1. CASE Heartbeat(x) BY <2>1 DEF Heartbeat, LeaseTypeOK
    <2>2. CASE SettleRun(x)
        <3>1. effects' \in [Runs -> [Calls -> EffectStatuses]]
            <4>1. effects' = effects
                  \/ effects' = [effects EXCEPT ![RunOf(x)] = SettleInFlight(@)]
                BY <2>2 DEF SettleRun
            <4>2. effects \in [Runs -> [Calls -> EffectStatuses]] BY DEF LeaseTypeOK
            <4> QED BY <4>1, <4>2, SettleType
        <3>2. pc' \in [Executions -> Steps] /\ calling' \in [Executions -> Calls \cup {NoCall}]
            BY <2>2 DEF SettleRun, LeaseTypeOK
        <3>3. ended' \in SUBSET Runs BY <2>2 DEF SettleRun, LeaseTypeOK
        <3>4. runTtl' \in [Runs -> 0 .. LeaseTtl] BY <2>2 DEF SettleRun, LeaseTypeOK
        <3> QED BY <2>2, <3>1, <3>2, <3>3, <3>4 DEF SettleRun, LeaseTypeOK
    <2>3. CASE ReleaseComputer(x) BY <2>3 DEF ReleaseComputer, LeaseTypeOK
    <2>4. CASE StopExecution(x) BY <2>4 DEF StopExecution, LeaseTypeOK
    <2> QED BY <1>3, <2>1, <2>2, <2>3, <2>4 DEF Executes
<1>4. CASE ScanComputers BY <1>4 DEF ScanComputers, LeaseTypeOK
<1>5. CASE ReleaseStale BY <1>5 DEF ReleaseStale, LeaseTypeOK
<1>6. CASE LeaseTick BY <1>6 DEF LeaseTick, Less, LeaseTypeOK
<1>7. CASE UNCHANGED leaseVars BY <1>7 DEF leaseVars, LeaseTypeOK
<1> QED BY <1>1, <1>2, <1>3, <1>4, <1>5, <1>6, <1>7 DEF LeaseNext

\* The leases, the claims and the executions keep their types; in particular no
\* deadline is ever further away than one TTL.
THEOREM MachineTypeCorrect == LeaseSpec => []LeaseTypeOK
    BY MachineTypeInit, MachineTypeStep, PTL DEF LeaseSpec

-----------------------------------------------------------------------------
(* One command on the machine *)

LEMMA MachineInit == LeaseInit => LeaseInv
    BY DEF LeaseInit, LeaseInv

LEMMA MachineStep == LeaseTypeOK /\ LeaseInv /\ [LeaseNext]_leaseVars => LeaseInv'
<1> SUFFICES ASSUME LeaseTypeOK, LeaseInv, [LeaseNext]_leaseVars PROVE LeaseInv'
    OBVIOUS
<1> USE DEF Goto, Leave, InHandler, runVars, leaseRow, callVars, commands, watch
<1>1. ASSUME NEW r \in Runs, Acquire(r) PROVE LeaseInv'
    BY <1>1 DEF Acquire, LeaseInv, LeaseTypeOK
<1>2. ASSUME NEW x \in Executions, Command(x) PROVE LeaseInv'
    <2>1. CASE Begin(x) BY <2>1 DEF Begin, LeaseInv, LeaseTypeOK
    <2>2. CASE HoldBefore(x)
        BY <2>2 DEF HoldBefore, Hold, RunOk, FreeFor, LeaseInv, LeaseTypeOK
    <2>3. CASE SettleFailure(x) BY <2>3 DEF SettleFailure, LeaseInv, LeaseTypeOK
    <2>4. CASE ExecEnds(x) BY <2>4 DEF ExecEnds, LeaseInv, LeaseTypeOK
    <2>5. CASE TimeOutTool(x) BY <2>5 DEF TimeOutTool, LeaseInv, LeaseTypeOK
    <2>6. CASE HoldAfter(x)
        BY <2>6 DEF HoldAfter, Hold, RunOk, FreeFor, LeaseInv, LeaseTypeOK
    <2>7. CASE Complete(x) BY <2>7 DEF Complete, LeaseInv, LeaseTypeOK
    <2> QED BY <1>2, <2>1, <2>2, <2>3, <2>4, <2>5, <2>6, <2>7 DEF Command
<1>3. ASSUME NEW x \in Executions, Executes(x) PROVE LeaseInv'
    <2>1. CASE Heartbeat(x) BY <2>1 DEF Heartbeat, LeaseInv, LeaseTypeOK
    <2>2. CASE SettleRun(x) BY <2>2 DEF SettleRun, LeaseInv, LeaseTypeOK
    <2>3. CASE ReleaseComputer(x) BY <2>3 DEF ReleaseComputer, LeaseInv, LeaseTypeOK
    <2>4. CASE StopExecution(x) BY <2>4 DEF StopExecution, LeaseInv, LeaseTypeOK
    <2> QED BY <1>3, <2>1, <2>2, <2>3, <2>4 DEF Executes
<1>4. CASE ScanComputers BY <1>4 DEF ScanComputers, LeaseInv
<1>5. CASE ReleaseStale BY <1>5 DEF ReleaseStale, LeaseInv, LeaseTypeOK
<1>6. CASE LeaseTick BY <1>6 DEF LeaseTick, Less, LeaseInv, LeaseTypeOK
<1>7. CASE UNCHANGED leaseVars BY <1>7 DEF leaseVars, LeaseInv
<1> QED BY <1>1, <1>2, <1>3, <1>4, <1>5, <1>6, <1>7 DEF LeaseNext

LEMMA MachineAlways == LeaseSpec => []LeaseInv
    BY MachineInit, MachineStep, MachineTypeInit, MachineTypeStep, PTL DEF LeaseSpec

\* Two commands share the machine only after one of them lost its row early.
THEOREM MachineIsExclusive == LeaseSpec => []ExclusiveUnlessFreed
<1>1. LeaseTypeOK /\ LeaseInv => ExclusiveUnlessFreed
    BY DEF LeaseTypeOK, LeaseInv, ExclusiveUnlessFreed
<1> QED BY <1>1, MachineTypeCorrect, MachineAlways, PTL

-----------------------------------------------------------------------------
(* One provider call per key, recorded under the current fence only *)

LEMMA ClaimInit == LeaseInit => ClaimInv
    BY DEF LeaseInit, ClaimInv, ClaimOK, InHandler, CommandOnce

\* Steps that begin nothing, send nothing and move no fence: claims may be settled,
\* and an execution may leave its handler or move on inside it.
LEMMA ClaimSettles ==
    ASSUME LeaseTypeOK, LeaseTypeOK', ClaimInv, fence' = fence, ran' = ran,
           \A r \in Runs, c \in Calls :
               /\ effects[r][c] = "absent" <=> effects'[r][c] = "absent"
               /\ effects'[r][c] = "running" => effects[r][c] = "running",
           \A x \in Executions :
               /\ pc'[x] \in InHandler => pc[x] \in InHandler /\ calling'[x] = calling[x]
               /\ pc'[x] = "hold" => pc[x] = "hold"
               /\ pc'[x] \in {"exec", "commit", "complete"} =>
                      pc[x] \in {"exec", "commit", "complete"}
               /\ pc'[x] # "none" => pc[x] # "none"
    PROVE ClaimInv'
<1>1. ASSUME NEW x \in Executions PROVE ClaimOK(x)'
    <2>1. RunOf(x) \in Runs /\ ClaimOK(x) BY ExecutionParts DEF ClaimInv
    <2>2. CASE pc'[x] \in InHandler
        <3>1. pc[x] \in InHandler /\ calling'[x] = calling[x] /\ calling[x] \in Calls
            BY <2>1, <2>2 DEF ClaimOK
        <3> QED BY <2>1, <3>1 DEF ClaimOK
    <2>3. CASE pc'[x] \notin InHandler BY <2>3 DEF ClaimOK, InHandler
    <2> QED BY <2>2, <2>3
<1>2. \A x, y \in Executions :
         (pc'[x] = "hold" /\ pc'[y] = "hold" /\ RunOf(x) = RunOf(y) /\ calling'[x] = calling'[y])
             => x = y
    BY DEF ClaimInv, InHandler
<1>3. CommandOnce' BY DEF ClaimInv, CommandOnce
<1>4. \A x \in Executions : pc'[x] # "none" => FenceOf(x) <= fence'[RunOf(x)] BY DEF ClaimInv
<1>5. \A r \in Runs, c \in Calls : effects'[r][c] = "absent" => ran'[r][c] = 0 BY DEF ClaimInv
<1> QED BY <1>1, <1>2, <1>3, <1>4, <1>5 DEF ClaimInv

\* What SettleInFlight leaves of one run's claims.
LEMMA SettledClaims ==
    ASSUME LeaseTypeOK, NEW r \in Runs, effects' = [effects EXCEPT ![r] = SettleInFlight(@)]
    PROVE \A q \in Runs, c \in Calls :
              /\ effects[q][c] = "absent" <=> effects'[q][c] = "absent"
              /\ effects'[q][c] = "running" => effects[q][c] = "running" /\ q # r
    BY DEF SettleInFlight, LeaseTypeOK

\* What recording one outcome leaves of the claims.
LEMMA RecordedClaims ==
    ASSUME LeaseTypeOK, NEW r \in Runs, NEW d \in Calls, NEW s \in {"completed", "failed"},
           effects[r][d] # "absent", effects' = [effects EXCEPT ![r][d] = s]
    PROVE \A q \in Runs, c \in Calls :
              /\ effects[q][c] = "absent" <=> effects'[q][c] = "absent"
              /\ effects'[q][c] = "running" => effects[q][c] = "running"
    BY DEF LeaseTypeOK

LEMMA ClaimAcquire ==
    ASSUME LeaseTypeOK, LeaseTypeOK', ClaimInv, NEW r \in Runs, Acquire(r) PROVE ClaimInv'
<1> USE DEF Acquire, Goto, commands
<1>1. \A q \in Runs, c \in Calls :
          /\ effects[q][c] = "absent" <=> effects'[q][c] = "absent"
          /\ effects'[q][c] = "running" => effects[q][c] = "running" /\ q # r
    BY SettledClaims
<1>2. fence[r] + 1 \in 1 .. MaxFence BY DEF LeaseTypeOK
<1> DEFINE n == <<r, fence[r] + 1>>
<1>3. n \in Executions /\ RunOf(n) = r /\ FenceOf(n) = fence[r] + 1 BY <1>2, ExecutionOf
<1>4. pc'[n] = "idle" /\ \A x \in Executions : x # n => pc'[x] = pc[x] BY <1>3 DEF LeaseTypeOK
<1>5. calling' = calling /\ ran' = ran OBVIOUS
<1>6. fence'[r] = fence[r] + 1 /\ \A q \in Runs : q # r => fence'[q] = fence[q] BY DEF LeaseTypeOK
<1> HIDE DEF n, Acquire
<1>7. ASSUME NEW x \in Executions PROVE ClaimOK(x)'
    <2>1. RunOf(x) \in Runs /\ ClaimOK(x) BY ExecutionParts DEF ClaimInv
    <2>2. CASE x = n BY <2>2, <1>4 DEF ClaimOK, InHandler
    <2>3. CASE x # n /\ pc[x] \in InHandler
        <3>1. calling'[x] \in Calls /\ pc'[x] = pc[x] /\ calling'[x] = calling[x]
            BY <2>1, <2>3, <1>4, <1>5 DEF ClaimOK
        <3> QED BY <2>1, <2>3, <3>1, <1>1, <1>5, <1>6 DEF ClaimOK
    <2>4. CASE x # n /\ pc[x] \notin InHandler BY <2>4, <1>4 DEF ClaimOK, InHandler
    <2> QED BY <2>2, <2>3, <2>4
<1>8. \A x \in Executions : pc'[x] # "none" => FenceOf(x) <= fence'[RunOf(x)]
    <2> SUFFICES ASSUME NEW x \in Executions, pc'[x] # "none"
                 PROVE FenceOf(x) <= fence'[RunOf(x)]
        OBVIOUS
    <2>1. CASE x = n BY <2>1, <1>3, <1>6 DEF LeaseTypeOK
    <2>2. CASE x # n
        <3>1. FenceOf(x) <= fence[RunOf(x)] BY <2>2, <1>4 DEF ClaimInv
        <3>2. fence[RunOf(x)] \in Nat /\ fence'[RunOf(x)] >= fence[RunOf(x)]
            <4>1. RunOf(x) \in Runs /\ fence[RunOf(x)] \in Nat BY ExecutionParts DEF LeaseTypeOK
            <4>2. CASE RunOf(x) = r BY <4>1, <4>2, <1>6
            <4>3. CASE RunOf(x) # r BY <4>1, <4>3, <1>6
            <4> QED BY <4>1, <4>2, <4>3
        <3> QED BY <3>1, <3>2, ExecutionParts DEF LeaseTypeOK
    <2> QED BY <2>1, <2>2
<1>9. \A x, y \in Executions :
         (pc'[x] = "hold" /\ pc'[y] = "hold" /\ RunOf(x) = RunOf(y) /\ calling'[x] = calling'[y])
             => x = y
    BY <1>4, <1>5 DEF ClaimInv
<1>10. CommandOnce' BY <1>5 DEF ClaimInv, CommandOnce
<1>11. \A q \in Runs, c \in Calls : effects'[q][c] = "absent" => ran'[q][c] = 0
    BY <1>1, <1>5 DEF ClaimInv
<1> QED BY <1>7, <1>8, <1>9, <1>10, <1>11 DEF ClaimInv

LEMMA ClaimBegin ==
    ASSUME LeaseTypeOK, LeaseTypeOK', ClaimInv, NEW x \in Executions, Begin(x) PROVE ClaimInv'
<1>1. PICK c \in Calls :
          /\ effects[RunOf(x)][c] = "absent"
          /\ effects' = [effects EXCEPT ![RunOf(x)][c] = "running"]
          /\ calling' = [calling EXCEPT ![x] = c]
    BY DEF Begin
<1>2. RunOf(x) \in Runs BY ExecutionParts
<1>3. pc'[x] = "hold" /\ calling'[x] = c /\ pc[x] = "idle" BY <1>1 DEF Begin, Goto, LeaseTypeOK
<1>4. \A y \in Executions : y # x => pc'[y] = pc[y] /\ calling'[y] = calling[y]
    BY <1>1 DEF Begin, Goto, LeaseTypeOK
<1>5. \A r \in Runs, d \in Calls :
          effects'[r][d] = IF r = RunOf(x) /\ d = c THEN "running" ELSE effects[r][d]
    BY <1>1, <1>2 DEF LeaseTypeOK
<1>6. fence' = fence /\ ran' = ran BY DEF Begin, runVars, commands
<1>7. ran[RunOf(x)][c] = 0 BY <1>1, <1>2 DEF ClaimInv
<1>8. ASSUME NEW y \in Executions, y # x, pc[y] \in InHandler
      PROVE calling[y] \in Calls /\ RunOf(y) \in Runs
            /\ effects'[RunOf(y)][calling[y]] = effects[RunOf(y)][calling[y]]
            /\ ~(RunOf(y) = RunOf(x) /\ calling[y] = c)
    <2>1. RunOf(y) \in Runs /\ ClaimOK(y) BY ExecutionParts DEF ClaimInv
    <2>2. calling[y] \in Calls /\ effects[RunOf(y)][calling[y]] # "absent"
        BY <1>8, <2>1 DEF ClaimOK
    <2>3. ~(RunOf(y) = RunOf(x) /\ calling[y] = c) BY <2>2, <1>1
    <2> QED BY <2>1, <2>2, <2>3, <1>5
<1>9. ASSUME NEW y \in Executions PROVE ClaimOK(y)'
    <2>1. CASE y = x BY <2>1, <1>2, <1>3, <1>5, <1>6, <1>7 DEF ClaimOK
    <2>2. CASE y # x /\ pc[y] \in InHandler
        <3>1. ClaimOK(y) BY DEF ClaimInv
        <3> QED BY <3>1, <2>2, <1>4, <1>6, <1>8 DEF ClaimOK
    <2>3. CASE y # x /\ pc[y] \notin InHandler BY <2>3, <1>4 DEF ClaimOK, InHandler
    <2> QED BY <2>1, <2>2, <2>3
<1>10. \A y, z \in Executions :
         (pc'[y] = "hold" /\ pc'[z] = "hold" /\ RunOf(y) = RunOf(z) /\ calling'[y] = calling'[z])
             => y = z
    BY <1>3, <1>4, <1>8 DEF ClaimInv, InHandler
<1>11. CommandOnce' BY <1>6 DEF ClaimInv, CommandOnce
<1>12. \A y \in Executions : pc'[y] # "none" => FenceOf(y) <= fence'[RunOf(y)]
    BY <1>3, <1>4, <1>6 DEF ClaimInv
<1>13. \A r \in Runs, d \in Calls : effects'[r][d] = "absent" => ran'[r][d] = 0
    BY <1>5, <1>6 DEF ClaimInv
<1> QED BY <1>9, <1>10, <1>11, <1>12, <1>13 DEF ClaimInv

LEMMA ClaimSent ==
    ASSUME LeaseTypeOK, LeaseTypeOK', ClaimInv, NEW x \in Executions, HoldBefore(x) PROVE ClaimInv'
<1>1. RunOf(x) \in Runs /\ ClaimOK(x) BY ExecutionParts DEF ClaimInv
<1>2. pc[x] = "hold" /\ calling[x] \in Calls /\ ran[RunOf(x)][calling[x]] = 0
      /\ effects[RunOf(x)][calling[x]] # "absent"
    BY <1>1 DEF HoldBefore, ClaimOK, InHandler
<1>3. fence' = fence /\ calling' = calling /\ effects' = effects
    BY DEF HoldBefore, runVars
<1>4. CASE pc' = [pc EXCEPT ![x] = "exec"] /\ RunOk(x)
           /\ ran' = [ran EXCEPT ![RunOf(x)][calling[x]] = @ + 1]
    <2>1. pc'[x] = "exec" /\ \A y \in Executions : y # x => pc'[y] = pc[y] BY <1>4 DEF LeaseTypeOK
    <2>2. \A r \in Runs, d \in Calls :
              ran'[r][d] = IF r = RunOf(x) /\ d = calling[x] THEN 1 ELSE ran[r][d]
        BY <1>1, <1>2, <1>4 DEF LeaseTypeOK
    <2>3. ASSUME NEW y \in Executions PROVE ClaimOK(y)'
        <3>1. RunOf(y) \in Runs /\ ClaimOK(y) BY ExecutionParts DEF ClaimInv
        <3>2. CASE y = x BY <3>2, <2>1, <1>2, <1>3, <1>4 DEF ClaimOK, RunOk
        <3>3. CASE y # x /\ pc[y] = "hold"
            <4>1. calling[y] \in Calls /\ ~(RunOf(y) = RunOf(x) /\ calling[y] = calling[x])
                BY <3>1, <3>3, <1>2 DEF ClaimInv, ClaimOK, InHandler
            <4> QED BY <4>1, <3>1, <3>3, <2>1, <2>2, <1>3 DEF ClaimOK
        <3>4. CASE y # x /\ pc[y] # "hold" BY <3>1, <3>4, <2>1, <1>3 DEF ClaimOK
        <3> QED BY <3>2, <3>3, <3>4
    <2>4. CommandOnce' BY <2>2 DEF ClaimInv, CommandOnce
    <2>5. \A y, z \in Executions :
             (pc'[y] = "hold" /\ pc'[z] = "hold" /\ RunOf(y) = RunOf(z)
              /\ calling'[y] = calling'[z]) => y = z
        BY <2>1, <1>3 DEF ClaimInv
    <2>6. \A y \in Executions : pc'[y] # "none" => FenceOf(y) <= fence'[RunOf(y)]
        BY <2>1, <1>2, <1>3 DEF ClaimInv
    <2>7. \A r \in Runs, d \in Calls : effects'[r][d] = "absent" => ran'[r][d] = 0
        BY <2>2, <1>2, <1>3 DEF ClaimInv
    <2> QED BY <2>3, <2>4, <2>5, <2>6, <2>7 DEF ClaimInv
<1>5. CASE ran' = ran /\ \E step \in {"busy", "lost"} : pc' = [pc EXCEPT ![x] = step]
    BY <1>5, <1>2, <1>3, ClaimSettles DEF LeaseTypeOK, InHandler
<1> QED BY <1>4, <1>5 DEF HoldBefore, Hold, Goto, commands

LEMMA ClaimStep == LeaseTypeOK /\ LeaseTypeOK' /\ ClaimInv /\ [LeaseNext]_leaseVars => ClaimInv'
<1> SUFFICES ASSUME LeaseTypeOK, LeaseTypeOK', ClaimInv, [LeaseNext]_leaseVars PROVE ClaimInv'
    OBVIOUS
<1> USE DEF Goto, Leave, runVars, leaseRow, callVars, commands, watch
<1>1. ASSUME NEW r \in Runs, Acquire(r) PROVE ClaimInv'
    BY <1>1, ClaimAcquire
<1>2. ASSUME NEW x \in Executions, Command(x) PROVE ClaimInv'
    <2>0. RunOf(x) \in Runs
          /\ (pc[x] \in InHandler => calling[x] \in Calls
                                     /\ effects[RunOf(x)][calling[x]] # "absent")
        BY ExecutionParts DEF ClaimInv, ClaimOK
    <2>1. CASE Begin(x) BY <2>1, ClaimBegin
    <2>2. CASE HoldBefore(x) BY <2>2, ClaimSent
    <2>3. CASE SettleFailure(x)
        <3>1. \A r \in Runs, c \in Calls :
                 /\ effects[r][c] = "absent" <=> effects'[r][c] = "absent"
                 /\ effects'[r][c] = "running" => effects[r][c] = "running"
            BY <2>0, <2>3, RecordedClaims DEF SettleFailure, InHandler
        <3> QED BY <2>3, <3>1, ClaimSettles DEF SettleFailure, LeaseTypeOK, InHandler
    <2>4. CASE ExecEnds(x) BY <2>4, ClaimSettles DEF ExecEnds, LeaseTypeOK, InHandler
    <2>5. CASE TimeOutTool(x) BY <2>5, ClaimSettles DEF TimeOutTool, LeaseTypeOK, InHandler
    <2>6. CASE HoldAfter(x) BY <2>6, ClaimSettles DEF HoldAfter, LeaseTypeOK, InHandler
    <2>7. CASE Complete(x)
        <3>1. \A r \in Runs, c \in Calls :
                 /\ effects[r][c] = "absent" <=> effects'[r][c] = "absent"
                 /\ effects'[r][c] = "running" => effects[r][c] = "running"
            BY <2>0, <2>7, RecordedClaims DEF Complete, InHandler
        <3> QED BY <2>7, <3>1, ClaimSettles DEF Complete, LeaseTypeOK, InHandler
    <2> QED BY <1>2, <2>1, <2>2, <2>3, <2>4, <2>5, <2>6, <2>7 DEF Command
<1>3. ASSUME NEW x \in Executions, Executes(x) PROVE ClaimInv'
    <2>1. CASE Heartbeat(x) BY <2>1, ClaimSettles DEF Heartbeat
    <2>2. CASE SettleRun(x)
        <3>1. \A r \in Runs, c \in Calls :
                 /\ effects[r][c] = "absent" <=> effects'[r][c] = "absent"
                 /\ effects'[r][c] = "running" => effects[r][c] = "running"
            BY <2>2, SettledClaims, ExecutionParts DEF SettleRun
        <3> QED BY <2>2, <3>1, ClaimSettles DEF SettleRun, LeaseTypeOK, InHandler
    <2>3. CASE ReleaseComputer(x)
        BY <2>3, ClaimSettles DEF ReleaseComputer, LeaseTypeOK, InHandler
    <2>4. CASE StopExecution(x) BY <2>4, ClaimSettles DEF StopExecution, LeaseTypeOK, InHandler
    <2> QED BY <1>3, <2>1, <2>2, <2>3, <2>4 DEF Executes
<1>4. CASE ScanComputers \/ ReleaseStale \/ LeaseTick \/ UNCHANGED leaseVars
    <2>1. UNCHANGED <<fence, effects, pc, calling, ran>>
        BY <1>4 DEF ScanComputers, ReleaseStale, LeaseTick, leaseVars
    <2> QED BY <2>1, ClaimSettles
<1> QED BY <1>1, <1>2, <1>3, <1>4 DEF LeaseNext

LEMMA ClaimAlways == LeaseSpec => []ClaimInv
    BY ClaimInit, ClaimStep, MachineTypeInit, MachineTypeStep, PTL DEF LeaseSpec

\* No key is sent to the provider twice.
THEOREM CommandsRunOnce == LeaseSpec => []CommandOnce
<1>1. ClaimInv => CommandOnce BY DEF ClaimInv
<1> QED BY <1>1, ClaimAlways, PTL

\* Only the current fence records a completed command.
THEOREM CommitsAreFenced == LeaseSpec => CommitIsFenced
<1>1. ASSUME LeaseTypeOK, ClaimInv, [LeaseNext]_leaseVars, NEW r \in Runs, NEW c \in Calls,
             effects[r][c] # "completed", effects'[r][c] = "completed"
      PROVE \E x \in Executions : /\ RunOf(x) = r /\ FenceOf(x) = fence[r]
                                   /\ pc[x] = "complete" /\ calling[x] = c
    <2> USE DEF runVars, leaseRow, callVars, commands, watch
    <2>1. ASSUME NEW x \in Executions, Complete(x)
          PROVE RunOf(x) = r /\ FenceOf(x) = fence[r] /\ pc[x] = "complete" /\ calling[x] = c
        <3>1. RunOf(x) \in Runs /\ ClaimOK(x) BY <1>1, ExecutionParts DEF ClaimInv
        <3>2. pc[x] = "complete" /\ effects[RunOf(x)][calling[x]] = "running"
              /\ effects' = [effects EXCEPT ![RunOf(x)][calling[x]] = "completed"]
            BY <2>1, <1>1 DEF Complete
        <3>3. RunOf(x) = r /\ calling[x] = c BY <1>1, <3>1, <3>2 DEF LeaseTypeOK
        <3> QED BY <3>1, <3>2, <3>3 DEF ClaimOK
    <2>2. ASSUME NEW q \in Runs, Acquire(q) PROVE FALSE
        BY <2>2, <1>1 DEF Acquire, SettleInFlight, LeaseTypeOK
    <2>3. ASSUME NEW x \in Executions, Command(x), ~Complete(x) PROVE FALSE
        <3>1. CASE Begin(x) BY <3>1, <1>1, ExecutionParts DEF Begin, LeaseTypeOK
        <3>2. CASE SettleFailure(x)
            <4>1. effects' = effects
                  \/ effects' = [effects EXCEPT ![RunOf(x)][calling[x]] = "failed"]
                BY <3>2 DEF SettleFailure
            <4> QED BY <4>1, <1>1, ExecutionParts DEF LeaseTypeOK
        <3>3. CASE UNCHANGED effects BY <3>3, <1>1
        <3> QED BY <2>3, <3>1, <3>2, <3>3
                DEF Command, HoldBefore, ExecEnds, TimeOutTool, HoldAfter
    <2>4. ASSUME NEW x \in Executions, Executes(x) PROVE FALSE
        <3>1. CASE SettleRun(x)
            <4>1. effects' = effects
                  \/ effects' = [effects EXCEPT ![RunOf(x)] = SettleInFlight(@)]
                BY <3>1 DEF SettleRun
            <4>2. CASE effects' = effects BY <4>2, <1>1
            <4>3. CASE effects' = [effects EXCEPT ![RunOf(x)] = SettleInFlight(@)]
                <5>1. CASE RunOf(x) = r
                    <6>1. effects'[r] = SettleInFlight(effects[r])
                        BY <4>3, <5>1, <1>1 DEF LeaseTypeOK
                    <6> QED BY <6>1, <1>1 DEF SettleInFlight
                <5>2. CASE RunOf(x) # r
                    <6>1. effects'[r] = effects[r] BY <4>3, <5>2, <1>1 DEF LeaseTypeOK
                    <6> QED BY <6>1, <1>1
                <5> QED BY <5>1, <5>2
            <4> QED BY <4>1, <4>2, <4>3
        <3>2. CASE UNCHANGED effects BY <3>2, <1>1
        <3> QED BY <2>4, <3>1, <3>2 DEF Executes, Heartbeat, ReleaseComputer, StopExecution
    <2>5. CASE ScanComputers \/ ReleaseStale \/ LeaseTick \/ UNCHANGED leaseVars
        BY <2>5, <1>1 DEF ScanComputers, ReleaseStale, LeaseTick, leaseVars
    <2> QED BY <1>1, <2>1, <2>2, <2>3, <2>4, <2>5 DEF LeaseNext
<1>2. LeaseTypeOK /\ ClaimInv /\ [LeaseNext]_leaseVars =>
          [\A r \in Runs, c \in Calls :
             (effects[r][c] # "completed" /\ effects'[r][c] = "completed") =>
                 \E x \in Executions :
                     /\ RunOf(x) = r /\ FenceOf(x) = fence[r]
                     /\ pc[x] = "complete" /\ calling[x] = c]_leaseVars
    BY <1>1
<1> QED BY <1>2, MachineTypeCorrect, ClaimAlways, PTL DEF LeaseSpec, CommitIsFenced
=============================================================================
