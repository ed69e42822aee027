---------------------------- MODULE ComputerLease ----------------------------
(***************************************************************************)
(* One bot's computer, the lease row that decides which run may command it, *)
(* the executions of the bot's runs that issue commands through             *)
(* createFencedComputerCommands, and the watchdog pass that sweeps lapsed   *)
(* rows.  One action is one SQL statement or one await.                     *)
(*                                                                          *)
(* An execution is a run and the fence it was won with; RunLease shows that *)
(* no two processes share one.  Both leases count ticks of the database     *)
(* clock.  A command runs on the machine until it ends or the provider's    *)
(* timeout kills it, whatever becomes of the fiber that sent it: exec       *)
(* carries no abort signal.                                                 *)
(***************************************************************************)
EXTENDS Integers

CONSTANTS
    Runs,               \* runs of the bot
    Calls,              \* command keys each run may use
    NoCall,             \* no command in progress
    NoOne,              \* the bot has no computer_lease row
    LeaseTtl,           \* RUN_LEASE_TTL_SECONDS, in ticks
    MaxDuration,        \* maxDurationMs of the computer tools, in ticks
    MaxFence            \* bound: the highest fence a run reaches

\* COMPUTER_LEASE_TTL_SECONDS is the run lease's own.
ComputerTtl == LeaseTtl
Executions == Runs \X (1 .. MaxFence)
RunOf(x) == x[1]
FenceOf(x) == x[2]

\* The dispatcher refuses a tool whose duration exceeds the lease.
ASSUME LeaseAssumption ==
    /\ NoCall \notin Calls /\ NoOne \notin Executions
    /\ LeaseTtl \in Nat \ {0} /\ MaxFence \in Nat \ {0}
    /\ MaxDuration \in 1 .. LeaseTtl

VARIABLES
    fence, runTtl,          \* each run's lease: its fence and the time left
    ended,                  \* the runs that reached a terminal status
    holder, lease,          \* the computer_lease row: its binding and time left
    effects,                \* external_effect rows of the command keys
    pc, calling,            \* where each execution is, and the key it is using
    onMachine,              \* time left to the command an execution started
    ran,                    \* how often each key was sent to the provider
    found,                  \* the binding the watchdog's scan returned
    swept                   \* executions whose live row a sweep removed

runVars == <<fence, runTtl, ended>>
leaseRow == <<holder, lease>>
callVars == <<pc, calling, effects>>
commands == <<onMachine, ran>>
watch == <<found, swept>>
leaseVars == <<runVars, leaseRow, callVars, commands, watch>>

Steps == {"none", "idle", "hold", "busy", "lost", "exec", "failing", "commit", "complete",
          "release", "done"}
\* Inside the handler of a computer tool.
InHandler == {"hold", "busy", "lost", "exec", "failing", "commit", "complete"}

LeaseInit ==
    /\ fence = [r \in Runs |-> 0] /\ runTtl = [r \in Runs |-> 0]
    /\ ended = {}
    /\ holder = NoOne /\ lease = 0
    /\ effects = [r \in Runs |-> [c \in Calls |-> "absent"]]
    /\ pc = [x \in Executions |-> "none"] /\ calling = [x \in Executions |-> NoCall]
    /\ onMachine = [x \in Executions |-> 0]
    /\ ran = [r \in Runs |-> [c \in Calls |-> 0]]
    /\ found = NoOne /\ swept = {}

Goto(x, step) == pc' = [pc EXCEPT ![x] = step]
\* The command is over for its caller.
Leave(x, step) == Goto(x, step) /\ calling' = [calling EXCEPT ![x] = NoCall]

SettleInFlight(es) == [c \in Calls |-> IF es[c] = "running" THEN "failed" ELSE es[c]]

\* run_ok of holdOnce: the run row still carries this fence, live.
RunOk(x) == fence[RunOf(x)] = FenceOf(x) /\ runTtl[RunOf(x)] > 0 /\ RunOf(x) \notin ended
\* Mutant: an upsert that takes whatever row it finds.
FreeForAnyone(x) == TRUE
\* The upsert's conflict arm: no row, a lapsed row, or our own binding.
FreeFor(x) == holder = NoOne \/ lease = 0 \/ holder = x
Hold(x) == RunOk(x) /\ FreeFor(x) /\ holder' = x /\ lease' = ComputerTtl

-----------------------------------------------------------------------------
(* The run lease, as far as the computer lease reads it *)

\* claimRun or reclaimRun: the next fence, and every open claim settled.
Acquire(r) ==
    /\ r \notin ended /\ runTtl[r] = 0 /\ fence[r] < MaxFence
    /\ fence' = [fence EXCEPT ![r] = @ + 1]
    /\ runTtl' = [runTtl EXCEPT ![r] = LeaseTtl]
    /\ effects' = [effects EXCEPT ![r] = SettleInFlight(@)]
    /\ Goto(<<r, fence[r] + 1>>, "idle")
    /\ UNCHANGED <<ended, leaseRow, calling, commands, watch>>

Heartbeat(x) ==
    /\ pc[x] \notin {"none", "release", "done"} /\ RunOk(x)
    /\ runTtl' = [runTtl EXCEPT ![RunOf(x)] = LeaseTtl]
    /\ UNCHANGED <<fence, ended, leaseRow, callVars, commands, watch>>

\* The work ended: completed with no command in progress, cancelled or failed
\* with whatever was open settled, or failed by the work itself, which settles
\* nothing.
SettleRun(x) ==
    /\ pc[x] \notin {"none", "release", "done"} /\ RunOk(x)
    /\ ended' = ended \cup {RunOf(x)}
    /\ runTtl' = [runTtl EXCEPT ![RunOf(x)] = 0]
    /\ effects' \in {effects, [effects EXCEPT ![RunOf(x)] = SettleInFlight(@)]}
    /\ Leave(x, "release")
    /\ UNCHANGED <<fence, leaseRow, commands, watch>>

\* releaseComputer deletes exactly this execution's binding, or fails silently.
ReleaseComputer(x) ==
    /\ pc[x] = "release" /\ Goto(x, "done")
    /\ \/ holder = x /\ holder' = NoOne /\ lease' = 0
       \/ UNCHANGED leaseRow
    /\ UNCHANGED <<runVars, calling, effects, commands, watch>>

\* A crash, a lost lease or an interrupt: nothing is written, nothing released,
\* and a command that was sent goes on.
StopExecution(x) ==
    /\ pc[x] \notin {"none", "done"} /\ Leave(x, "done")
    /\ UNCHANGED <<runVars, leaseRow, effects, commands, watch>>

-----------------------------------------------------------------------------
(* packages/effect/src/computer-commands.ts: exec *)

\* Mutant: a key whose recorded failure is tried again.
BeginAgain(x) ==
    /\ pc[x] = "idle"
    /\ \E c \in Calls :
         /\ effects[RunOf(x)][c] \in {"absent", "failed"}
         /\ effects' = [effects EXCEPT ![RunOf(x)][c] = "running"]
         /\ calling' = [calling EXCEPT ![x] = c]
    /\ Goto(x, "hold")
    /\ UNCHANGED <<runVars, leaseRow, commands, watch>>
\* ledger.begin admits a key once; any other key is answered from its record.
Begin(x) ==
    /\ pc[x] = "idle"
    /\ \E c \in Calls :
         /\ effects[RunOf(x)][c] = "absent"
         /\ effects' = [effects EXCEPT ![RunOf(x)][c] = "running"]
         /\ calling' = [calling EXCEPT ![x] = c]
    /\ Goto(x, "hold")
    /\ UNCHANGED <<runVars, leaseRow, commands, watch>>

\* hold("before"), and the command on its way with no await in between.  A hold
\* that throws counts as a lost run.
HoldBefore(x) ==
    /\ pc[x] = "hold"
    /\ \/ /\ Hold(x) /\ Goto(x, "exec")
          /\ onMachine' = [onMachine EXCEPT ![x] = MaxDuration]
          /\ ran' = [ran EXCEPT ![RunOf(x)][calling[x]] = @ + 1]
       \/ RunOk(x) /\ ~FreeFor(x) /\ Goto(x, "busy") /\ UNCHANGED <<leaseRow, commands>>
       \/ Goto(x, "lost") /\ UNCHANGED <<leaseRow, commands>>
    /\ UNCHANGED <<runVars, calling, effects, watch>>

\* settleFailure: fails the claim while it is still running; an error counts as
\* not settled.  A refusal goes back to the session, a lost run ends it, and a
\* failed command whose claim is no longer ours means the run is lost.
SettleFailure(x) ==
    /\ pc[x] \in {"busy", "lost", "failing"}
    /\ \/ /\ effects[RunOf(x)][calling[x]] = "running"
          /\ effects' = [effects EXCEPT ![RunOf(x)][calling[x]] = "failed"]
          /\ Leave(x, IF pc[x] = "lost" THEN "done" ELSE "idle")
       \/ UNCHANGED effects /\ Leave(x, IF pc[x] = "busy" THEN "idle" ELSE "done")
    /\ UNCHANGED <<runVars, leaseRow, commands, watch>>

\* The provider answers, with a result or a failure.
ExecEnds(x) ==
    /\ pc[x] = "exec" /\ onMachine' = [onMachine EXCEPT ![x] = 0]
    /\ \E step \in {"commit", "failing"} : Goto(x, step)
    /\ UNCHANGED <<runVars, leaseRow, calling, effects, ran, watch>>

\* The dispatcher's own timeout interrupts the fiber; the run goes on, the claim
\* stays open, and the command is the provider's to end.
TimeOutTool(x) ==
    /\ pc[x] \in InHandler /\ Leave(x, "idle")
    /\ UNCHANGED <<runVars, leaseRow, effects, commands, watch>>

\* hold("after"): the commit gate.
HoldAfter(x) ==
    /\ pc[x] = "commit"
    /\ \/ Hold(x) /\ Goto(x, "complete") /\ UNCHANGED calling
       \/ Leave(x, "done") /\ UNCHANGED leaseRow
    /\ UNCHANGED <<runVars, effects, commands, watch>>

\* Mutant: a completion that records over whatever is there.
CompleteBlindly(x) ==
    /\ pc[x] = "complete" /\ Leave(x, "idle")
    /\ effects' = [effects EXCEPT ![RunOf(x)][calling[x]] = "completed"]
    /\ UNCHANGED <<runVars, leaseRow, commands, watch>>
\* ledger.complete, which only settles a claim that is still running.
Complete(x) ==
    /\ pc[x] = "complete" /\ Leave(x, "idle")
    /\ effects' = IF effects[RunOf(x)][calling[x]] = "running"
                  THEN [effects EXCEPT ![RunOf(x)][calling[x]] = "completed"] ELSE effects
    /\ UNCHANGED <<runVars, leaseRow, commands, watch>>

-----------------------------------------------------------------------------
(* apps/worker/src/jobs/lease-watchdog.ts: releaseStaleComputers *)

\* Mutant: a scan that skips the rows of runs that ended.
ScanUnended ==
    /\ found = NoOne /\ holder # NoOne /\ lease = 0 /\ RunOf(holder) \notin ended
    /\ found' = holder
    /\ UNCHANGED <<runVars, leaseRow, callVars, commands, swept>>
ScanComputers ==
    /\ found = NoOne /\ holder # NoOne /\ lease = 0 /\ found' = holder
    /\ UNCHANGED <<runVars, leaseRow, callVars, commands, swept>>

\* The delete compares the binding and not the deadline, so it also removes a
\* row its holder renewed since the scan.
ReleaseStale ==
    /\ found # NoOne /\ found' = NoOne
    /\ IF holder = found
       THEN /\ holder' = NoOne /\ lease' = 0
            /\ swept' = IF lease > 0 THEN swept \cup {found} ELSE swept
       ELSE UNCHANGED <<leaseRow, swept>>
    /\ UNCHANGED <<runVars, callVars, commands>>

-----------------------------------------------------------------------------
(* The environment *)

Less(n) == IF n > 0 THEN n - 1 ELSE 0
LeaseTick ==
    /\ lease > 0 \/ (\E r \in Runs : runTtl[r] > 0) \/ (\E x \in Executions : onMachine[x] > 0)
    /\ lease' = Less(lease)
    /\ runTtl' = [r \in Runs |-> Less(runTtl[r])]
    /\ onMachine' = [x \in Executions |-> Less(onMachine[x])]
    /\ UNCHANGED <<fence, ended, holder, callVars, ran, watch>>

Command(x) ==
    \/ Begin(x) \/ HoldBefore(x) \/ SettleFailure(x) \/ ExecEnds(x) \/ TimeOutTool(x)
    \/ HoldAfter(x) \/ Complete(x)
Executes(x) == Heartbeat(x) \/ SettleRun(x) \/ ReleaseComputer(x) \/ StopExecution(x)

LeaseNext ==
    \/ \E r \in Runs : Acquire(r)
    \/ \E x \in Executions : Command(x) \/ Executes(x)
    \/ ScanComputers \/ ReleaseStale
    \/ LeaseTick

LeaseSpec == LeaseInit /\ [][LeaseNext]_leaseVars

-----------------------------------------------------------------------------
(* Properties *)

EffectStatuses == {"absent", "running", "completed", "failed"}
\* The rows, the executions and the machine keep their types, and no hold or
\* renewal reaches further than one TTL ahead.
LeaseTypeOK ==
    /\ fence \in [Runs -> 0 .. MaxFence] /\ runTtl \in [Runs -> 0 .. LeaseTtl]
    /\ ended \in SUBSET Runs
    /\ holder \in Executions \cup {NoOne} /\ lease \in 0 .. ComputerTtl
    /\ effects \in [Runs -> [Calls -> EffectStatuses]]
    /\ pc \in [Executions -> Steps] /\ calling \in [Executions -> Calls \cup {NoCall}]
    /\ onMachine \in [Executions -> 0 .. MaxDuration]
    /\ ran \in [Runs -> [Calls -> Nat]]
    /\ found \in Executions \cup {NoOne} /\ swept \in SUBSET Executions

\* A command key reaches the provider at most once, over every retry, reclaim and
\* refusal of the run.
CommandOnce == \A r \in Runs, c \in Calls : ran[r][c] <= 1

\* Two executions have a command on the machine at the same time only if one of
\* them lost its row early: its run has ended, or a sweep removed the row it had
\* just renewed.  Expiry, takeover, reclaim and crashes never cause it.
ExclusiveUnlessFreed ==
    \A x, y \in Executions :
        (x # y /\ onMachine[x] > 0 /\ onMachine[y] > 0)
            => \E z \in {x, y} : z \in swept \/ RunOf(z) \in ended

\* A command is recorded as completed only by the execution that has its run's
\* current fence, although the gate and the record are two statements.
CommitIsFenced ==
    [][\A r \in Runs, c \in Calls :
         (effects[r][c] # "completed" /\ effects'[r][c] = "completed") =>
             \E x \in Executions :
                 /\ RunOf(x) = r /\ FenceOf(x) = fence[r]
                 /\ pc[x] = "complete" /\ calling[x] = c]_leaseVars

\* A crashed or ended execution does not keep the machine: the row of every
\* binding goes away.
MachineIsFreed == (holder # NoOne) ~> (holder = NoOne)

-----------------------------------------------------------------------------
(* The inductive strengthenings ComputerLeaseProofs uses *)

\* While a command is on the machine its row outlasts it, unless freed early; and
\* only the execution of an ended run releases its row.
LeaseInv ==
    \A x \in Executions :
        /\ (onMachine[x] > 0 /\ x \notin swept /\ RunOf(x) \notin ended)
               => holder = x /\ lease >= onMachine[x]
        /\ pc[x] = "release" => RunOf(x) \in ended

\* The claim an execution is working under: recorded, sent to the provider only
\* past the gate, and still open only under the current fence.
ClaimOK(x) ==
    /\ pc[x] \in InHandler =>
         /\ calling[x] \in Calls
         /\ effects[RunOf(x)][calling[x]] # "absent"
    /\ pc[x] = "hold" => ran[RunOf(x)][calling[x]] = 0
    /\ (pc[x] \in {"exec", "commit", "complete"}
        /\ effects[RunOf(x)][calling[x]] = "running") => FenceOf(x) = fence[RunOf(x)]

\* An execution exists once its fence was won, and a key was begun by one of them.
ClaimInv ==
    /\ \A x \in Executions : ClaimOK(x)
    /\ \A x \in Executions : pc[x] # "none" => FenceOf(x) <= fence[RunOf(x)]
    /\ \A x, y \in Executions :
         (pc[x] = "hold" /\ pc[y] = "hold" /\ RunOf(x) = RunOf(y) /\ calling[x] = calling[y])
             => x = y
    /\ CommandOnce
    /\ \A r \in Runs, c \in Calls : effects[r][c] = "absent" => ran[r][c] = 0

-----------------------------------------------------------------------------
(* What comments in the code say and TLC refutes *)

=============================================================================
