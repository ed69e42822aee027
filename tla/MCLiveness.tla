----------------------------- MODULE MCLiveness -----------------------------
(* What must eventually happen in the components that do not meet, in one   *)
(* state graph: a behaviour exercises the component its focus names, and     *)
(* the others stay where they begin.  Each fairness condition is the one the  *)
(* scheduling of that component's code gives; what an operator, an agent or   *)
(* a crash does is owed to nobody.                                           *)
EXTENDS Integers, Sequences, TLC

CONSTANTS
    Foci,                       \* the components a run exercises
    Untouched, often, seldom,   \* of the routine
    Patches, Editors, MaxTime,
    NoOne, NoCall               \* of the computer's lease

VARIABLES
    focus,
    status, leaseLeft, progressAge, step, stalled, stop, notified, worker, hung,
    tracker, beat, eventAge, covered, reported, job, episode, series, messages,
    now, row, ledger, runs, tasks, tick, edit, jobs, faults, since,
    box, proxy, network, idle, busy, req, mishaps, overtaken, late,
    fence, runTtl, ended, holder, lease, effects, pc, calling, onMachine, ran, found, swept,
    agent, deltas, aborted, source, closed, pump, taken, sessionSeq, finished, events,
    eventsEnd, commands, commandsEnd, loop, command, poller, held, correction, given, stopMark,
    recorded, outcome

noticesVars ==
    <<status, leaseLeft, progressAge, step, stalled, stop, notified, worker, hung,
      tracker, beat, eventAge, covered, reported, job, episode, series, messages>>
routineVars == <<now, row, ledger, runs, tasks, tick, edit, jobs, faults, since>>
machineVars == <<box, proxy, network, idle, busy, req, mishaps, overtaken, late>>
leaseVars ==
    <<fence, runTtl, ended, holder, lease, effects, pc, calling, onMachine, ran, found, swept>>
sessionVars ==
    <<agent, deltas, aborted, source, closed, pump, taken, sessionSeq, finished, events,
      eventsEnd, commands, commandsEnd, loop, command, poller, held, correction, given, stopMark,
      recorded, outcome>>
vars == <<focus, noticesVars, routineVars, machineVars, leaseVars, sessionVars>>

Notices == INSTANCE RunNotices WITH
    Dogs <- {"w1"}, Threshold <- 0, LeaseTtl <- 2, MaxAttempts <- 1, MaxEpisodes <- 1,
    WorkNotes <- TRUE
Routine == INSTANCE Routines WITH
    Crons <- {often, seldom}, Fires <- (often :> 1 .. MaxTime) @@ (seldom :> {2}),
    Tests <- {}, Ticks <- {"k1"}, MissGrace <- 1, MaxPassFaults <- 1
Machine == INSTANCE ComputerMachine WITH
    Clients <- {"a"}, Kinds <- {"boot", "exec", "stop"}, IdleTimeout <- 2,
    MaxRestarts <- 0, MaxRefusals <- 0, MaxBoxDeaths <- 1, MaxProxyDeaths <- 1
Lease == INSTANCE ComputerLease WITH
    Runs <- {"r1"}, Calls <- {"c1", "c2"}, LeaseTtl <- 2, MaxDuration <- 2, MaxFence <- 2
Session == INSTANCE AgentSession WITH Steers <- 1, MaxDeltas <- 1, stop <- stopMark

ASSUME
    /\ Notices!NoticesAssumption /\ Routine!RoutinesAssumption
    /\ Machine!MachineAssumption /\ Session!SessionAssumption

\* The edits an operator may submit: pausing, resuming, and another schedule.
Patch(cron, enabled) == [cron |-> cron, enabled |-> enabled]
PausePatches == {Patch(Untouched, "no"), Patch(Untouched, "yes")}
CronPatches == {Patch(often, "yes"), Patch(Untouched, "no")}

Init ==
    /\ focus \in Foci
    /\ Notices!NoticesInit /\ Routine!RoutineInit /\ Machine!MachineInit /\ Lease!LeaseInit /\ Session!SessionInit
    /\ focus # "routine" => row.cron = often
    /\ focus # "machine" => ~network
    /\ mishaps = [restarts |-> 0, refusals |-> 0, boxDeaths |-> 1, proxyDeaths |-> 1]

Next ==
    /\ UNCHANGED focus
    /\ \/ /\ focus = "notices" /\ Notices!NoticesNext
          /\ UNCHANGED <<routineVars, machineVars, leaseVars, sessionVars>>
       \/ /\ focus = "routine" /\ Routine!RoutineNext
          /\ UNCHANGED <<noticesVars, machineVars, leaseVars, sessionVars>>
       \/ /\ focus = "machine" /\ Machine!MachineNext
          /\ UNCHANGED <<noticesVars, routineVars, leaseVars, sessionVars>>
       \/ /\ focus = "lease" /\ Lease!LeaseNext
          /\ UNCHANGED <<noticesVars, routineVars, machineVars, sessionVars>>
       \/ /\ focus = "session" /\ Session!SessionNext
          /\ UNCHANGED <<noticesVars, routineVars, machineVars, leaseVars>>

\* The watchdog's cron job runs every minute and does not die every single time; a
\* worker that is up beats; time passes.
NoticesFairness ==
    /\ WF_noticesVars(focus = "notices" /\ Notices!Tick)
    /\ WF_noticesVars(focus = "notices" /\ Notices!Snapshot)
    /\ WF_noticesVars(focus = "notices" /\ Notices!Heartbeat)
    /\ SF_noticesVars(focus = "notices" /\ Notices!Scan("w1"))
    /\ SF_noticesVars(focus = "notices" /\ Notices!MarkStalled("w1"))
    /\ SF_noticesVars(focus = "notices" /\ Notices!TimeOutRun("w1"))
    /\ WF_noticesVars(focus = "notices" /\ Notices!Notify("w1"))
\* A pass that began keeps going while its worker lives, the cron scheduler starts
\* another, and the queue hands deliveries out.
RoutineFairness ==
    /\ WF_routineVars(focus = "routine" /\ Routine!Clock)
    /\ WF_routineVars(focus = "routine" /\ Routine!Pass("k1"))
    /\ WF_routineVars(focus = "routine" /\ \E i \in 1 .. Len(runs) : Routine!Age(i))
    /\ WF_routineVars(focus = "routine" /\ \E i \in jobs : Routine!Execute(i))
\* Every call is answered, the interval keeps firing, the clock runs.
MachineFairness ==
    /\ \A r \in {"a", "sweeper", "reconciler"} :
          WF_machineVars(focus = "machine" /\ Machine!Step(r))
    /\ WF_machineVars(focus = "machine" /\ Machine!Sweep)
    /\ WF_machineVars(focus = "machine" /\ Machine!ReconcileList)
    /\ WF_machineVars(focus = "machine" /\ Machine!Tick)
\* Time passes, and cron starts a watchdog pass every minute.
LeaseFairness ==
    /\ WF_leaseVars(focus = "lease" /\ Lease!LeaseTick)
    /\ WF_leaseVars(focus = "lease" /\ Lease!ScanComputers)
    /\ WF_leaseVars(focus = "lease" /\ Lease!ReleaseStale)
\* Fibers, timers and queries make progress; the agent and the operator owe nothing.
SessionFairness ==
    /\ WF_sessionVars(focus = "session" /\ Session!Pump)
    /\ WF_sessionVars(focus = "session" /\ Session!Obey)
    /\ WF_sessionVars(focus = "session" /\ Session!Poll)
    /\ WF_sessionVars(focus = "session" /\ Session!Reader)

FairSpec ==
    /\ Init /\ [][Next]_vars
    /\ NoticesFairness /\ RoutineFairness /\ MachineFairness /\ LeaseFairness /\ SessionFairness

-----------------------------------------------------------------------------
(* The parts' properties; each part's module explains them. *)

\* Run notices: an agent that falls silent is noticed or its run ends, and the mark goes
\* with the first beat that reports progress.
HangIsSeen == focus = "notices" => Notices!HangIsSeen /\ Notices!RecoveryClearsTheMark

\* Routines: a due slot is fired or recorded missed.
DueSlotsSettle == focus = "routine" => Routine!DueSlotsSettle

\* Routines: no slot is passed over in silence, and a run whose delivery died with its
\* process is delivered again.
RoutinesLoseNothing ==
    focus = "routine" => [](Routine!NoSilentSlot) /\ Routine!RunsAreDelivered

\* The supervisor: a machine nobody uses is parked.
IdleIsParked == focus = "machine" => Machine!IdleIsParked

\* Computer leases: a held machine is freed, however its holder dies.
MachineIsFreed == focus = "lease" => Lease!MachineIsFreed

\* The agent's session: a durable stop ends a run the agent does not end itself.
StopIsObeyed == focus = "session" => Session!StopIsObeyed
=============================================================================
