----------------------------- MODULE MCPlatform -----------------------------
(* The platform's parts in one state graph: a routine, a computer's lease,    *)
(* its machine under the supervisor, and its snapshots.  A behaviour          *)
(* exercises the part its focus names; the others stay where they begin.      *)
EXTENDS ComputerLease, ComputerMachine, ComputerSnapshots, Routines, TLC

CONSTANTS
    Foci,               \* the parts a run exercises
    often, seldom,      \* the routine's schedules
    contender           \* the run that is not reclaimed while it contends for the machine

VARIABLE focus

vars == <<focus, routineVars, leaseVars, machineVars, snapshotsVars>>

\* Two schedules that share a fire time, so that an edit can move the cursor to an
\* instant the other schedule fires at too.
Patch(c, e) == [cron |-> c, enabled |-> e]
MCFires == (often :> 1 .. 2) @@ (seldom :> {2})
MCPatches == {Patch(seldom, "same"), Patch(often, "yes"), Patch(Untouched, "no")}

\* Two boots, a grant and a stop, of which the daemon refuses one call.
Role == ("p" :> "boot") @@ ("q" :> "boot") @@ ("s" :> "grant") @@ ("t" :> "stop")

\* Two requests next to the idle sweep and a supervisor that dies; then two under a
\* daemon that refuses a call and containers that exit, while no time passes.
Mishaps(restarts, refusals, deaths) ==
    [restarts |-> restarts, refusals |-> refusals, boxDeaths |-> deaths, proxyDeaths |-> deaths]
Narrow ==
    CASE focus = "machine" -> \A r \in Clients : req'[r].kind \in {"none", "answered", "boot", "grant"}
      [] focus = "faulty" -> req'["sweeper"] = NoRequest /\ idle' # IdleTimeout
      [] focus = "raced" -> \A r \in Clients : req'[r].kind \in {"none", "answered", Role[r]}

Init ==
    /\ focus \in Foci
    /\ RoutineInit /\ LeaseInit /\ SnapshotsInit /\ MachineInit
    /\ mishaps = CASE focus = "faulty" -> Mishaps(0, 1, 1)
                   [] focus = "raced" -> Mishaps(0, 1, 0)
                   [] OTHER -> Mishaps(1, 0, 0)
    /\ focus # "routine" => row.cron = often
    /\ focus \notin {"machine", "faulty", "raced"} => ~network
    /\ focus # "snapshots" => home = {}

Next ==
    /\ UNCHANGED focus
    /\ \/ focus = "routine" /\ RoutineNext /\ UNCHANGED <<leaseVars, machineVars, snapshotsVars>>
       \/ /\ focus = "lease" /\ LeaseNext /\ fence'[contender] < MaxFence
          /\ UNCHANGED <<routineVars, machineVars, snapshotsVars>>
       \/ /\ focus \in {"machine", "faulty", "raced"} /\ MachineNext /\ Narrow
          /\ UNCHANGED <<routineVars, leaseVars, snapshotsVars>>
       \/ focus = "snapshots" /\ SnapshotsNext /\ UNCHANGED <<routineVars, leaseVars, machineVars>>

Spec == Init /\ [][Next]_vars

\* What the model checker may exchange for one another.
Symmetry == Permutations(Captures)
=============================================================================
