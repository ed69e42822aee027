---------------------------- MODULE Deployment ----------------------------
(***************************************************************************)
(* The operator's release commands (testkit/src/deployment/commands.ts:     *)
(* setup, up, upgrade, rollback, down) and the two files they keep          *)
(* (release.ts: the env file's image tag and the release state).            *)
(*                                                                          *)
(* A release is its number, and so is the schema its migrations lead to;    *)
(* an image that is older than the schema migrates nothing.  Docker may     *)
(* refuse any call, and the operator may interrupt a command anywhere.  One *)
(* command runs at a time: nothing in the code keeps two apart.             *)
(***************************************************************************)
EXTENDS Naturals

CONSTANTS
    Releases,   \* 1 .. n
    Services    \* applicationServices

ASSUME DeploymentAssumption == Releases \subseteq Nat \ {0} /\ Services # {}

VARIABLES
    envTag,      \* PORKBOT_IMAGE_TAG in the env file, 0 while there is none
    recorded,    \* the release state file: active and previous, 0 for none
    schema,      \* how far the database is migrated
    running,     \* the release each service's container runs, 0 for none
    candidates,  \* the disposable containers of an upgrade
    cmd,         \* the command under way
    served,      \* history: releases that all services ran, healthy
    clean,       \* history: "yes" from a command's success to what may undo it
    override,    \* history: a rollback to a named tag, a release command that found no
                 \* recorded state, or a `down --volumes`
    interrupted  \* history: a command was interrupted
deploymentVars == <<envTag, recorded, schema, running, candidates, cmd, served, clean, override, interrupted>>

NoCommand == [pc |-> "idle", name |-> "none", target |-> 0, current |-> 0]
NoRecord == [active |-> 0, previous |-> 0]
RunsOnly(tag) == \A s \in Services : running[s] = tag

DeploymentInit ==
    /\ envTag = 0 /\ recorded = NoRecord /\ schema = 0
    /\ running = [s \in Services |-> 0] /\ candidates = {}
    /\ cmd = NoCommand /\ served = {}
    /\ clean = "no" /\ override = "no" /\ interrupted = "no"

files == <<envTag, recorded>>
ghosts == <<served, clean, override, interrupted>>
At(pc) == cmd.pc = pc
Go(pc) == cmd' = [cmd EXCEPT !.pc = pc]
Begin(name, pc, tag, current) == cmd' = [pc |-> pc, name |-> name, target |-> tag, current |-> current]
\* The command returns without having touched what runs.
Exit == cmd' = NoCommand
\* The command returns and leaves the deployment in a state somebody must look at.
ExitDirty == cmd' = NoCommand /\ clean' = "no" /\ UNCHANGED <<served, override, interrupted>>

----------------------------------------------------------------------------
(* The commands begin.                                                      *)

\* runSetup: --tag, or the tag that is there, or the checkout's.
Setup(tag) ==
    /\ At("idle") /\ tag # envTag
    /\ envTag' = tag /\ clean' = "no"
    /\ UNCHANGED <<recorded, schema, running, candidates, cmd, served, override, interrupted>>

\* runUp renders the env file when there is none.
Up(tag) ==
    /\ At("idle") /\ envTag \in {0, tag} /\ envTag' = tag
    /\ Begin("up", "migrate", tag, envTag)
    /\ UNCHANGED <<recorded, schema, running, candidates, ghosts>>

\* The env file and the state must name one release, if there is a state.
KnowsActive == recorded = NoRecord \/ recorded.active = envTag

Upgrade(tag) ==
    /\ At("idle") /\ envTag # 0 /\ KnowsActive /\ tag # envTag
    /\ Begin("upgrade", "pull", tag, envTag)
    /\ override' = IF recorded = NoRecord THEN "yes" ELSE override
    /\ UNCHANGED <<files, schema, running, candidates, served, clean, interrupted>>

\* --tag, or the previous release on record.
Rollback(tag) ==
    /\ At("idle") /\ envTag # 0 /\ KnowsActive /\ tag # envTag
    /\ Begin("rollback", "pull", tag, envTag)
    /\ override' \in IF tag = recorded.previous THEN {"yes", override} ELSE {"yes"}
    /\ UNCHANGED <<files, schema, running, candidates, served, clean, interrupted>>

----------------------------------------------------------------------------
(* Their steps.                                                             *)

pullRelease ==
    /\ At("pull") /\ Go(IF cmd.name = "upgrade" THEN "candidates" ELSE "switch")
    /\ UNCHANGED <<files, schema, running, candidates, ghosts>>

PullFails ==
    /\ At("pull") /\ Exit
    /\ UNCHANGED <<files, schema, running, candidates, ghosts>>

\* startHealthyCandidates: one service after the other.
StartCandidate(s) ==
    /\ At("candidates") /\ s \notin candidates /\ candidates' = candidates \cup {s}
    /\ UNCHANGED <<files, schema, running, cmd, ghosts>>

AllHealthy ==
    /\ At("candidates") /\ candidates = Services /\ Go("migrate")
    /\ UNCHANGED <<files, schema, running, candidates, ghosts>>

\* A candidate that does not start or is not healthy, now or after the migration, ends the
\* upgrade and takes the others with it.
CandidateFails ==
    /\ cmd.pc \in {"candidates", "recheck"} /\ Exit /\ candidates' = {}
    /\ UNCHANGED <<files, schema, running, ghosts>>

Migrated == IF schema < cmd.target THEN cmd.target ELSE schema

\* The migrate one-shot; compose runs it before the services it starts.
Migrate ==
    /\ At("migrate") /\ schema' = Migrated
    /\ Go(IF cmd.name = "upgrade" THEN "recheck" ELSE "switch")
    /\ UNCHANGED <<files, running, candidates, ghosts>>

\* It failed, and may have got there all the same.
MigrateFails ==
    /\ At("migrate") /\ cmd.name = "upgrade" /\ Exit
    /\ schema' \in {schema, Migrated} /\ candidates' = {}
    /\ UNCHANGED <<files, running, ghosts>>

UpFails ==
    /\ At("migrate") /\ cmd.name = "up" /\ ExitDirty
    /\ schema' \in {schema, Migrated}
    /\ UNCHANGED <<files, running, candidates>>

\* The candidates are still healthy, and removed.
Recheck ==
    /\ At("recheck") /\ candidates' = {} /\ Go("switch")
    /\ UNCHANGED <<files, schema, running, ghosts>>

\* switchServices: compose recreates the containers one by one; "restore" puts the active
\* release back after a switch that failed.
Wanted == IF At("switch") THEN cmd.target ELSE cmd.current
SwitchOne(s) ==
    /\ cmd.pc \in {"switch", "restore"} /\ running[s] # Wanted
    /\ running' = [running EXCEPT ![s] = Wanted]
    /\ UNCHANGED <<files, schema, candidates, cmd, ghosts>>

Switched ==
    /\ At("switch") /\ RunsOnly(cmd.target) /\ served' = served \cup {cmd.target}
    /\ Go(IF cmd.name = "up" THEN "remember" ELSE "record env")
    /\ UNCHANGED <<files, schema, running, candidates, clean, override, interrupted>>

SwitchFails ==
    /\ At("switch") /\ cmd.name # "up" /\ Go("restore")
    /\ UNCHANGED <<files, schema, running, candidates, ghosts>>

Restored ==
    /\ At("restore") /\ RunsOnly(cmd.current) /\ served' = served \cup {cmd.current} /\ Exit
    /\ UNCHANGED <<files, schema, running, candidates, clean, override, interrupted>>

\* The restore failed too, or the services of an `up` did not become healthy.
Stranded ==
    /\ At("restore") \/ (At("switch") /\ cmd.name = "up")
    /\ ExitDirty
    /\ UNCHANGED <<files, schema, running, candidates>>

\* replaceImageTag, then writeReleaseState: each replaces its file in one rename.
RecordEnv ==
    /\ At("record env") /\ envTag' = cmd.target /\ Go("record state")
    /\ UNCHANGED <<recorded, schema, running, candidates, ghosts>>

RecordState ==
    /\ At("record state") /\ recorded' = [active |-> cmd.target, previous |-> cmd.current]
    /\ cmd' = NoCommand /\ clean' = "yes"
    /\ UNCHANGED <<envTag, schema, running, candidates, served, override, interrupted>>

\* Mutant: whatever was active becomes the previous release.
PreviousActive(active) == recorded.active

\* The previous release rememberActiveRelease keeps for the one that is up now.
Previous(active) == IF recorded.active # active THEN recorded.active ELSE recorded.previous

rememberActiveRelease ==
    /\ At("remember") /\ recorded' = [active |-> cmd.target, previous |-> Previous(cmd.target)]
    /\ cmd' = NoCommand /\ clean' = "yes"
    /\ UNCHANGED <<envTag, schema, running, candidates, served, override, interrupted>>

RecordFails ==
    /\ cmd.pc \in {"record env", "record state", "remember"} /\ ExitDirty
    /\ UNCHANGED <<files, schema, running, candidates>>

----------------------------------------------------------------------------
\* runDown, with or without --volumes; the two files stay.
Down(volumes) ==
    /\ At("idle") /\ clean' = "no"
    /\ running' = [s \in Services |-> 0] /\ candidates' = {}
    /\ schema' = IF volumes THEN 0 ELSE schema
    /\ override' = IF volumes THEN "yes" ELSE override
    /\ UNCHANGED <<files, cmd, served, interrupted>>

Interrupt ==
    /\ ~At("idle") /\ cmd' = NoCommand /\ clean' = "no" /\ interrupted' = "yes"
    /\ UNCHANGED <<files, schema, running, candidates, served, override>>

DeploymentNext ==
    \/ \E tag \in Releases : Setup(tag) \/ Up(tag) \/ Upgrade(tag) \/ Rollback(tag)
    \/ \E volumes \in BOOLEAN : Down(volumes)
    \/ pullRelease \/ PullFails \/ AllHealthy \/ CandidateFails
    \/ Migrate \/ MigrateFails \/ UpFails \/ Recheck
    \/ \E s \in Services : StartCandidate(s) \/ SwitchOne(s)
    \/ Switched \/ SwitchFails \/ Restored \/ Stranded
    \/ RecordEnv \/ RecordState \/ rememberActiveRelease \/ RecordFails \/ Interrupt

DeploymentSpec == DeploymentInit /\ [][DeploymentNext]_deploymentVars

----------------------------------------------------------------------------
Tags == Releases \cup {0}
DeploymentTypeOK ==
    /\ envTag \in Tags /\ recorded \in [active : Tags, previous : Tags] /\ schema \in Tags
    /\ running \in [Services -> Tags] /\ candidates \subseteq Services
    /\ cmd.target \in Tags /\ cmd.current \in Tags /\ served \subseteq Releases

(* No service runs a release whose migrations are missing, whichever          *)
(* switches failed, were undone or were interrupted, unless the operator      *)
(* overrode the record.                                                       *)
MigratedBeforeServing == override = "no" => \A s \in Services : running[s] <= schema

(* The previous release on record is another one than the active one, and     *)
(* has served: rollback without a tag returns to something that worked.       *)
RollbackServed ==
    /\ recorded.previous = recorded.active => recorded = NoRecord
    /\ override = "no" => {recorded.active, recorded.previous} \subseteq served \cup {0}

(* After a command that succeeded, the files name the release that every      *)
(* service runs, and a later command that fails before its switch, or whose   *)
(* switch is undone, leaves that so.                                          *)
FilesTellTheTruth ==
    At("idle") /\ clean = "yes" => RunsOnly(envTag) /\ recorded.active = envTag

(* An upgrade that is not interrupted takes its disposable containers away.   *)
NoStrayCandidates == At("idle") /\ interrupted = "no" => candidates = {}

DeploymentIsSound ==
    DeploymentTypeOK /\ MigratedBeforeServing /\ RollbackServed /\ FilesTellTheTruth
    /\ NoStrayCandidates
=============================================================================
