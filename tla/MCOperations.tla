---------------------------- MODULE MCOperations ----------------------------
(* What surrounds a run, in one state graph: the watch over silent runs, a   *)
(* bot's memory, a run's secret, the backups, and the release commands.  A   *)
(* behaviour exercises the part its focus names; the others stay where they  *)
(* begin.                                                                    *)
EXTENDS Backups, Deployment, MemoryStore, RunNotices, RunSecrets, TLC

CONSTANT Foci           \* the parts a run exercises

VARIABLE focus

vars == <<focus, noticesVars, memoryVars, secretVars, backupVars, deploymentVars>>

\* Two stall episodes told in one attempt each; then one episode whose notices are retried.
OneAttempt == \A p \in Producers : job'[p].tries = 0
OneEpisode == episode' = 1

\* A long history of one document; then more documents than the cap, with shorter ones.
OneDocument == \A w \in Writers : write'[w] # NoWrite => write'[w].document = "d1"
Crowded ==
    /\ \A w \in Writers : write'[w].action \in {"create", "update"} => write'[w].text = "x"
    /\ \A d \in Documents : document'[d].revision <= 3

\* The host's timer and an operator at once; then one of them under two watchdogs.
Unwatched == watch' = watch
OneJob ==
    /\ backup'["operator"] = NoBackup /\ homes' = homes
    /\ faults' <= 1

Init ==
    /\ focus \in Foci
    /\ NoticesInit /\ SecretInit /\ DeploymentInit /\ MemoryInit /\ BackupInit
    /\ focus # "backup" => homes = {}

Next ==
    /\ UNCHANGED focus
    /\ \/ /\ focus = "watch" /\ NoticesNext /\ OneAttempt
          /\ UNCHANGED <<memoryVars, secretVars, backupVars, deploymentVars>>
       \/ /\ focus = "retry" /\ NoticesNext /\ OneEpisode
          /\ UNCHANGED <<memoryVars, secretVars, backupVars, deploymentVars>>
       \/ /\ focus = "memory" /\ MemoryNext /\ OneDocument
          /\ UNCHANGED <<noticesVars, secretVars, backupVars, deploymentVars>>
       \/ /\ focus = "crowd" /\ MemoryNext /\ Crowded
          /\ UNCHANGED <<noticesVars, secretVars, backupVars, deploymentVars>>
       \/ /\ focus = "secret" /\ SecretNext
          /\ UNCHANGED <<noticesVars, memoryVars, backupVars, deploymentVars>>
       \/ /\ focus = "backup" /\ BackupNext /\ Unwatched
          /\ UNCHANGED <<noticesVars, memoryVars, secretVars, deploymentVars>>
       \/ /\ focus = "alerts" /\ BackupNext /\ OneJob
          /\ UNCHANGED <<noticesVars, memoryVars, secretVars, deploymentVars>>
       \/ /\ focus = "release" /\ DeploymentNext
          /\ UNCHANGED <<noticesVars, memoryVars, secretVars, backupVars>>

Spec == Init /\ [][Next]_vars

\* The watchdog passes are interchangeable.
Symmetry == Permutations(Dogs)

-----------------------------------------------------------------------------
(* The properties are the modules' own. *)
=============================================================================
