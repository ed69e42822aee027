---------------------------- MODULE RunLifecycle ----------------------------
(***************************************************************************)
(* What a run promises its readers: the transition table of RunStatus, and  *)
(* an ownership generation that only ever grows and stops growing once the  *)
(* run has ended.  The SQL guards of run-leases.ts restate this table by    *)
(* hand; RunLease is shown to implement it.                                 *)
(***************************************************************************)
EXTENDS Naturals, RunStatus

VARIABLES status, fence

Init == status = INITIAL_RUN_STATUS /\ fence = 0

\* The first owner: the only step that both starts the run and opens a fence.
Start ==
    /\ status = "queued" /\ canTransition(status, "running")
    /\ status' = "running" /\ fence' = fence + 1

\* A successor opens the next fence of a run that has not ended.
Succeed ==
    /\ status # "queued" /\ ~isTerminalStatus(status)
    /\ fence' = fence + 1 /\ UNCHANGED status

\* The current owner moves the run along the table.
Move ==
    /\ status # "queued"
    /\ \E to \in DOMAIN RUN_TRANSITIONS : canTransition(status, to) /\ status' = to
    /\ UNCHANGED fence

Next == Start \/ Succeed \/ Move
Spec == Init /\ [][Next]_<<status, fence>>
=============================================================================
