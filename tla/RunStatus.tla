------------------------------ MODULE RunStatus ------------------------------
(***************************************************************************)
(* The status vocabulary and the transition table of                       *)
(* packages/core/src/run-state.ts, shared by every module that moves a run: *)
(* the lease's SQL guards, the event fold and the notices.                  *)
(***************************************************************************)

RUN_TRANSITIONS ==
    [queued           |-> {"running", "failed", "cancelled"},
     running          |-> {"waiting_approval", "completed", "failed", "cancelled"},
     waiting_approval |-> {"running", "failed", "cancelled"},
     completed        |-> {},
     failed           |-> {},
     cancelled        |-> {}]

RUN_STATUSES == DOMAIN RUN_TRANSITIONS
INITIAL_RUN_STATUS == "queued"
canTransition(from, to) == to \in RUN_TRANSITIONS[from]
isTerminalStatus(s) == RUN_TRANSITIONS[s] = {}
=============================================================================
