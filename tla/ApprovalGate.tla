---------------------------- MODULE ApprovalGate ----------------------------
(***************************************************************************)
(* One durable approval gate: the row of a gated tool call, the executions  *)
(* that open it and poll it (a restarted run reopens the row its dead       *)
(* predecessor left), and the operators who vote on it from other           *)
(* processes.  One action is one SQL statement, so a vote, a deadline and a *)
(* poll interleave anywhere.                                                *)
(*                                                                          *)
(* The deadline is written from the opener's clock and judged by the        *)
(* database's; a waiter consults its own clock before it asks the database. *)
(***************************************************************************)
EXTENDS Integers, FiniteSets

CONSTANTS
    Waiters,    \* executions of the gated call, one after another or overlapping
    Voters,     \* operator requests in flight
    Timeout,    \* DEFAULT_APPROVAL_TIMEOUT_MS, in ticks
    MaxSkew,    \* bound: how far a host clock is from the database's
    MaxTime     \* bound: the last tick of the database clock

ASSUME GateAssumption ==
    /\ Waiters \cap Voters = {}
    /\ Timeout \in Nat \ {0} /\ MaxSkew \in Nat
    /\ MaxTime \in Nat /\ MaxTime >= Timeout + 2 * MaxSkew

VARIABLES
    status,     \* the approval row: "absent" before it, "gone" after its run's deletion
    expiresAt,  \* its deadline, on the database clock's scale
    now,        \* the database clock
    skew,       \* each waiting host's clock minus the database's
    pc,         \* where each handler is
    answer,     \* what waitFor resolved to, or a vote was answered with
    vote,       \* what each operator wants
    applied     \* the votes that performed the transition
row == <<status, expiresAt>>
vars == <<status, expiresAt, now, skew, pc, answer, vote, applied>>

Procs == Waiters \cup Voters
Decisions == {"approved", "denied", "timed_out"}
Rows == {"absent", "pending", "gone"} \cup Decisions
Votes == {"approved", "denied"}
Steps == {"start", "reopen", "poll", "time_out", "reread",
          "decide", "find", "expire", "refind", "answered", "failed", "crashed"}
\* What a handler can answer with; "none" until it does.
Answers == Rows \cup {"none", "not_found"}

Init ==
    /\ status = "absent" /\ expiresAt = 0 /\ now = 0
    /\ skew \in [Waiters -> (-MaxSkew) .. MaxSkew]
    /\ pc = [p \in Procs |-> "start"]
    /\ answer = [p \in Procs |-> "none"]
    /\ vote \in [Voters -> Votes]
    /\ applied = {}

Goto(p, step) == pc' = [pc EXCEPT ![p] = step]
Answer(p, with) == answer' = [answer EXCEPT ![p] = with] /\ Goto(p, "answered")
HostClock(w) == now + skew[w]

-----------------------------------------------------------------------------
(* packages/db/src/approval-store.ts *)

Expired == status = "pending" /\ expiresAt <= now
\* timeoutApproval's compare-and-set.
TimeOutRow == Expired /\ status' = "timed_out"

-----------------------------------------------------------------------------
(* packages/effect/src/approval-gate.ts: open, then waitFor's loop *)

\* Mutant: an open that overwrites the row it finds.
OpenAgain(w) ==
    /\ pc[w] = "start" /\ status # "gone"
    /\ status' = "pending" /\ expiresAt' = HostClock(w) + Timeout /\ Goto(w, "poll")
    /\ UNCHANGED <<now, skew, answer, vote, applied>>
\* insert .. on conflict do nothing: the first open fixes the deadline.
Open(w) ==
    /\ pc[w] = "start"
    /\ \/ /\ status = "absent"
          /\ status' = "pending" /\ expiresAt' = HostClock(w) + Timeout
          /\ Goto(w, "poll")
       \/ status # "absent" /\ Goto(w, "reopen") /\ UNCHANGED row
    /\ UNCHANGED <<now, skew, answer, vote, applied>>

\* The key was taken: the scoped read returns the row, or the run is gone.
Reopen(w) ==
    /\ pc[w] = "reopen" /\ Goto(w, IF status = "gone" THEN "failed" ELSE "poll")
    /\ UNCHANGED <<status, expiresAt, now, skew, answer, vote, applied>>

\* Mutant: a wait that leaves the deadline to somebody else.
PollForever(w) ==
    /\ pc[w] = "poll"
    /\ \/ status \in Decisions /\ Answer(w, status)
       \/ status = "gone" /\ Goto(w, "failed") /\ UNCHANGED answer
    /\ UNCHANGED <<status, expiresAt, now, skew, vote, applied>>
\* One turn of waitFor: a decision ends it, a due row is timed out, and otherwise
\* the waiter sleeps and polls again.
Poll(w) ==
    /\ pc[w] = "poll"
    /\ \/ status \in Decisions /\ Answer(w, status)
       \/ status = "gone" /\ Goto(w, "failed") /\ UNCHANGED answer
       \/ /\ status = "pending" /\ HostClock(w) >= expiresAt
          /\ Goto(w, "time_out") /\ UNCHANGED answer
    /\ UNCHANGED <<status, expiresAt, now, skew, vote, applied>>

\* Mutant: resolveTimeout trusting the host clock that sent the waiter here.
ResolveTimeoutEarly(w) ==
    /\ pc[w] = "time_out"
    /\ status' = "timed_out" /\ Answer(w, "timed_out")
    /\ UNCHANGED <<expiresAt, now, skew, vote, applied>>
\* Mutant: a lost timeout race taken for a timeout.
ResolveTimeoutAssumed(w) ==
    /\ pc[w] = "time_out" /\ Answer(w, "timed_out")
    /\ status' = IF Expired THEN "timed_out" ELSE status
    /\ UNCHANGED <<expiresAt, now, skew, vote, applied>>
\* resolveTimeout: the row's own clock decides; the loser reads what won.
ResolveTimeout(w) ==
    /\ pc[w] = "time_out"
    /\ \/ TimeOutRow /\ Answer(w, "timed_out")
       \/ ~Expired /\ Goto(w, "reread") /\ UNCHANGED <<status, answer>>
    /\ UNCHANGED <<expiresAt, now, skew, vote, applied>>

Reread(w) ==
    /\ pc[w] = "reread"
    /\ \/ status \in Decisions /\ Answer(w, status)
       \/ status = "gone" /\ Goto(w, "failed") /\ UNCHANGED answer
       \/ status = "pending" /\ Goto(w, "poll") /\ UNCHANGED answer
    /\ UNCHANGED <<status, expiresAt, now, skew, vote, applied>>

-----------------------------------------------------------------------------
(* decide: the operator's vote, over up to four statements *)

\* An operator votes on a row it was shown, so never before the row exists.
Decide(v) ==
    /\ pc[v] = "start" /\ status # "absent"
    /\ \/ /\ status = "pending" /\ expiresAt > now
          /\ status' = vote[v] /\ applied' = applied \cup {v} /\ Answer(v, vote[v])
       \/ /\ ~(status = "pending" /\ expiresAt > now)
          /\ Goto(v, "find") /\ UNCHANGED <<status, applied, answer>>
    /\ UNCHANGED <<expiresAt, now, skew, vote>>

Find(v) ==
    /\ pc[v] = "find"
    /\ \/ status = "pending" /\ Goto(v, "expire") /\ UNCHANGED answer
       \/ status \in Decisions /\ Answer(v, status)
       \/ status = "gone" /\ Answer(v, "not_found")
    /\ UNCHANGED <<status, expiresAt, now, skew, vote, applied>>

\* A late vote settles the deadline itself rather than approving past it.
Expire(v) ==
    /\ pc[v] = "expire"
    /\ \/ TimeOutRow /\ Answer(v, "timed_out")
       \/ ~Expired /\ Goto(v, "refind") /\ UNCHANGED <<status, answer>>
    /\ UNCHANGED <<expiresAt, now, skew, vote, applied>>

Refind(v) ==
    /\ pc[v] = "refind"
    /\ Answer(v, IF status = "gone" THEN "not_found" ELSE status)
    /\ UNCHANGED <<status, expiresAt, now, skew, vote, applied>>

-----------------------------------------------------------------------------
(* The environment *)

\* The waiting execution dies, loses its lease, or its store call fails.
Stop(w) ==
    /\ pc[w] \notin {"start", "answered", "failed", "crashed"} /\ Goto(w, "crashed")
    /\ UNCHANGED <<status, expiresAt, now, skew, answer, vote, applied>>

\* The run is deleted, and its approval rows with it.
DeleteRun ==
    /\ status \notin {"absent", "gone"} /\ status' = "gone"
    /\ UNCHANGED <<expiresAt, now, skew, pc, answer, vote, applied>>

\* Time before the gate exists is of no interest: the clock starts with the row.
Tick ==
    /\ status # "absent" /\ now < MaxTime /\ now' = now + 1
    /\ UNCHANGED <<status, expiresAt, skew, pc, answer, vote, applied>>

Wait(w) == Open(w) \/ Reopen(w) \/ Poll(w) \/ ResolveTimeout(w) \/ Reread(w)
Vote(v) == Decide(v) \/ Find(v) \/ Expire(v) \/ Refind(v)
Next ==
    \/ \E w \in Waiters : Wait(w) \/ Stop(w)
    \/ \E v \in Voters : Vote(v)
    \/ DeleteRun \/ Tick

Spec == Init /\ [][Next]_vars
\* Clocks advance and an execution that is not stopped takes its next step.
FairSpec == Spec /\ WF_vars(Tick) /\ \A w \in Waiters : WF_vars(Wait(w))

-----------------------------------------------------------------------------
(* Properties *)

\* The row, the clocks and the handlers keep their types, a deadline is a timeout
\* past some host's clock at the opening, and time starts with the row.
TypeOK ==
    /\ status \in Rows /\ now \in 0 .. MaxTime
    /\ status = "absent" => now = 0
    /\ expiresAt \in (-MaxSkew) .. (MaxSkew + Timeout)
    /\ skew \in [Waiters -> (-MaxSkew) .. MaxSkew]
    /\ pc \in [Procs -> Steps] /\ answer \in [Procs -> Answers]
    /\ vote \in [Voters -> Votes] /\ applied \in SUBSET Voters

\* Everyone who was told a decision was told the same one: every waiter of every
\* attempt and every operator, whoever won the race to settle the row.
OneDecision ==
    \A p, q \in Procs :
        (answer[p] \in Decisions /\ answer[q] \in Decisions) => answer[p] = answer[q]

\* At most one vote is reported as applied, and it is what everyone was told: two
\* operators never both believe they decided, and no vote beats the deadline that
\* an execution already answered with.
OneVoteApplies ==
    /\ \A u, v \in applied : u = v
    /\ \A v \in applied : \A p \in Procs : answer[p] \in Decisions => answer[p] = vote[v]

\* An operator is never answered with a row that is still undecided: a vote either
\* applies, or reports what was decided instead, although its four statements see
\* four different moments of the row.
VotesAreAnswered == \A v \in Voters : answer[v] # "pending"

\* Everyone can rely on what the gate told them: one decision for all, at most one vote
\* that applied, and the other voters told what was decided instead.
VotesAreSound == OneDecision /\ OneVoteApplies /\ VotesAreAnswered

\* A decision and the deadline of a row are final, whatever a restarted run, a late
\* vote or a slow host clock does later.
RowIsFinal ==
    [][/\ status \in Decisions => status' \in {status, "gone"}
       /\ status # "absent" => expiresAt' = expiresAt]_vars

\* A gate only times out once the deadline has passed on the database's clock, so
\* a host that runs ahead never takes the operators' time away.
NeverEarly == status = "timed_out" => expiresAt <= now

\* Waiting ends: every execution that is not stopped leaves the gate, by a vote or
\* by the deadline.
WaitersLeave ==
    \A w \in Waiters : (pc[w] = "poll") ~> (pc[w] \in {"answered", "failed", "crashed"})

-----------------------------------------------------------------------------
(* The inductive strengthening ApprovalGateProofs uses *)

\* Whatever was answered is what the row says, or said before its deletion; and a
\* vote past its first statement meets a row that is due or decided.
GateInv ==
    /\ \A p \in Procs : answer[p] \in Decisions => status \in {answer[p], "gone"}
    /\ OneDecision
    /\ OneVoteApplies
    /\ \A v \in applied : status \in {vote[v], "gone"}
    /\ status \in {"absent", "pending"} => applied = {}
    /\ \A v \in Voters : pc[v] \in {"find", "expire"} =>
         status \in Decisions \cup {"gone"} \/ Expired
    /\ \A v \in Voters : pc[v] = "refind" => status \in Decisions \cup {"gone"}
    /\ VotesAreAnswered
    /\ NeverEarly
=============================================================================
