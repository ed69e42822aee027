------------------------------ MODULE EventFold ------------------------------
(***************************************************************************)
(* The thread snapshot a client renders: packages/core/src/event-reducer.ts *)
(* folded over a log of run events that arrive in any order and any number  *)
(* of times, and the console that refuses the stream on the first           *)
(* contradiction and starts again from nothing when the operator retries.   *)
(*                                                                          *)
(* A reducer is an operator from a snapshot and an event to the set of      *)
(* snapshots it returns: one, or none when it returns a typed error.  A     *)
(* message's text is the sequence of positions that contributed to it, so a *)
(* delta applied twice or out of order shows.                               *)
(***************************************************************************)
EXTENDS Integers, Sequences, FiniteSets, RunStatus

CONSTANTS
    Runs, Calls, Ids,   \* run, tool-call and message ids of one thread
    Logs                \* bound: how many events a log of which runs may have

VARIABLES
    log,        \* the thread's events by position
    snapshot,   \* runs, tool calls, gates and messages of the client's snapshot
    lastSeq,    \* its cursor
    pending,    \* the positions it buffers ahead of the cursor
    refused,    \* "no", or why the console shows nothing
    received    \* history: positions delivered since the console last began
foldVars == <<log, snapshot, lastSeq, pending, refused, received>>

Decisions == {"approved", "denied", "timed_out"}
Of(type) == [type : {type}, run : Runs]
OfCall(type) == [type : {type}, run : Runs, call : Calls]
OfMessage(type) == [type : {type}, run : Runs, id : Ids]
Events ==
    Of("run.started") \cup OfMessage("token.delta") \cup OfCall("tool.requested")
    \cup OfCall("approval.requested")
    \cup [type : {"approval.resolved"}, run : Runs, call : Calls, decision : Decisions]
    \cup OfCall("tool.completed") \cup OfCall("tool.failed")
    \cup Of("run.completed") \cup OfMessage("run.completed")
    \cup Of("run.failed") \cup Of("run.cancelled") \cup OfMessage("run.steered")

NoMessage == [role |-> "none", text |-> <<>>, complete |-> FALSE]
\* A run the snapshot has not met is read as a queued one without calls.
createThreadSnapshot ==
    [status  |-> [r \in Runs |-> INITIAL_RUN_STATUS],
     call    |-> [k \in Runs \X Calls |-> "none"],
     gate    |-> [k \in Runs \X Calls |-> "none"],
     message |-> [k \in Runs \X Ids |-> NoMessage]]

-----------------------------------------------------------------------------
(* The reducers *)

hasPendingApproval(s, r) == \E c \in Calls : s.gate[r, c] = "pending"

\* asRunning: a gated run stays gated, any other must be able to run.
Parked(s, r) == s.status[r] = "waiting_approval" /\ hasPendingApproval(s, r)
MayRun(s, r) ==
    s.status[r] = "running" \/ Parked(s, r) \/ canTransition(s.status[r], "running")
asRunning(s, r) == IF Parked(s, r) THEN s ELSE [s EXCEPT !.status[r] = "running"]

\* completeRunMessages: every assistant message of the run is complete.
completeRunMessages(s, r) ==
    [s EXCEPT !.message = [k \in DOMAIN @ |->
        IF k[1] = r /\ @[k].role = "assistant" THEN [@[k] EXCEPT !.complete = TRUE] ELSE @[k]]]

asTerminal(s, r, status) ==
    IF canTransition(s.status[r], status)
    THEN {completeRunMessages([s EXCEPT !.status[r] = status], r)}
    ELSE {}

reduceRunStarted(s, e) ==
    IF canTransition(s.status[e.run], "running")
    THEN {[s EXCEPT !.status[e.run] = "running"]}
    ELSE {}

reduceTokenDelta(s, e, n) ==
    IF MayRun(s, e.run) /\ s.message[e.run, e.id].role # "user"
    THEN {[asRunning(s, e.run) EXCEPT !.message[e.run, e.id] =
            [role |-> "assistant", text |-> Append(@.text, n), complete |-> @.complete]]}
    ELSE {}

reduceToolRequested(s, e) ==
    IF MayRun(s, e.run) /\ s.call[e.run, e.call] = "none"
    THEN {[asRunning(s, e.run) EXCEPT !.call[e.run, e.call] = "requested"]}
    ELSE {}

reduceApprovalRequested(s, e) ==
    IF /\ MayRun(s, e.run) /\ s.call[e.run, e.call] # "none"
       /\ s.gate[e.run, e.call] = "none"
    THEN {[s EXCEPT !.gate[e.run, e.call] = "pending",
                    !.status[e.run] = "waiting_approval"]}
    ELSE {}

\* The last gate closing returns a parked run to running.  Nothing asks whether the
\* run has ended: a late resolution is folded onto the call alone.
reduceApprovalResolved(s, e) ==
    IF s.gate[e.run, e.call] = "pending"
    THEN LET resolved == [s EXCEPT !.gate[e.run, e.call] = e.decision]
         IN {IF resolved.status[e.run] = "waiting_approval" /\ ~hasPendingApproval(resolved, e.run)
             THEN [resolved EXCEPT !.status[e.run] = "running"]
             ELSE resolved}
    ELSE {}

\* Mutant: a gate that only decorates the call.
reduceToolResolutionUngated(s, e) ==
    IF s.call[e.run, e.call] = "requested"
    THEN {[s EXCEPT !.call[e.run, e.call] =
            IF e.type = "tool.completed" THEN "completed" ELSE "failed"]}
    ELSE {}
reduceToolResolution(s, e) ==
    IF /\ s.call[e.run, e.call] = "requested"
       /\ s.gate[e.run, e.call] # "pending"
       /\ e.type = "tool.completed" => s.gate[e.run, e.call] \notin {"denied", "timed_out"}
    THEN {[s EXCEPT !.call[e.run, e.call] =
            IF e.type = "tool.completed" THEN "completed" ELSE "failed"]}
    ELSE {}

\* A completion may name a message nothing streamed, which is then an empty one.
reduceRunCompleted(s, e) ==
    IF "id" \notin DOMAIN e THEN asTerminal(s, e.run, "completed")
    ELSE IF s.message[e.run, e.id].role = "user" THEN {}
    ELSE asTerminal([s EXCEPT !.message[e.run, e.id].role = "assistant"], e.run, "completed")

reduceRunFailed(s, e) == asTerminal(s, e.run, "failed")
reduceRunCancelled(s, e) == asTerminal(s, e.run, "cancelled")

reduceRunSteered(s, e, n) ==
    IF MayRun(s, e.run) /\ s.message[e.run, e.id].role = "none"
    THEN {[asRunning(s, e.run) EXCEPT !.message[e.run, e.id] =
            [role |-> "user", text |-> <<n>>, complete |-> TRUE]]}
    ELSE {}

applyEvent(s, e, n) ==
    CASE e.type = "run.started"        -> reduceRunStarted(s, e)
      [] e.type = "token.delta"        -> reduceTokenDelta(s, e, n)
      [] e.type = "tool.requested"     -> reduceToolRequested(s, e)
      [] e.type = "approval.requested" -> reduceApprovalRequested(s, e)
      [] e.type = "approval.resolved"  -> reduceApprovalResolved(s, e)
      [] e.type = "tool.completed"     -> reduceToolResolution(s, e)
      [] e.type = "tool.failed"        -> reduceToolResolution(s, e)
      [] e.type = "run.completed"      -> reduceRunCompleted(s, e)
      [] e.type = "run.failed"         -> reduceRunFailed(s, e)
      [] e.type = "run.cancelled"      -> reduceRunCancelled(s, e)
      [] e.type = "run.steered"        -> reduceRunSteered(s, e, n)

\* The events from position a to b applied one after another: no snapshot at all
\* once one of them contradicts the snapshot before it.
FoldFrom(s, a, b) ==
    LET F[n \in (a - 1) .. b] ==
            IF n = a - 1 THEN {s} ELSE UNION {applyEvent(t, log[n], n) : t \in F[n - 1]}
    IN F[b]

\* The last position reached from n without a gap in the positions at hand.
LastContiguous(n, at) ==
    CHOOSE m \in n .. Len(log) : ((n + 1) .. m) \subseteq at /\ (m + 1) \notin at

-----------------------------------------------------------------------------
(* The console: one subscription's frames, in whatever order they come *)

FoldInit ==
    /\ \E k \in Logs : log \in [1 .. k.length -> {e \in Events : e.run \in k.runs}]
    /\ snapshot = createThreadSnapshot /\ lastSeq = 0
    /\ pending = {} /\ refused = "no" /\ received = {}

\* reduceRunEvent, at or behind the cursor or already buffered: nothing changes.
Replayed(n) ==
    /\ n <= lastSeq \/ n \in pending
    /\ UNCHANGED <<snapshot, lastSeq, pending, refused>>

\* reduceRunEvent ahead of the cursor: withPending.
Buffered(n) ==
    /\ n > lastSeq + 1 /\ n \notin pending /\ pending' = pending \cup {n}
    /\ UNCHANGED <<snapshot, lastSeq, refused>>

\* reduceRunEvent at the cursor: applyAtCursor and drainPending.  A contradiction
\* anywhere in the drain discards the event that filled the gap as well.
Filled(n) ==
    /\ n = lastSeq + 1
    /\ LET last == LastContiguous(n, pending)
           folded == FoldFrom(snapshot, n, last)
       IN \/ /\ folded # {} /\ snapshot' \in folded /\ lastSeq' = last
             /\ pending' = pending \ (n .. last) /\ UNCHANGED refused
          \/ /\ folded = {} /\ refused' = "contradiction"
             /\ UNCHANGED <<snapshot, lastSeq, pending>>

\* One frame of the stream, folded or refused for good.
Receive(n) ==
    /\ refused = "no" /\ received' = received \cup {n} /\ UNCHANGED log
    /\ Replayed(n) \/ Buffered(n) \/ Filled(n)

\* A frame that does not parse, or names another thread.
ReceiveForeign ==
    /\ refused = "no" /\ refused' = "foreign"
    /\ UNCHANGED <<log, snapshot, lastSeq, pending, received>>

\* begin: both start and retry fold from an empty snapshot.
Retry ==
    /\ refused # "no" /\ refused' = "no" /\ received' = {} /\ pending' = {}
    /\ snapshot' = createThreadSnapshot /\ lastSeq' = 0
    /\ UNCHANGED log

FoldNext == (\E n \in 1 .. Len(log) : Receive(n)) \/ ReceiveForeign \/ Retry

-----------------------------------------------------------------------------
(* Properties *)

\* The snapshot keeps its type, and nothing at or behind the cursor is buffered.
FoldTypeOK ==
    /\ snapshot.status \in [Runs -> RUN_STATUSES]
    /\ snapshot.call \in [Runs \X Calls -> {"none", "requested", "completed", "failed"}]
    /\ snapshot.gate \in [Runs \X Calls -> {"none", "pending"} \cup Decisions]
    /\ \A k \in Runs \X Ids : snapshot.message[k].role \in {"none", "assistant", "user"}
    /\ lastSeq \in 0 .. Len(log) /\ received \subseteq 1 .. Len(log)
    /\ pending \subseteq (lastSeq + 2) .. Len(log)
    /\ refused \in {"no", "contradiction", "foreign"}

\* What the console shows depends on which events arrived, never on the order or the
\* number of times they did: it is the in-order fold of the gapless prefix received,
\* the rest is buffered, and it refuses exactly when that prefix contradicts itself.
OrderFree ==
    LET prefix == LastContiguous(0, received)
        folded == FoldFrom(createThreadSnapshot, 1, prefix)
    IN CASE refused = "no"            -> /\ folded = {snapshot} /\ lastSeq = prefix
                                         /\ pending = received \ (1 .. prefix)
         [] refused = "contradiction" -> folded = {}
         [] refused = "foreign"       -> folded = {snapshot}

\* The gate is a barrier: whatever order the events came in, a call is only folded as
\* a success if every approval asked for it before that was given before that.
GateIsABarrier ==
    \A n \in 1 .. lastSeq : log[n].type = "tool.completed" =>
        LET OfThisCall(m, type) ==
                log[m].type = type /\ log[m].run = log[n].run /\ log[m].call = log[n].call
        IN \A m \in 1 .. (n - 1) : OfThisCall(m, "approval.requested") =>
               \E k \in (m + 1) .. (n - 1) :
                   OfThisCall(k, "approval.resolved") /\ log[k].decision = "approved"

\* A run shown as waiting has a decision to wait for, so the operator always has a
\* gate to answer and the last answer always releases the run.
WaitingHasAGate ==
    \A r \in Runs : snapshot.status[r] = "waiting_approval" => hasPendingApproval(snapshot, r)

\* What is shown of one run is what its own events say: a message is identified by
\* its run as well, so another run that numbers its messages alike adds nothing.
EachRunAlone ==
    \A r \in Runs :
        LET F[n \in 0 .. lastSeq] ==
                IF n = 0 THEN {createThreadSnapshot}
                ELSE IF log[n].run # r THEN F[n - 1]
                ELSE UNION {applyEvent(t, log[n], n) : t \in F[n - 1]}
        IN \E alone \in F[lastSeq] :
               /\ alone.status[r] = snapshot.status[r]
               /\ \A c \in Calls : /\ alone.call[r, c] = snapshot.call[r, c]
                                   /\ alone.gate[r, c] = snapshot.gate[r, c]
               /\ \A i \in Ids : alone.message[r, i] = snapshot.message[r, i]

\* The console shows what happened whatever order the events came in: no call ran past
\* its gate, a waiting run has a gate to answer, and the runs of a thread do not leak
\* into one another.
SnapshotIsFaithful ==
    FoldTypeOK /\ OrderFree /\ GateIsABarrier /\ WaitingHasAGate /\ EachRunAlone

=============================================================================
