------------------------------ MODULE EventLog ------------------------------
(***************************************************************************)
(* The write side of one thread's event stream: the event rows, the         *)
(* thread's next_event_seq counter, and the run sessions that append.  A    *)
(* session reads the counter once, when it starts, and numbers its events   *)
(* from there by itself; (thread_id, seq) is unique, so a second session at *)
(* the same position fails its append, and its run with it.                 *)
(***************************************************************************)
EXTENDS Integers, FiniteSets

CONSTANTS
    Sessions,   \* executions of the thread's runs, overlapping or one after another
    MaxSeq,     \* bound: the last position
    MaxClears   \* bound: how often an operator clears the thread

ASSUME LogAssumption ==
    /\ MaxSeq \in Nat /\ MaxClears \in Nat /\ "none" \notin Sessions

VARIABLES
    rows,       \* the session that wrote each position, or "none"
    counter,    \* thread.next_event_seq
    session,    \* what each session is doing
    nextSeq,    \* the position each live session writes next
    clears,     \* how often the thread was cleared
    torn        \* history: a clear met a session that had taken its position
logVars == <<rows, counter, session, nextSeq, clears, torn>>

Positions == 1 .. MaxSeq
Phases == {"idle", "live", "ended", "failed"}
Written == {p \in Positions : rows[p] # "none"}

LogInit ==
    /\ rows = [p \in Positions |-> "none"] /\ counter = 0
    /\ session = [s \in Sessions |-> "idle"] /\ nextSeq = [s \in Sessions |-> 1]
    /\ clears = 0 /\ torn = FALSE

\* Mutant: the counter taken for the last position rather than the next.
StartSessionAhead(s) ==
    /\ session[s] = "idle"
    /\ session' = [session EXCEPT ![s] = "live"]
    /\ nextSeq' = [nextSeq EXCEPT ![s] = counter + 1]
    /\ UNCHANGED <<rows, counter, clears, torn>>
\* createLiveRunWork: startSeq is the counter as it was read, 1 for a new thread.
StartSession(s) ==
    /\ session[s] = "idle"
    /\ session' = [session EXCEPT ![s] = "live"]
    /\ nextSeq' = [nextSeq EXCEPT ![s] = IF counter = 0 THEN 1 ELSE counter]
    /\ UNCHANGED <<rows, counter, clears, torn>>

\* sink.append: the counter advances to cover the row inserted with it.
AppendRow(s) ==
    /\ session[s] = "live" /\ nextSeq[s] \in Positions
    /\ rows[nextSeq[s]] = "none"
    /\ rows' = [rows EXCEPT ![nextSeq[s]] = s]
    /\ counter' = IF nextSeq[s] >= counter THEN nextSeq[s] + 1 ELSE counter
    /\ nextSeq' = [nextSeq EXCEPT ![s] = @ + 1]
    /\ UNCHANGED <<session, clears, torn>>

\* The unique index refuses the position: the run's stream could not be recorded.
AppendRefused(s) ==
    /\ session[s] = "live" /\ nextSeq[s] \in Positions
    /\ rows[nextSeq[s]] # "none"
    /\ session' = [session EXCEPT ![s] = "failed"]
    /\ UNCHANGED <<rows, counter, nextSeq, clears, torn>>

\* The session ends, is interrupted or dies with its worker.
EndSession(s) ==
    /\ session[s] = "live" /\ session' = [session EXCEPT ![s] = "ended"]
    /\ UNCHANGED <<rows, counter, nextSeq, clears, torn>>

\* clearThread: rows and counter go together, whoever is writing.
ClearThread ==
    /\ clears < MaxClears /\ clears' = clears + 1
    /\ rows' = [p \in Positions |-> "none"] /\ counter' = 0
    /\ torn' = (torn \/ \E s \in Sessions : session[s] = "live" /\ nextSeq[s] > 1)
    /\ UNCHANGED <<session, nextSeq>>

LogNext ==
    \/ \E s \in Sessions :
         StartSession(s) \/ AppendRow(s) \/ AppendRefused(s) \/ EndSession(s)
    \/ ClearThread
-----------------------------------------------------------------------------
(* Properties *)

\* The rows, the counter and the sessions keep their types.
LogTypeOK ==
    /\ rows \in [Positions -> Sessions \cup {"none"}]
    /\ counter \in 0 .. (MaxSeq + 1)
    /\ session \in [Sessions -> Phases] /\ nextSeq \in [Sessions -> 1 .. (MaxSeq + 1)]
    /\ clears \in 0 .. MaxClears /\ torn \in BOOLEAN

\* However many sessions number events by themselves, the stream has no gap and the
\* counter names its end, unless a clear pulled the rows from under a live session.
Gapless == ~torn => \A p \in Positions : rows[p] # "none" <=> p < counter

\* A session's events stand together: once another session has written behind it, its
\* next append fails, so two runs of a thread never interleave in its transcript.
SessionsStandTogether ==
    \A s \in Sessions : \A p, q, r \in Positions :
        (p < q /\ q < r /\ rows[p] = s /\ rows[r] = s) => rows[q] = s

\* Overlapping sessions write one gapless log of unbroken stretches.
LogIsSound == LogTypeOK /\ Gapless /\ SessionsStandTogether

\* A written event is never replaced: only a clear takes a row away.
RowsAreFinal ==
    [][clears' = clears =>
         \A p \in Positions : rows[p] # "none" => rows'[p] = rows[p]]_logVars

-----------------------------------------------------------------------------
(* The inductive strengthening ThreadProofs uses *)

\* A session's rows reach without a break from the first that is left to the position it
\* writes next, and where no clear tore the log a live session's position is inside the
\* log or at its end.
LogInv ==
    /\ LogTypeOK /\ Gapless
    /\ \A s \in Sessions : session[s] = "idle" => \A p \in Positions : rows[p] # s
    /\ \A s \in Sessions : \A p \in Positions : rows[p] = s => p < nextSeq[s]
    /\ \A s \in Sessions : \A p, q \in Positions :
         rows[p] = s /\ p < q /\ q < nextSeq[s] => rows[q] = s
    /\ ~torn => \A s \in Sessions :
         session[s] = "live" => nextSeq[s] <= counter \/ (counter = 0 /\ nextSeq[s] = 1)
    /\ clears = 0 => ~torn
=============================================================================
