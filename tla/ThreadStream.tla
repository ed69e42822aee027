---------------------------- MODULE ThreadStream ----------------------------
(***************************************************************************)
(* One console's subscription to the thread whose log EventLog writes: the  *)
(* API's replay loop (apps/api/src/services/thread-events.ts), the frames   *)
(* on the wire, and the client's reconnect loop                             *)
(* (packages/contracts/src/stream.ts) with its signed cursor.  Connections  *)
(* drop, the API restarts with a new signing key, the wake-up signal is     *)
(* lost, and the operator's membership may end mid-stream.                  *)
(***************************************************************************)
EXTENDS EventLog, Sequences

CONSTANTS
    PageSize,       \* defaultEventPageSize
    MaxDrops,       \* bound: connections lost
    MaxRestarts     \* bound: restarts of the API process

ASSUME StreamAssumption ==
    PageSize \in Nat \ {0} /\ MaxDrops \in Nat /\ MaxRestarts \in Nat

VARIABLES
    conn,       \* the client's loop: connecting, open, backoff or refused
    cursor,     \* the position in its Last-Event-ID, 0 without one
    key,        \* the signing key that cursor was minted with
    shown,      \* the events handed to the reducer since the console began
    server,     \* the API's generator for this connection
    lastSeq,    \* the generator's own position
    batch,      \* the page it read and has not sent
    full,       \* whether that page was a full one
    wire,       \* frames sent and not received
    apiKey,     \* the API process's signing key
    member,     \* whether the operator still belongs to the space
    late,       \* history: frames sent after the membership ended
    drops       \* connections lost so far
subVars == <<conn, cursor, key, shown, server, lastSeq, batch, full, wire, apiKey, member, late, drops>>
vars == <<logVars, subVars>>

Event(p) == <<p, rows[p]>>

Init ==
    /\ LogInit
    /\ conn = "connecting" /\ cursor = 0 /\ key = 0 /\ shown = <<>>
    /\ server = "none" /\ lastSeq = 0 /\ batch = <<>> /\ full = FALSE /\ wire = <<>>
    /\ apiKey = 0 /\ member = TRUE /\ late = 0 /\ drops = 0

-----------------------------------------------------------------------------
(* The API *)

\* subscribe: the membership and the cursor are checked before any frame, and a typed
\* refusal is a 4xx, which the client does not retry.
Subscribe ==
    /\ conn = "connecting"
    /\ IF member /\ (cursor = 0 \/ key = apiKey)
       THEN conn' = "open" /\ server' = "check" /\ lastSeq' = cursor
       ELSE conn' = "refused" /\ UNCHANGED <<server, lastSeq>>
    /\ UNCHANGED <<cursor, key, shown, batch, full, wire, apiKey, member, late, drops>>

\* membershipActive before a page is read.
CheckPage ==
    /\ server = "check" /\ server' = IF member THEN "query" ELSE "ended"
    /\ UNCHANGED <<conn, cursor, key, shown, lastSeq, batch, full, wire, apiKey, member, late, drops>>

\* The first positions after p, at most a page of them, in order.
Page(p) ==
    LET After == {q \in Written : q > p}
        Nth(n) == CHOOSE q \in After : Cardinality({r \in After : r <= q}) = n
        size == IF Cardinality(After) < PageSize THEN Cardinality(After) ELSE PageSize
    IN [n \in 1 .. size |-> Event(Nth(n))]

\* Mutant: a page read from the position itself on.
ListAfterInclusive ==
    /\ server = "query" /\ server' = "frames"
    /\ batch' = Page(IF lastSeq = 0 THEN 0 ELSE lastSeq - 1) /\ full' = (Len(batch') = PageSize)
    /\ UNCHANGED <<conn, cursor, key, shown, lastSeq, wire, apiKey, member, late, drops>>
\* events.listAfter: the durable rows behind the cursor.
ListAfter ==
    /\ server = "query" /\ server' = "frames"
    /\ batch' = Page(lastSeq) /\ full' = (Len(batch') = PageSize)
    /\ UNCHANGED <<conn, cursor, key, shown, lastSeq, wire, apiKey, member, late, drops>>

\* Mutant: the membership read once per page.
CheckFrameOnce ==
    /\ server = "frames" /\ batch # <<>> /\ server' = "send"
    /\ UNCHANGED <<conn, cursor, key, shown, lastSeq, batch, full, wire, apiKey, member, late, drops>>
\* membershipActive before every frame of the page.
CheckFrame ==
    /\ server = "frames" /\ batch # <<>> /\ server' = IF member THEN "send" ELSE "ended"
    /\ UNCHANGED <<conn, cursor, key, shown, lastSeq, batch, full, wire, apiKey, member, late, drops>>

SendFrame ==
    /\ server = "send" /\ server' = "frames"
    /\ lastSeq' = Head(batch)[1] /\ wire' = Append(wire, Head(batch)) /\ batch' = Tail(batch)
    /\ late' = IF member THEN late ELSE late + 1
    /\ UNCHANGED <<conn, cursor, key, shown, full, apiKey, member, drops>>

\* A full page is followed by the next one at once, any other by a wait.
EndPage ==
    /\ server = "frames" /\ batch = <<>> /\ server' = IF full THEN "check" ELSE "wait"
    /\ UNCHANGED <<conn, cursor, key, shown, lastSeq, batch, full, wire, apiKey, member, late, drops>>

\* Mutant: a wait that only a signal ends, from a worker in another process.
WakeBySignal ==
    /\ server = "wait" /\ FALSE /\ server' = "check"
    /\ UNCHANGED <<conn, cursor, key, shown, lastSeq, batch, full, wire, apiKey, member, late, drops>>
\* nextSignal: a signal or, when it is lost, the poll interval.
Wake ==
    /\ server = "wait" /\ server' = "check"
    /\ UNCHANGED <<conn, cursor, key, shown, lastSeq, batch, full, wire, apiKey, member, late, drops>>

-----------------------------------------------------------------------------
(* The client *)

\* One frame: its id is the next cursor, its event goes to the reducer.
Receive ==
    /\ conn = "open" /\ wire # <<>>
    /\ cursor' = Head(wire)[1] /\ key' = apiKey
    /\ shown' = Append(shown, Head(wire)) /\ wire' = Tail(wire)
    /\ UNCHANGED <<conn, server, lastSeq, batch, full, apiKey, member, late, drops>>

\* The generator ends with its connection; frames on the wire are gone.
Disconnect ==
    /\ conn' = "backoff" /\ server' = "none" /\ wire' = <<>> /\ batch' = <<>> /\ full' = FALSE
    /\ UNCHANGED <<cursor, key, shown, lastSeq, member, late>>

\* The generator returned: an ended stream is a drop to the client.
StreamEnds ==
    /\ conn = "open" /\ server = "ended" /\ wire = <<>>
    /\ Disconnect /\ UNCHANGED <<apiKey, drops>>

\* The socket closes with whatever was on it.
Drop ==
    /\ conn = "open" /\ drops < MaxDrops /\ drops' = drops + 1
    /\ Disconnect /\ UNCHANGED apiKey

\* The API restarts: connections close, and the key is a new random one.
RestartApi ==
    /\ apiKey < MaxRestarts /\ apiKey' = apiKey + 1
    /\ conn = "open" /\ Disconnect /\ UNCHANGED drops

\* The backoff delay passes.
Reconnect ==
    /\ conn = "backoff" /\ conn' = "connecting"
    /\ UNCHANGED <<cursor, key, shown, server, lastSeq, batch, full, wire, apiKey, member, late, drops>>

\* The operator retries a refused console, or reloads the page.
Reload ==
    /\ conn = "refused" /\ member
    /\ conn' = "connecting" /\ cursor' = 0 /\ shown' = <<>>
    /\ UNCHANGED <<key, server, lastSeq, batch, full, wire, apiKey, member, late, drops>>

Revoke ==
    /\ member /\ member' = FALSE
    /\ UNCHANGED <<conn, cursor, key, shown, server, lastSeq, batch, full, wire, apiKey, late, drops>>

Serve == CheckPage \/ ListAfter \/ CheckFrame \/ SendFrame \/ EndPage \/ Wake
Follow == Subscribe \/ Receive \/ StreamEnds \/ Reconnect
SubNext == Serve \/ Follow \/ Drop \/ RestartApi \/ Reload \/ Revoke
Next == (LogNext /\ UNCHANGED subVars) \/ (SubNext /\ UNCHANGED logVars)

Spec == Init /\ [][Next]_vars
\* Timers fire, queries return and sockets deliver; operators and workers owe nothing.
FairSpec == Spec /\ WF_vars(Serve /\ UNCHANGED logVars) /\ WF_vars(Follow /\ UNCHANGED logVars)

-----------------------------------------------------------------------------
(* Properties *)

\* Client, server and wire keep their types.
TypeOK ==
    /\ conn \in {"connecting", "open", "backoff", "refused"}
    /\ server \in {"none", "check", "query", "frames", "send", "wait", "ended"}
    /\ (server = "none") <=> (conn # "open")
    /\ cursor \in 0 .. MaxSeq /\ lastSeq \in 0 .. MaxSeq
    /\ key \in 0 .. MaxRestarts /\ apiKey \in 0 .. MaxRestarts
    /\ Len(batch) <= PageSize /\ drops \in 0 .. MaxDrops /\ member \in BOOLEAN

\* An operator removed from the space is sent at most the one frame whose check had
\* already passed, however long a page was in hand (and every variable has its type).
RevocationIsPrompt == LogTypeOK /\ TypeOK /\ late <= 1

\* The positions below the counter and the events written there.
LogLength == IF counter = 0 THEN 0 ELSE counter - 1
EventsWritten == [p \in 1 .. LogLength |-> Event(p)]

\* The stream delivers what the log holds: the reader sees every event once and in
\* order through drops, reconnects and lost signals, while sessions append.
StreamedLog ==
    INSTANCE ThreadLog WITH
        Events <- Positions \X Sessions,
        log    <- EventsWritten,
        shown  <- shown
ImplementsThreadLog == StreamedLog!Spec

\* Every written event reaches the console in the end, unless the operator was
\* removed or the console refused: a lost signal or connection only costs time.
EventuallyShown ==
    \A p \in Positions :
        (rows[p] # "none") ~> (Len(shown) >= p \/ ~member \/ conn = "refused")

-----------------------------------------------------------------------------
(* The inductive strengthening ThreadProofs uses *)

\* A frame is an event, a frame about to be sent is in hand, nothing outlives its
\* connection, and after a late frame no check can pass any more.
Frames == Positions \X Sessions
SubInv ==
    /\ TypeOK
    /\ batch \in Seq(Frames) /\ wire \in Seq(Frames) /\ shown \in Seq(Frames)
    /\ server = "send" => batch # <<>>
    /\ conn # "open" => wire = <<>> /\ batch = <<>>
    /\ late \in {0, 1}
    /\ late = 1 => ~member /\ server # "send"
ServerInv == LogInv /\ SubInv

\* On a thread nobody clears, what was shown, what is on the wire and what the server
\* has in hand are three consecutive stretches of the log, from its beginning.
Stretch(frames, from) == \A i \in 1 .. Len(frames) : frames[i] = Event(from + i)
ReaderInv ==
    clears = 0 =>
        /\ Len(shown) = cursor /\ Stretch(shown, 0)
        /\ Stretch(wire, cursor) /\ (conn = "open" => lastSeq = cursor + Len(wire))
        /\ Stretch(batch, lastSeq)
        /\ cursor + Len(wire) + Len(batch) <= LogLength
=============================================================================
