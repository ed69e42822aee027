----------------------------- MODULE RunSecrets -----------------------------
(***************************************************************************)
(* One bot secret and the credential proxy of one run: the row              *)
(* (db/src/bot-secret-store.ts), the tools that ask for it and forget it    *)
(* (effect/src/bot-secret-tools.ts), the run's handle on its grant          *)
(* (effect/src/run-credential-proxy.ts), the grant file and the proxy that   *)
(* reads it (adapters/src/docker-computer.ts, credential-proxy.ts).          *)
(*                                                                           *)
(* A value is the number of the write that stored it, so two values are     *)
(* never equal; 0 is no value.  An origin stands for the whole destination  *)
(* (origin and authentication) a value is bound to.                         *)
(***************************************************************************)
EXTENDS Naturals, Sequences, FiniteSets

CONSTANTS
    Destinations,             \* destinations
    Asks, Forgets,       \* request_secret and forget_secret calls of the run
    Putters,             \* operators' `put` requests
    MaxPuts, MaxKeys, MaxSlips  \* bounds: values, changes of the key, publishes that fail

ASSUME SecretsAssumption ==
    {MaxPuts, MaxKeys, MaxSlips} \subseteq Nat /\ Asks \cup Forgets # {} /\ "none" \notin Destinations

VARIABLES
    row,       \* the bot_secret row: value or 0, origin, the key it is sealed with
    activeKey, \* the keyring's active key
    put,       \* per writer: where it is and the destination it writes
    rotation,  \* the value a rotation read and is about to write back, 0 when none
    call,      \* per tool call: where it is, and the destination it asked for
    handle,    \* the run's handle: its secret upstream, closed or not
    queue,     \* the handle's serialised operations, the head in progress
    file,      \* the grant file the proxy reads
    slips,
    origins,   \* history: the destination each value was stored for
    gone,      \* history: values a returned forget_secret took back
    revoked,   \* history: revoke returned
    clobbered, \* history: a rotation wrote over a row that had changed
    unknown    \* history: a publish threw although the file was written
secretVars == <<row, activeKey, put, rotation, call, handle, queue, file, slips,
                origins, gone, revoked, clobbered, unknown>>

Nothing == [origin |-> "none", value |-> 0]
Calls == Asks \cup Forgets
store == <<row, activeKey, put, rotation, origins, clobbered>>
proxy == <<handle, queue, file, revoked, unknown>>

SecretInit ==
    /\ row = [value |-> 0, origin |-> "none", key |-> 0] /\ activeKey = 0
    /\ put = [w \in Putters |-> [pc |-> "idle", origin |-> "none"]] /\ rotation = 0
    /\ call = [c \in Calls |-> [pc |-> "idle", origin |-> "none"]]
    /\ handle = [secret |-> Nothing, closed |-> FALSE] /\ queue = <<>>
    /\ file = [live |-> TRUE, secret |-> Nothing] /\ slips = 0
    /\ origins = [v \in 1 .. MaxPuts |-> "none"] /\ gone = {}
    /\ revoked = FALSE /\ clobbered = FALSE /\ unknown = FALSE

Stored == {v \in 1 .. MaxPuts : origins[v] # "none"}
Slip == slips < MaxSlips /\ slips' = slips + 1

----------------------------------------------------------------------------
(* The row.                                                                 *)

\* put, first statement: a value that is held is not re-pointed.
PutChecks(w, d) ==
    /\ put[w].pc = "idle" /\ (row.value # 0 => row.origin = d)
    /\ put' = [put EXCEPT ![w] = [pc |-> "checked", origin |-> d]]
    /\ UNCHANGED <<row, activeKey, rotation, call, proxy, slips, origins, gone, clobbered>>

\* put, second statement: the upsert replaces destination and value together.
PutWrites(w) ==
    /\ put[w].pc = "checked" /\ Cardinality(Stored) < MaxPuts
    /\ LET v == Cardinality(Stored) + 1 IN
        /\ row' = [value |-> v, origin |-> put[w].origin, key |-> activeKey]
        /\ origins' = [origins EXCEPT ![v] = put[w].origin]
    /\ put' = [put EXCEPT ![w].pc = "idle"]
    /\ UNCHANGED <<activeKey, rotation, call, proxy, slips, gone, clobbered>>

\* forget from the operator's half of the store
OperatorForgets ==
    /\ row.value # 0 /\ row' = [row EXCEPT !.value = 0]
    /\ UNCHANGED <<activeKey, put, rotation, call, proxy, slips, origins, gone, clobbered>>

\* The operator adds a key and makes it the active one.
NewKey ==
    /\ activeKey < MaxKeys /\ activeKey' = activeKey + 1
    /\ UNCHANGED <<row, put, rotation, call, proxy, slips, origins, gone, clobbered>>

\* rotate, first statement: the envelopes that are not sealed with the active key
RotateReads ==
    /\ rotation = 0 /\ row.value # 0 /\ row.key # activeKey
    /\ rotation' = row.value
    /\ UNCHANGED <<row, activeKey, put, call, proxy, slips, origins, gone, clobbered>>

\* rotate, per row: the update is by id alone, whatever the row holds by then.
RotateWrites ==
    /\ rotation # 0 /\ rotation' = 0
    /\ row' = [row EXCEPT !.value = rotation, !.key = activeKey]
    /\ clobbered' = (clobbered \/ row.value # rotation)
    /\ UNCHANGED <<activeKey, put, call, proxy, slips, origins, gone>>

----------------------------------------------------------------------------
(* The tools.                                                               *)

CallAt(c, pc) == call' = [call EXCEPT ![c].pc = pc]
Enqueue(op, c) == queue' = Append(queue, [op |-> op, call |-> c, stage |-> "start",
                                          secret |-> Nothing, previous |-> Nothing])

\* request_secret up to the approval gate: a stored value for another destination is refused.
Ask(c, d) ==
    /\ call[c].pc = "idle" /\ (row.value # 0 => row.origin = d)
    /\ call' = [call EXCEPT ![c] = [pc |-> "asked", origin |-> d]]
    /\ UNCHANGED <<store, proxy, slips, gone>>

\* guard.authorize: the operator's answer (ApprovalGate models the gate).
Answered(c) ==
    /\ call[c].pc = "asked" /\ \E answer \in {"approved", "idle"} : CallAt(c, answer)
    /\ UNCHANGED <<store, proxy, slips, gone>>

\* The re-read after the approval, and grantSecret's call on the handle.
RecheckSecret(c) ==
    /\ call[c].pc = "approved"
    /\ \/ row.value # 0 /\ row.origin = call[c].origin /\ CallAt(c, "queued") /\ Enqueue("grant", c)
       \/ (row.value = 0 \/ row.origin # call[c].origin) /\ CallAt(c, "idle") /\ UNCHANGED queue
    /\ UNCHANGED <<store, handle, file, revoked, unknown, slips, gone>>

\* forget_secret: the value is cleared first, then the upstream is taken back.
Forget(c) ==
    /\ call[c].pc = "idle" /\ row' = [row EXCEPT !.value = 0] /\ CallAt(c, "cleared")
    /\ UNCHANGED <<activeKey, put, rotation, origins, clobbered, proxy, slips, gone>>

ForgetUpstream(c) ==
    /\ call[c].pc = "cleared" /\ CallAt(c, "queued") /\ Enqueue("revokeSecret", c)
    /\ UNCHANGED <<store, handle, file, revoked, unknown, slips, gone>>

----------------------------------------------------------------------------
(* The handle: operations run one at a time, in the order they were called. *)

Head1 == queue[1]
Serving(op, stage) == queue # <<>> /\ Head1.op = op /\ Head1.stage = stage
Returned(c) == queue' = Tail(queue) /\ CallAt(c, "idle")

\* grantSecret: a closed handle is refused, and an open one asks the store.
GrantStarts ==
    /\ Serving("grant", "start")
    /\ \/ handle.closed /\ Returned(Head1.call)
       \/ ~handle.closed /\ queue' = [queue EXCEPT ![1].stage = "resolve"] /\ UNCHANGED call
    /\ UNCHANGED <<store, handle, file, revoked, unknown, slips, gone>>

\* Nothing stored, or: remember the upstream and publish the whole grant.
GrantResolves ==
    /\ Serving("grant", "resolve")
    /\ \/ row.value = 0 /\ Returned(Head1.call) /\ UNCHANGED handle
       \/ /\ row.value # 0 /\ UNCHANGED call
          /\ LET s == [origin |-> row.origin, value |-> row.value] IN
              /\ handle' = [handle EXCEPT !.secret = s]
              /\ queue' = [queue EXCEPT ![1] = [@ EXCEPT !.stage = "publish", !.secret = s,
                                                         !.previous = handle.secret]]
    /\ UNCHANGED <<store, file, revoked, unknown, slips, gone>>

ForgetNothing ==
    /\ Serving("revokeSecret", "start") /\ (handle.closed \/ handle.secret = Nothing)
    /\ Returned(Head1.call) /\ gone' = gone \cup (Stored \ {row.value})
    /\ UNCHANGED <<store, handle, file, revoked, unknown, slips>>

RevokeSecret ==
    /\ Serving("revokeSecret", "start") /\ ~handle.closed /\ handle.secret # Nothing
    /\ handle' = [handle EXCEPT !.secret = Nothing]
    /\ queue' = [queue EXCEPT ![1] = [@ EXCEPT !.stage = "publish", !.previous = handle.secret]]
    /\ UNCHANGED <<store, file, revoked, unknown, slips, gone, call>>

\* admin.grant answered: the file is the grant that was published.
Published ==
    /\ queue # <<>> /\ Head1.stage = "publish"
    /\ file' = [live |-> TRUE, secret |-> Head1.secret] /\ Returned(Head1.call)
    /\ gone' = IF Head1.op = "revokeSecret" THEN gone \cup (Stored \ {row.value}) ELSE gone
    /\ UNCHANGED <<store, handle, revoked, unknown, slips>>

\* admin.grant threw, before or after the file was written: the local entry goes back.
PublishFails ==
    /\ queue # <<>> /\ Head1.stage = "publish" /\ Slip
    /\ \E written \in BOOLEAN :
        /\ file' = IF written THEN [live |-> TRUE, secret |-> Head1.secret] ELSE file
        /\ unknown' = (unknown \/ written)
    /\ handle' = [handle EXCEPT !.secret = Head1.previous] /\ Returned(Head1.call)
    /\ UNCHANGED <<store, revoked, gone>>

\* Mutant: the tombstone is written at once, past the operations that wait.
RevokeAtOnce ==
    /\ ~revoked /\ revoked' = TRUE /\ file' = [live |-> FALSE, secret |-> Nothing]
    /\ handle' = [secret |-> Nothing, closed |-> TRUE]
    /\ UNCHANGED <<store, queue, unknown, slips, gone, call>>

\* revoke: closed at once, the tombstone when its turn comes; a failure may be retried.
Revoke ==
    /\ ~\E i \in 1 .. Len(queue) : queue[i].op = "revoke"
    /\ ~revoked /\ Enqueue("revoke", CHOOSE c \in Calls : TRUE)
    /\ handle' = [secret |-> Nothing, closed |-> TRUE]
    /\ UNCHANGED <<store, file, revoked, unknown, slips, gone, call>>

Tombstone ==
    /\ Serving("revoke", "start") /\ queue' = Tail(queue)
    /\ \/ file' = [live |-> FALSE, secret |-> Nothing] /\ revoked' = TRUE /\ UNCHANGED slips
       \/ Slip /\ file' \in {file, [live |-> FALSE, secret |-> Nothing]} /\ UNCHANGED revoked
    /\ UNCHANGED <<store, handle, unknown, gone, call>>

----------------------------------------------------------------------------
SecretNext ==
    \/ \E w \in Putters : PutWrites(w) \/ \E d \in Destinations : PutChecks(w, d)
    \/ OperatorForgets \/ NewKey \/ RotateReads \/ RotateWrites
    \/ \E c \in Asks : Answered(c) \/ RecheckSecret(c) \/ \E d \in Destinations : Ask(c, d)
    \/ \E c \in Forgets : Forget(c) \/ ForgetUpstream(c)
    \/ GrantStarts \/ GrantResolves \/ ForgetNothing \/ RevokeSecret \/ Published \/ PublishFails
    \/ Revoke \/ Tombstone
SecretSpec == SecretInit /\ [][SecretNext]_secretVars

----------------------------------------------------------------------------
(* A call waits for one turn at a time, and revoke for one: the queue is    *)
(* no longer than the calls and one more.                                   *)
OneTurn ==
    \A i, j \in 1 .. Len(queue) : i # j =>
        /\ queue[i].op = "revoke" => queue[j].op # "revoke"
        /\ queue[i].op # "revoke" /\ queue[j].op # "revoke" => queue[i].call # queue[j].call

SecretTypeOK ==
    /\ row.value \in 0 .. MaxPuts /\ row.origin \in Destinations \cup {"none"} /\ row.key \in 0 .. MaxKeys
    /\ \A c \in Calls : call[c].pc \in {"idle", "asked", "approved", "cleared", "queued"}
    /\ OneTurn /\ rotation \in 0 .. MaxPuts

(* The value in the row is the one stored for the destination in the row:   *)
(* writes and forgets never re-point a value.                               *)
ValueStaysBound == row.value # 0 => origins[row.value] = row.origin

(* What the proxy injects is a value stored for the destination it is sent  *)
(* to, and not one that a finished forget_secret took back (once revoke has *)
(* closed the handle the whole grant is about to go: RevokeIsFinal).        *)
InjectsWhatIsStored ==
    file.live /\ file.secret.value # 0 =>
        /\ origins[file.secret.value] = file.secret.origin
        /\ ~unknown /\ ~handle.closed => file.secret.value \notin gone

(* Once revoke has returned the run's grant stays revoked: no operation     *)
(* that was already under way publishes it again.                           *)
RevokeIsFinal == revoked => ~file.live

(* The secret is where the store, the tools and the grant say it is, unless *)
(* a rotation wrote over a change.                                          *)
SecretsAreSound ==
    /\ SecretTypeOK /\ RevokeIsFinal
    /\ ~clobbered => ValueStaysBound /\ InjectsWhatIsStored

----------------------------------------------------------------------------
(* The inductive strengthening CustodyProofs uses.                          *)

Secrets == [origin : Destinations, value : 1 .. MaxPuts] \cup {Nothing}
Entries ==
    [op : {"grant", "revokeSecret", "revoke"}, call : Calls, stage : {"start", "resolve", "publish"},
     secret : Secrets, previous : Secrets]
RowsAreTyped ==
    /\ row \in [value : 0 .. MaxPuts, origin : Destinations \cup {"none"}, key : 0 .. MaxKeys]
    /\ row.value # 0 \/ rotation # 0 => row.origin \in Destinations
    /\ activeKey \in 0 .. MaxKeys /\ rotation \in 0 .. MaxPuts
    /\ put \in [Putters -> [pc : {"idle", "checked"}, origin : Destinations \cup {"none"}]]
    /\ \A w \in Putters : put[w].pc = "checked" => put[w].origin \in Destinations
    /\ origins \in [1 .. MaxPuts -> Destinations \cup {"none"}]
    /\ clobbered \in BOOLEAN
GrantIsTyped ==
    /\ call \in [Calls -> [pc : {"idle", "asked", "approved", "cleared", "queued"},
                           origin : Destinations \cup {"none"}]]
    /\ handle \in [secret : Secrets, closed : BOOLEAN] /\ queue \in Seq(Entries)
    /\ file \in [live : BOOLEAN, secret : Secrets] /\ revoked \in BOOLEAN /\ unknown \in BOOLEAN

(* Only the head of the queue has begun, and a call waits in it once.       *)
Waiting(e) == e.stage = "start" /\ e.secret = Nothing /\ e.previous = Nothing
QueueInOrder ==
    /\ OneTurn
    /\ \A i \in 1 .. Len(queue) :
        /\ i > 1 \/ queue[i].stage = "start" \/ queue[i].op = "revoke" => Waiting(queue[i])
        /\ queue[i].op = "revokeSecret" => queue[i].secret = Nothing /\ queue[i].stage # "resolve"
        /\ queue[i].op # "revoke" => call[queue[i].call].pc = "queued"

(* A closed handle starts nothing, so nothing is published after the        *)
(* tombstone.                                                               *)
ClosedForGood ==
    /\ (\E i \in 1 .. Len(queue) : queue[i].op = "revoke") => handle.closed
    /\ revoked => handle.closed /\ ~file.live /\ (queue # <<>> => queue[1].stage = "start")

(* Values are numbered in the order stored; what moves between the row, the *)
(* handle, the queue and the file keeps the destination it was stored for.  *)
ValuesInOrder == gone \subseteq Stored /\ \E n \in 0 .. MaxPuts : Stored = 1 .. n
Bound(x) == x = Nothing \/ (x.value \in Stored /\ origins[x.value] = x.origin)
Publishing == queue # <<>> /\ queue[1].stage = "publish"
EverythingIsBound == ~clobbered =>
    /\ row.value # 0 => row.value \in Stored /\ origins[row.value] = row.origin /\ row.value \notin gone
    /\ Bound(handle.secret) /\ Bound(file.secret)
    /\ queue # <<>> => Bound(queue[1].secret) /\ Bound(queue[1].previous)

(* Until a publish fails half way the file is what the handle remembers, or *)
(* what it remembered before the publish under way.                         *)
FileFollows == ~unknown /\ ~handle.closed =>
    IF Publishing THEN file.secret = queue[1].previous /\ handle.secret = queue[1].secret
    ELSE file.secret = handle.secret
NothingComesBack == ~clobbered =>
    /\ ~unknown /\ ~handle.closed => file.secret.value \notin gone
    /\ Publishing => queue[1].secret.value \notin gone

SecretsInv ==
    /\ RowsAreTyped /\ GrantIsTyped /\ QueueInOrder /\ ClosedForGood
    /\ ValuesInOrder /\ EverythingIsBound /\ FileFollows /\ NothingComesBack
=============================================================================
