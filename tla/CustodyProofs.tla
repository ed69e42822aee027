---------------------------- MODULE CustodyProofs ----------------------------
(***************************************************************************)
(* What is kept for a user, a bot's secrets and a deployment's backups, for *)
(* every value of the constants.                                            *)
(*                                                                          *)
(* SecretsInv follows a value from the row to the handle, the queue's head  *)
(* and the file, each with the destination it was stored for, and says that *)
(* a closed handle starts nothing any more.  BackupInv gives every run of a *)
(* backup one invocation that writes its row, says at every stage what the  *)
(* archive holds of it, and keeps its dump out of everybody's retention.    *)
(***************************************************************************)
EXTENDS RunSecrets, Backups, FiniteSetTheorems, SequenceTheorems, WellFoundedInduction, TLAPS

-----------------------------------------------------------------------------
(* Secrets, entries and the queue *)

LEMMA NothingFacts ==
    /\ Nothing \in Secrets /\ Nothing.value = 0
    /\ \A x \in Secrets : x.value \in 0 .. MaxPuts /\ (x.value = 0 <=> x = Nothing)
    /\ \A d \in Destinations, v \in 1 .. MaxPuts : [origin |-> d, value |-> v] \in Secrets
BY SecretsAssumption DEF Secrets, Nothing

LEMMA EntryFacts ==
    \A e \in Entries :
        /\ e.op \in {"grant", "revokeSecret", "revoke"} /\ e.call \in Calls
        /\ e.stage \in {"start", "resolve", "publish"} /\ e.secret \in Secrets /\ e.previous \in Secrets
BY DEF Entries

LEMMA QueueFacts ==
    ASSUME GrantIsTyped
    PROVE  /\ Len(queue) \in Nat /\ (queue # <<>> <=> Len(queue) >= 1)
           /\ \A i \in 1 .. Len(queue) : queue[i] \in Entries
           /\ queue # <<>> => queue[1] \in Entries /\ 1 \in 1 .. Len(queue)
<1>1. queue \in Seq(Entries)
  BY DEF GrantIsTyped
<1>2. Len(queue) \in Nat /\ \A i \in 1 .. Len(queue) : queue[i] \in Entries
  BY <1>1, LenProperties, ElementOfSeq
<1>3. queue # <<>> <=> Len(queue) >= 1
  BY <1>1, <1>2, EmptySeq
<1> QED
  BY <1>2, <1>3

LEMMA Enqueued ==
    ASSUME GrantIsTyped, NEW op \in {"grant", "revokeSecret", "revoke"}, NEW c \in Calls, Enqueue(op, c)
    PROVE  /\ queue' \in Seq(Entries) /\ queue' # <<>> /\ Len(queue') = Len(queue) + 1
           /\ \A i \in 1 .. Len(queue) : queue'[i] = queue[i]
           /\ Waiting(queue'[Len(queue) + 1])
           /\ queue'[Len(queue) + 1].op = op /\ queue'[Len(queue) + 1].call = c
<1> DEFINE e == [op |-> op, call |-> c, stage |-> "start", secret |-> Nothing, previous |-> Nothing]
<1>1. e \in Entries
  BY NothingFacts DEF Entries
<1>2. e.op = op /\ e.call = c /\ Waiting(e)
  BY DEF Waiting
<1>3. queue' = Append(queue, e)
  BY DEF Enqueue
<1> HIDE DEF e
<1> QED
  BY <1>1, <1>2, <1>3, AppendProperties DEF GrantIsTyped

LEMMA Dequeued ==
    ASSUME GrantIsTyped, queue # <<>>, queue' = Tail(queue)
    PROVE  /\ queue' \in Seq(Entries) /\ Len(queue') = Len(queue) - 1
           /\ \A i \in 1 .. Len(queue') : queue'[i] = queue[i + 1] /\ i + 1 \in 1 .. Len(queue)
           /\ queue' # <<>> => 1 \in 1 .. Len(queue') /\ 2 \in 1 .. Len(queue) /\ queue'[1] = queue[2]
<1>1. queue' \in Seq(Entries) /\ Len(queue') = Len(queue) - 1 /\ \A i \in 1 .. Len(queue') : queue'[i] = queue[i + 1]
  BY HeadTailProperties DEF GrantIsTyped
<1>2. Len(queue) \in Nat /\ Len(queue') \in Nat
  BY <1>1, QueueFacts, LenProperties
<1>3. queue' # <<>> => Len(queue') >= 1
  BY <1>1, <1>2, EmptySeq
<1> QED
  BY <1>1, <1>2, <1>3

LEMMA HeadMoved ==
    ASSUME GrantIsTyped, queue # <<>>, NEW e \in Entries, queue' = [queue EXCEPT ![1] = e]
    PROVE  /\ queue' \in Seq(Entries) /\ queue' # <<>> /\ Len(queue') = Len(queue) /\ queue'[1] = e
           /\ \A i \in 1 .. Len(queue) : i # 1 => queue'[i] = queue[i]
<1>1. 1 \in 1 .. Len(queue) /\ queue \in Seq(Entries)
  BY QueueFacts DEF GrantIsTyped
<1>2. /\ queue' \in Seq(Entries) /\ Len(queue') = Len(queue)
      /\ \A j \in 1 .. Len(queue) : queue'[j] = IF j = 1 THEN e ELSE queue[j]
  BY <1>1, ExceptSeq
<1>3. queue' # <<>>
  BY <1>1, <1>2, EmptySeq
<1> QED
  BY <1>1, <1>2, <1>3

\* The queue stays in order when a call that does not wait joins it, ...
LEMMA JoinInOrder ==
    ASSUME GrantIsTyped, QueueInOrder, NEW op \in {"grant", "revokeSecret", "revoke"}, NEW c \in Calls, Enqueue(op, c),
           op # "revoke" => call[c].pc # "queued" /\ call'[c].pc = "queued",
           \A x \in Calls : x # c \/ op = "revoke" => call'[x] = call[x],
           op = "revoke" => \A i \in 1 .. Len(queue) : queue[i].op # "revoke"
    PROVE  QueueInOrder'
<1> DEFINE n == Len(queue)
<1>1. n \in Nat /\ Len(queue') = n + 1 /\ \A i \in 1 .. n : queue'[i] = queue[i] /\ queue[i].call \in Calls
  BY Enqueued, QueueFacts, EntryFacts
<1>2. Waiting(queue'[n + 1]) /\ queue'[n + 1].op = op /\ queue'[n + 1].call = c
  BY Enqueued
<1>3. \A i \in 1 .. n : queue[i].op # "revoke" => call[queue[i].call].pc = "queued"
  BY DEF QueueInOrder
<1> HIDE DEF n
<1>4. \A i \in 1 .. n + 1 : i \in 1 .. n \/ i = n + 1
  BY <1>1
<1>5. \A i \in 1 .. n : queue[i].op # "revoke" => op = "revoke" \/ queue[i].call # c
  BY <1>3
<1>6. OneTurn'
  <2> SUFFICES ASSUME NEW i \in 1 .. n + 1, NEW j \in 1 .. n + 1, i # j
               PROVE  /\ queue'[i].op = "revoke" => queue'[j].op # "revoke"
                      /\ queue'[i].op # "revoke" /\ queue'[j].op # "revoke" => queue'[i].call # queue'[j].call
    BY <1>1 DEF OneTurn
  <2>1. CASE i \in 1 .. n /\ j \in 1 .. n
    BY <1>1, <2>1 DEF QueueInOrder, OneTurn, n
  <2>2. CASE i = n + 1 /\ j \in 1 .. n
    BY <1>1, <1>2, <1>5, <2>2 DEF n
  <2>3. CASE i \in 1 .. n /\ j = n + 1
    BY <1>1, <1>2, <1>5, <2>3 DEF n
  <2> QED
    BY <1>4, <2>1, <2>2, <2>3
<1>7. \A i \in 1 .. n : queue[i].op # "revoke" => call'[queue[i].call].pc = "queued"
  BY <1>1, <1>3, <1>5
<1>8. ASSUME NEW i \in 1 .. n + 1
      PROVE  /\ i > 1 \/ queue'[i].stage = "start" \/ queue'[i].op = "revoke" => Waiting(queue'[i])
             /\ queue'[i].op = "revokeSecret" => queue'[i].secret = Nothing /\ queue'[i].stage # "resolve"
             /\ queue'[i].op # "revoke" => call'[queue'[i].call].pc = "queued"
  <2>1. CASE i \in 1 .. n
    BY <1>1, <1>7, <2>1 DEF QueueInOrder, n
  <2>2. CASE i = n + 1
    BY <1>2, <2>2 DEF Waiting
  <2> QED
    BY <1>4, <2>1, <2>2
<1> QED
  BY <1>1, <1>6, <1>8 DEF QueueInOrder, Waiting

\* ... when the head leaves and its call is answered, ...
LEMMA LeaveInOrder ==
    ASSUME GrantIsTyped, QueueInOrder, queue # <<>>, queue' = Tail(queue),
           \A x \in Calls : queue[1].op = "revoke" \/ x # queue[1].call => call'[x] = call[x]
    PROVE  QueueInOrder'
<1>1. Len(queue) \in Nat /\ 1 \in 1 .. Len(queue) /\ \A i \in 1 .. Len(queue) : queue[i].call \in Calls
  BY QueueFacts, EntryFacts
<1>2. /\ Len(queue') = Len(queue) - 1
      /\ \A i \in 1 .. Len(queue') : queue'[i] = queue[i + 1] /\ i + 1 \in 1 .. Len(queue)
  BY Dequeued
<1>3. OneTurn'
  <2> SUFFICES ASSUME NEW i \in 1 .. Len(queue'), NEW j \in 1 .. Len(queue'), i # j
               PROVE  /\ queue'[i].op = "revoke" => queue'[j].op # "revoke"
                      /\ queue'[i].op # "revoke" /\ queue'[j].op # "revoke" => queue'[i].call # queue'[j].call
    BY DEF OneTurn
  <2>1. i + 1 # j + 1
    BY <1>1, <1>2
  <2> QED
    BY <1>2, <2>1 DEF QueueInOrder, OneTurn
<1>4. ASSUME NEW i \in 1 .. Len(queue')
      PROVE  /\ Waiting(queue'[i])
             /\ queue'[i].op = "revokeSecret" => queue'[i].secret = Nothing /\ queue'[i].stage # "resolve"
             /\ queue'[i].op # "revoke" => call'[queue'[i].call].pc = "queued"
  <2>1. i + 1 \in 1 .. Len(queue) /\ i + 1 > 1 /\ i + 1 # 1 /\ queue'[i] = queue[i + 1]
    BY <1>1, <1>2
  <2>2. queue[i + 1].op # "revoke" => queue[1].op = "revoke" \/ queue[i + 1].call # queue[1].call
    BY <1>1, <2>1 DEF QueueInOrder, OneTurn
  <2> QED
    BY <1>1, <2>1, <2>2 DEF QueueInOrder
<1> QED
  BY <1>3, <1>4 DEF QueueInOrder, Waiting

\* ... and when the head goes on.
LEMMA MoveInOrder ==
    ASSUME GrantIsTyped, QueueInOrder, queue # <<>>, NEW e \in Entries, queue' = [queue EXCEPT ![1] = e],
           UNCHANGED call, e.op = queue[1].op, e.call = queue[1].call, e.op # "revoke", e.stage # "start",
           e.op = "revokeSecret" => e.secret = Nothing /\ e.stage # "resolve"
    PROVE  QueueInOrder'
<1>1. Len(queue) \in Nat /\ 1 \in 1 .. Len(queue)
  BY QueueFacts
<1>2. Len(queue') = Len(queue) /\ queue'[1] = e /\ \A i \in 1 .. Len(queue) : i # 1 => queue'[i] = queue[i]
  BY HeadMoved
<1>3. \A i \in 1 .. Len(queue) : queue'[i].op = queue[i].op /\ queue'[i].call = queue[i].call
  BY <1>2
<1>4. OneTurn'
  BY <1>2, <1>3 DEF QueueInOrder, OneTurn
<1>5. ASSUME NEW i \in 1 .. Len(queue')
      PROVE  /\ i > 1 \/ queue'[i].stage = "start" \/ queue'[i].op = "revoke" => Waiting(queue'[i])
             /\ queue'[i].op = "revokeSecret" => queue'[i].secret = Nothing /\ queue'[i].stage # "resolve"
             /\ queue'[i].op # "revoke" => call'[queue'[i].call].pc = "queued"
  <2>1. CASE i = 1
    BY <1>1, <1>2, <2>1 DEF QueueInOrder
  <2>2. CASE i # 1
    BY <1>1, <1>2, <2>2 DEF QueueInOrder
  <2> QED
    BY <2>1, <2>2
<1> QED
  BY <1>4, <1>5 DEF QueueInOrder, Waiting

-----------------------------------------------------------------------------
(* The row and the tools *)

Statements == [pc : {"idle", "asked", "approved", "cleared", "queued"}, origin : Destinations \cup {"none"}]

\* A step that leaves the grant alone and brings no new value.
LEMMA QuietKeeps ==
    ASSUME SecretsInv, RowsAreTyped', UNCHANGED <<handle, queue, file, revoked, unknown, gone, origins>>,
           call' \in [Calls -> Statements], \A x \in Calls : call[x].pc = "queued" => call'[x] = call[x],
           clobbered => clobbered',
           ~clobbered' /\ row'.value # 0 => row'.value = row.value /\ row'.origin = row.origin
    PROVE  SecretsInv'
<1>0. GrantIsTyped /\ QueueInOrder /\ Stored' = Stored
  BY DEF SecretsInv, Stored
<1>1. GrantIsTyped'
  BY <1>0 DEF GrantIsTyped, Statements
<1>2. QueueInOrder'
  <2>1. OneTurn'
    BY <1>0 DEF QueueInOrder, OneTurn
  <2>2. \A i \in 1 .. Len(queue) : queue[i].call \in Calls
    BY <1>0, QueueFacts, EntryFacts
  <2>3. \A i \in 1 .. Len(queue) : queue[i].op # "revoke" => call'[queue[i].call].pc = "queued"
    BY <1>0, <2>2 DEF QueueInOrder
  <2> QED
    BY <1>0, <2>1, <2>3 DEF QueueInOrder, Waiting
<1>3. ClosedForGood' /\ FileFollows'
  BY DEF SecretsInv, ClosedForGood, FileFollows, Publishing
<1>4. ValuesInOrder'
  BY <1>0 DEF SecretsInv, ValuesInOrder
<1>5. EverythingIsBound'
  BY <1>0 DEF SecretsInv, EverythingIsBound, Bound
<1>6. NothingComesBack'
  BY DEF SecretsInv, NothingComesBack, Publishing
<1> QED
  BY <1>1, <1>2, <1>3, <1>4, <1>5, <1>6 DEF SecretsInv

LEMMA RowCleared ==
    ASSUME RowsAreTyped, row' = [row EXCEPT !.value = 0]
    PROVE  /\ row' \in [value : 0 .. MaxPuts, origin : Destinations \cup {"none"}, key : 0 .. MaxKeys]
           /\ row'.value = 0 /\ row'.origin = row.origin
<1>1. row \in [value : 0 .. MaxPuts, origin : Destinations \cup {"none"}, key : 0 .. MaxKeys]
  BY DEF RowsAreTyped
<1>2. 0 \in 0 .. MaxPuts
  BY SecretsAssumption
<1> QED
  BY <1>1, <1>2

LEMMA StoreKeeps ==
    ASSUME SecretsInv,
           \/ \E w \in Putters, d \in Destinations : PutChecks(w, d)
           \/ OperatorForgets \/ NewKey \/ RotateReads \/ RotateWrites
    PROVE  SecretsInv'
<1> USE SecretsAssumption
<1>0. RowsAreTyped /\ GrantIsTyped
  BY DEF SecretsInv
<1>1. \A c \in Calls : call[c] \in Statements
  BY <1>0 DEF GrantIsTyped, Statements
<1>2. call \in [Calls -> Statements]
  BY <1>0 DEF GrantIsTyped, Statements
<1>3. ASSUME NEW w \in Putters, NEW d \in Destinations, PutChecks(w, d) PROVE SecretsInv'
  <2>1. /\ put' = [put EXCEPT ![w] = [pc |-> "checked", origin |-> d]]
        /\ UNCHANGED <<row, activeKey, rotation, call, handle, queue, file, revoked, unknown, gone, origins, clobbered>>
    BY <1>3 DEF PutChecks, proxy
  <2>2. RowsAreTyped'
    BY <1>0, <2>1 DEF RowsAreTyped
  <2> QED
    BY <1>2, <2>1, <2>2, QuietKeeps
<1>4. CASE OperatorForgets
  <2>1. /\ row' = [row EXCEPT !.value = 0]
        /\ UNCHANGED <<activeKey, put, rotation, call, handle, queue, file, revoked, unknown, gone, origins, clobbered>>
    BY <1>4 DEF OperatorForgets, proxy
  <2>2. /\ row' \in [value : 0 .. MaxPuts, origin : Destinations \cup {"none"}, key : 0 .. MaxKeys]
        /\ row'.value = 0 /\ row'.origin = row.origin
    BY <1>0, <2>1, RowCleared
  <2>3. RowsAreTyped'
    BY <1>0, <2>1, <2>2 DEF RowsAreTyped
  <2> QED
    BY <1>2, <2>1, <2>2, <2>3, QuietKeeps
<1>5. CASE NewKey
  <2>1. /\ activeKey < MaxKeys /\ activeKey' = activeKey + 1
        /\ UNCHANGED <<row, put, rotation, call, handle, queue, file, revoked, unknown, gone, origins, clobbered>>
    BY <1>5 DEF NewKey, proxy
  <2>2. activeKey' \in 0 .. MaxKeys
    BY <1>0, <2>1 DEF RowsAreTyped
  <2>3. RowsAreTyped'
    BY <1>0, <2>1, <2>2 DEF RowsAreTyped
  <2> QED
    BY <1>2, <2>1, <2>3, QuietKeeps
<1>6. CASE RotateReads
  <2>1. /\ rotation' = row.value
        /\ UNCHANGED <<row, activeKey, put, call, handle, queue, file, revoked, unknown, gone, origins, clobbered>>
    BY <1>6 DEF RotateReads, proxy
  <2>3. RowsAreTyped'
    BY <1>0, <2>1 DEF RowsAreTyped
  <2> QED
    BY <1>2, <2>1, <2>3, QuietKeeps
<1>7. CASE RotateWrites
  <2>1. /\ rotation' = 0 /\ row' = [row EXCEPT !.value = rotation, !.key = activeKey]
        /\ clobbered' = (clobbered \/ row.value # rotation)
        /\ UNCHANGED <<activeKey, put, call, handle, queue, file, revoked, unknown, gone, origins>>
    BY <1>7 DEF RotateWrites, proxy
  <2>2. /\ row' \in [value : 0 .. MaxPuts, origin : Destinations \cup {"none"}, key : 0 .. MaxKeys]
        /\ row'.value = rotation /\ row'.origin = row.origin
    BY <1>0, <2>1 DEF RowsAreTyped
  <2>3. RowsAreTyped'
    <3>1. clobbered' \in BOOLEAN
      BY ONLY <2>1
    <3> QED
      BY <1>0, <2>1, <2>2, <3>1 DEF RowsAreTyped
  <2> QED
    BY <1>2, <2>1, <2>2, <2>3, QuietKeeps
<1> QED
  BY <1>3, <1>4, <1>5, <1>6, <1>7

\* A new value is one that was never stored before.
LEMMA PutKeeps ==
    ASSUME SecretsInv, NEW w \in Putters, PutWrites(w)
    PROVE  SecretsInv'
<1> USE SecretsAssumption
<1>0. RowsAreTyped /\ GrantIsTyped
  BY DEF SecretsInv
<1>1. PICK n \in 0 .. MaxPuts : Stored = 1 .. n
  BY DEF SecretsInv, ValuesInOrder
<1>2. n \in Nat /\ Cardinality(Stored) = n /\ MaxPuts \in Nat
  BY <1>1, FS_Interval
<1> DEFINE v == n + 1
           d == put[w].origin
<1>3. n < MaxPuts /\ v \in 1 .. MaxPuts /\ v \notin Stored /\ d \in Destinations
  BY <1>0, <1>1, <1>2 DEF PutWrites, RowsAreTyped
<1>4. /\ row' = [value |-> v, origin |-> d, key |-> activeKey] /\ origins' = [origins EXCEPT ![v] = d]
      /\ put' = [put EXCEPT ![w].pc = "idle"]
      /\ UNCHANGED <<activeKey, rotation, call, handle, queue, file, revoked, unknown, slips, gone, clobbered>>
  BY <1>2 DEF PutWrites, proxy
<1>5. put' \in [Putters -> [pc : {"idle", "checked"}, origin : Destinations \cup {"none"}]]
      /\ \A x \in Putters : put'[x].pc = "checked" => put'[x] = put[x]
  BY <1>0, <1>4 DEF RowsAreTyped
<1> HIDE DEF v, d
<1>6. origins' \in [1 .. MaxPuts -> Destinations \cup {"none"}] /\ origins'[v] = d
      /\ \A x \in 1 .. MaxPuts : x # v => origins'[x] = origins[x]
  BY <1>0, <1>3, <1>4 DEF RowsAreTyped
<1>7. row'.value = v /\ row'.origin = d /\ row' \in [value : 0 .. MaxPuts, origin : Destinations \cup {"none"}, key : 0 .. MaxKeys]
  BY <1>0, <1>3, <1>4 DEF RowsAreTyped
<1>8. RowsAreTyped'
  BY <1>0, <1>3, <1>4, <1>5, <1>6, <1>7 DEF RowsAreTyped
<1>9. Stored' = Stored \cup {v}
  BY <1>3, <1>6 DEF Stored
<1>10. GrantIsTyped' /\ QueueInOrder' /\ ClosedForGood' /\ FileFollows'
  <2>1. GrantIsTyped'
    BY <1>0, <1>4 DEF GrantIsTyped
  <2>2. QueueInOrder'
    BY <1>4 DEF SecretsInv, QueueInOrder, OneTurn, Waiting
  <2> QED
    BY <1>4, <2>1, <2>2 DEF SecretsInv, ClosedForGood, FileFollows, Publishing
<1>11. ValuesInOrder'
  <2>1. Stored' = 1 .. n + 1 /\ n + 1 \in 0 .. MaxPuts
    BY <1>1, <1>2, <1>3, <1>9 DEF v
  <2> QED
    BY <1>4, <1>9, <2>1 DEF SecretsInv, ValuesInOrder
<1>12. gone \subseteq Stored /\ Stored \subseteq 1 .. MaxPuts
  BY DEF SecretsInv, ValuesInOrder, Stored
<1>13. \A x : Bound(x) => Bound(x)'
  BY <1>3, <1>6, <1>9, <1>12 DEF Bound
<1>14. EverythingIsBound'
  <2>1. row'.value \in Stored' /\ origins'[row'.value] = row'.origin /\ row'.value \notin gone'
    BY <1>3, <1>4, <1>6, <1>7, <1>9, <1>12
  <2>2. ~clobbered => /\ Bound(handle.secret) /\ Bound(file.secret)
                      /\ queue # <<>> => Bound(queue[1].secret) /\ Bound(queue[1].previous)
    BY DEF SecretsInv, EverythingIsBound
  <2>3. ~clobbered => /\ Bound(handle.secret)' /\ Bound(file.secret)'
                      /\ queue # <<>> => Bound(queue[1].secret)' /\ Bound(queue[1].previous)'
    BY <1>4, <1>13, <2>2 DEF Bound
  <2> QED
    BY <1>4, <2>1, <2>3 DEF EverythingIsBound
<1>15. NothingComesBack'
  BY <1>4 DEF SecretsInv, NothingComesBack, Publishing
<1> QED
  BY <1>8, <1>10, <1>11, <1>14, <1>15 DEF SecretsInv

LEMMA ToolsKeep ==
    ASSUME SecretsInv,
           \/ \E c \in Asks : Answered(c) \/ \E d \in Destinations : Ask(c, d)
           \/ \E c \in Forgets : Forget(c)
    PROVE  SecretsInv'
<1>0. RowsAreTyped /\ call \in [Calls -> Statements]
  BY DEF SecretsInv, GrantIsTyped, Statements
<1>1. ASSUME NEW c \in Asks, NEW d \in Destinations, Ask(c, d) PROVE SecretsInv'
  <2>1. /\ call[c].pc = "idle" /\ call' = [call EXCEPT ![c] = [pc |-> "asked", origin |-> d]] /\ c \in Calls
        /\ UNCHANGED <<row, activeKey, put, rotation, origins, clobbered, handle, queue, file, revoked, unknown, gone>>
    BY <1>1 DEF Ask, store, proxy, Calls
  <2>2. [pc |-> "asked", origin |-> d] \in Statements
    BY DEF Statements
  <2>3. call' \in [Calls -> Statements] /\ \A x \in Calls : x # c => call'[x] = call[x]
    BY <1>0, <2>1, <2>2
  <2>4. RowsAreTyped'
    BY <1>0, <2>1 DEF RowsAreTyped
  <2> QED
    BY <2>1, <2>3, <2>4, QuietKeeps
<1>2. ASSUME NEW c \in Asks, Answered(c) PROVE SecretsInv'
  <2>1. PICK a \in {"approved", "idle"} : call' = [call EXCEPT ![c].pc = a]
    BY <1>2 DEF Answered, CallAt
  <2>2. /\ call[c].pc = "asked" /\ c \in Calls
        /\ UNCHANGED <<row, activeKey, put, rotation, origins, clobbered, handle, queue, file, revoked, unknown, gone>>
    BY <1>2 DEF Answered, store, proxy, Calls
  <2>3. call' \in [Calls -> Statements] /\ \A x \in Calls : x # c => call'[x] = call[x]
    BY <1>0, <2>1, <2>2 DEF Statements
  <2>4. RowsAreTyped'
    BY <1>0, <2>2 DEF RowsAreTyped
  <2> QED
    BY <2>2, <2>3, <2>4, QuietKeeps
<1>3. ASSUME NEW c \in Forgets, Forget(c) PROVE SecretsInv'
  <2>1. call' = [call EXCEPT ![c].pc = "cleared"] /\ row' = [row EXCEPT !.value = 0]
    BY <1>3 DEF Forget, CallAt
  <2>2. /\ call[c].pc = "idle" /\ c \in Calls
        /\ UNCHANGED <<activeKey, put, rotation, origins, clobbered, handle, queue, file, revoked, unknown, gone>>
    BY <1>3 DEF Forget, proxy, Calls
  <2>3. call' \in [Calls -> Statements] /\ \A x \in Calls : x # c => call'[x] = call[x]
    BY <1>0, <2>1, <2>2 DEF Statements
  <2>4. /\ row' \in [value : 0 .. MaxPuts, origin : Destinations \cup {"none"}, key : 0 .. MaxKeys]
        /\ row'.value = 0 /\ row'.origin = row.origin
    BY <1>0, <2>1, RowCleared
  <2>5. RowsAreTyped'
    BY <1>0, <2>2, <2>4 DEF RowsAreTyped
  <2> QED
    BY <2>2, <2>3, <2>4, <2>5, QuietKeeps
<1> QED
  BY <1>1, <1>2, <1>3

-----------------------------------------------------------------------------
(* The handle *)

\* An operation joins the queue; revoke closes the handle at once.
LEMMA JoinKeeps ==
    ASSUME SecretsInv, NEW op \in {"grant", "revokeSecret", "revoke"}, NEW c \in Calls, Enqueue(op, c),
           op # "revoke" => call[c].pc # "queued" /\ call'[c].pc = "queued" /\ UNCHANGED handle,
           \A x \in Calls : x # c \/ op = "revoke" => call'[x] = call[x],
           op = "revoke" => /\ \A i \in 1 .. Len(queue) : queue[i].op # "revoke"
                            /\ handle' = [secret |-> Nothing, closed |-> TRUE],
           call' \in [Calls -> Statements], UNCHANGED <<store, file, revoked, unknown, gone>>
    PROVE  SecretsInv'
<1>0. /\ RowsAreTyped /\ GrantIsTyped /\ QueueInOrder
      /\ UNCHANGED <<row, activeKey, put, rotation, origins, clobbered>> /\ Stored' = Stored
  BY DEF SecretsInv, store, Stored
<1>1. QueueInOrder'
  BY <1>0, JoinInOrder
<1>2. /\ queue' \in Seq(Entries) /\ queue' # <<>> /\ Len(queue) \in Nat /\ Len(queue') = Len(queue) + 1
      /\ \A i \in 1 .. Len(queue) : queue'[i] = queue[i]
      /\ Waiting(queue'[Len(queue) + 1]) /\ queue'[Len(queue) + 1].op = op
      /\ (queue # <<>> <=> Len(queue) >= 1)
  BY <1>0, Enqueued, QueueFacts
<1>3. IF queue = <<>> THEN Waiting(queue'[1]) ELSE queue'[1] = queue[1]
  <2>1. CASE queue = <<>>
    <3>1. Len(queue) + 1 = 1
      BY <1>2, <2>1
    <3> QED
      BY <1>2, <2>1, <3>1
  <2>2. CASE queue # <<>>
    <3>1. 1 \in 1 .. Len(queue)
      BY <1>2, <2>2
    <3> QED
      BY <1>2, <2>2, <3>1
  <2> QED
    BY <2>1, <2>2
<1>4. Publishing' <=> Publishing
  BY <1>2, <1>3 DEF Publishing, Waiting
<1>5. handle'.closed \in BOOLEAN /\ (handle.closed => handle'.closed) /\ (op = "revoke" => handle'.closed)
      /\ (handle' = handle \/ (handle'.closed /\ handle'.secret = Nothing))
      /\ handle' \in [secret : Secrets, closed : BOOLEAN]
  <2>1. CASE op = "revoke"
    <3>1. handle' = [secret |-> Nothing, closed |-> TRUE]
      BY <2>1
    <3> QED
      BY <3>1, NothingFacts
  <2>2. CASE op # "revoke"
    BY <1>0, <2>2 DEF GrantIsTyped
  <2> QED
    BY <2>1, <2>2
<1>6. RowsAreTyped' /\ GrantIsTyped'
  BY <1>0, <1>2, <1>5 DEF RowsAreTyped, GrantIsTyped, Statements
<1>7. ClosedForGood'
  <2>1. (\E i \in 1 .. Len(queue') : queue'[i].op = "revoke") => handle'.closed
    <3>1. \A i \in 1 .. Len(queue') : i \in 1 .. Len(queue) \/ i = Len(queue) + 1
      BY <1>2
    <3>2. (\E i \in 1 .. Len(queue) : queue[i].op = "revoke") => handle.closed
      BY DEF SecretsInv, ClosedForGood
    <3> QED
      BY <1>2, <1>5, <3>1, <3>2
  <2>2. revoked => handle.closed /\ ~file.live /\ (queue # <<>> => queue[1].stage = "start")
    BY DEF SecretsInv, ClosedForGood
  <2>3. revoked => queue'[1].stage = "start"
    BY <1>3, <2>2 DEF Waiting
  <2> QED
    BY <1>5, <2>1, <2>2, <2>3 DEF ClosedForGood
<1>8. ValuesInOrder'
  BY <1>0 DEF SecretsInv, ValuesInOrder
<1>9. EverythingIsBound'
  <2>1. ASSUME ~clobbered PROVE Bound(handle'.secret) /\ Bound(file.secret) /\ Bound(queue'[1].secret) /\ Bound(queue'[1].previous)
    <3>1. Bound(handle'.secret) /\ Bound(file.secret)
      BY <1>5, <2>1 DEF SecretsInv, EverythingIsBound, Bound
    <3>2. Bound(queue'[1].secret) /\ Bound(queue'[1].previous)
      BY <1>3, <2>1 DEF SecretsInv, EverythingIsBound, Bound, Waiting
    <3> QED
      BY <3>1, <3>2
  <2> QED
    BY <1>0, <2>1 DEF SecretsInv, EverythingIsBound, Bound
<1>10. FileFollows'
  <2> SUFFICES ASSUME ~unknown, ~handle'.closed
               PROVE  IF Publishing' THEN file.secret = queue'[1].previous /\ handle'.secret = queue'[1].secret
                      ELSE file.secret = handle'.secret
    BY DEF FileFollows
  <2>1. handle' = handle /\ ~handle.closed
    BY <1>5
  <2>2. IF Publishing THEN file.secret = queue[1].previous /\ handle.secret = queue[1].secret
        ELSE file.secret = handle.secret
    BY <2>1 DEF SecretsInv, FileFollows
  <2>3. Publishing => queue'[1] = queue[1]
    BY <1>3 DEF Publishing
  <2> QED
    BY <1>4, <2>1, <2>2, <2>3
<1>11. NothingComesBack'
  <2>1. Publishing => queue'[1] = queue[1]
    BY <1>3 DEF Publishing
  <2> QED
    BY <1>0, <1>4, <1>5, <2>1 DEF SecretsInv, NothingComesBack
<1> QED
  BY <1>1, <1>6, <1>7, <1>8, <1>9, <1>10, <1>11 DEF SecretsInv

LEMMA CallsKeep ==
    ASSUME SecretsInv,
           \/ \E c \in Asks : RecheckSecret(c)
           \/ \E c \in Forgets : ForgetUpstream(c)
           \/ Revoke
    PROVE  SecretsInv'
<1>0. call \in [Calls -> Statements] /\ RowsAreTyped
  BY DEF SecretsInv, GrantIsTyped, Statements
<1>1. ASSUME NEW c \in Calls, NEW op \in {"grant", "revokeSecret"}, call[c].pc # "queued", CallAt(c, "queued"),
             Enqueue(op, c), UNCHANGED <<store, handle, file, revoked, unknown, gone>>
      PROVE  SecretsInv'
  <2>1. call' \in [Calls -> Statements] /\ call'[c].pc = "queued" /\ \A x \in Calls : x # c => call'[x] = call[x]
    BY <1>0, <1>1 DEF CallAt, Statements
  <2> QED
    BY <1>1, <2>1, JoinKeeps
<1>2. ASSUME NEW c \in Asks, RecheckSecret(c) PROVE SecretsInv'
  <2>1. call[c].pc = "approved" /\ c \in Calls /\ UNCHANGED <<store, handle, file, revoked, unknown, gone>>
    BY <1>2 DEF RecheckSecret, Calls
  <2>2. CASE CallAt(c, "queued") /\ Enqueue("grant", c)
    BY <1>1, <2>1, <2>2
  <2>3. CASE CallAt(c, "idle") /\ UNCHANGED queue
    <3>1. call' \in [Calls -> Statements] /\ \A x \in Calls : x # c => call'[x] = call[x]
      BY <1>0, <2>1, <2>3 DEF CallAt, Statements
    <3>2. RowsAreTyped' /\ UNCHANGED <<row, origins, clobbered>>
      BY <1>0, <2>1 DEF RowsAreTyped, store
    <3> QED
      BY <2>1, <2>3, <3>1, <3>2, QuietKeeps
  <2> QED
    BY <1>2, <2>2, <2>3 DEF RecheckSecret
<1>3. ASSUME NEW c \in Forgets, ForgetUpstream(c) PROVE SecretsInv'
  <2>1. /\ call[c].pc = "cleared" /\ c \in Calls /\ UNCHANGED <<store, handle, file, revoked, unknown, gone>>
        /\ CallAt(c, "queued") /\ Enqueue("revokeSecret", c)
    BY <1>3 DEF ForgetUpstream, Calls
  <2> QED
    BY <1>1, <2>1
<1>4. CASE Revoke
  <2>1. (CHOOSE c \in Calls : TRUE) \in Calls
    BY SecretsAssumption DEF Calls
  <2>2. PICK c \in Calls : Enqueue("revoke", c)
    BY <1>4, <2>1 DEF Revoke
  <2>3. /\ \A i \in 1 .. Len(queue) : queue[i].op # "revoke"
        /\ handle' = [secret |-> Nothing, closed |-> TRUE]
        /\ UNCHANGED <<store, file, revoked, unknown, gone, call>>
    BY <1>4 DEF Revoke
  <2> QED
    BY <1>0, <2>2, <2>3, JoinKeeps
<1> QED
  BY <1>2, <1>3, <1>4

\* The head leaves: what it leaves behind decides.
LEMMA LeaveKeeps ==
    ASSUME SecretsInv, queue # <<>>, queue' = Tail(queue), call' \in [Calls -> Statements],
           \A x \in Calls : queue[1].op = "revoke" \/ x # queue[1].call => call'[x] = call[x],
           UNCHANGED store, file' \in [live : BOOLEAN, secret : Secrets],
           handle' \in [secret : Secrets, closed : BOOLEAN], handle'.closed = handle.closed,
           revoked' \in BOOLEAN, unknown' \in BOOLEAN, revoked' => handle.closed /\ ~file'.live,
           gone' \subseteq Stored, row.value # 0 /\ row.value \notin gone => row.value \notin gone',
           ~clobbered => Bound(handle'.secret) /\ Bound(file'.secret),
           ~unknown' /\ ~handle.closed => file'.secret = handle'.secret,
           ~clobbered /\ ~unknown' /\ ~handle.closed => file'.secret.value \notin gone'
    PROVE  SecretsInv'
<1>0. /\ RowsAreTyped /\ GrantIsTyped /\ QueueInOrder
      /\ UNCHANGED <<row, activeKey, put, rotation, origins, clobbered>> /\ Stored' = Stored
  BY DEF SecretsInv, store, Stored
<1>1. QueueInOrder'
  BY <1>0, LeaveInOrder
<1>2. /\ queue' \in Seq(Entries) /\ Len(queue') = Len(queue) - 1
      /\ \A i \in 1 .. Len(queue') : queue'[i] = queue[i + 1] /\ i + 1 \in 1 .. Len(queue)
      /\ queue' # <<>> => 1 \in 1 .. Len(queue') /\ 2 \in 1 .. Len(queue) /\ queue'[1] = queue[2]
  BY <1>0, Dequeued
<1>3. queue' # <<>> => Waiting(queue'[1])
  BY <1>0, <1>2 DEF QueueInOrder
<1>4. ~Publishing'
  BY <1>3 DEF Publishing, Waiting
<1>5. RowsAreTyped' /\ GrantIsTyped'
  BY <1>0, <1>2 DEF RowsAreTyped, GrantIsTyped, Statements
<1>6. ClosedForGood'
  <2>1. (\E i \in 1 .. Len(queue') : queue'[i].op = "revoke") => handle.closed
    BY <1>2 DEF SecretsInv, ClosedForGood
  <2>2. queue' # <<>> => queue'[1].stage = "start"
    BY <1>3 DEF Waiting
  <2> QED
    BY <2>1, <2>2 DEF ClosedForGood
<1>7. ValuesInOrder'
  BY <1>0 DEF SecretsInv, ValuesInOrder
<1>8. EverythingIsBound'
  <2>1. queue' # <<>> => Bound(queue'[1].secret) /\ Bound(queue'[1].previous)
    BY <1>3 DEF Bound, Waiting
  <2>2. ~clobbered /\ row.value # 0 => row.value \in Stored /\ origins[row.value] = row.origin /\ row.value \notin gone'
    BY DEF SecretsInv, EverythingIsBound
  <2> QED
    BY <1>0, <2>1, <2>2 DEF EverythingIsBound, Bound
<1>9. FileFollows' /\ NothingComesBack'
  BY <1>0, <1>4 DEF FileFollows, NothingComesBack
<1> QED
  BY <1>1, <1>5, <1>6, <1>7, <1>8, <1>9 DEF SecretsInv

\* The head goes on, on a handle whose grant was not taken back.
LEMMA MoveKeeps ==
    ASSUME SecretsInv, queue # <<>>, NEW e \in Entries, queue' = [queue EXCEPT ![1] = e], ~revoked,
           e.op = queue[1].op, e.call = queue[1].call, e.op # "revoke", e.stage # "start",
           e.op = "revokeSecret" => e.secret = Nothing /\ e.stage # "resolve",
           UNCHANGED <<store, file, revoked, unknown, gone, call>>,
           handle' \in [secret : Secrets, closed : BOOLEAN], handle'.closed = handle.closed,
           ~clobbered => Bound(handle'.secret) /\ Bound(e.secret) /\ Bound(e.previous),
           ~unknown /\ ~handle.closed =>
               IF e.stage = "publish" THEN file.secret = e.previous /\ handle'.secret = e.secret
               ELSE file.secret = handle'.secret,
           ~clobbered /\ e.stage = "publish" => e.secret.value \notin gone
    PROVE  SecretsInv'
<1>0. /\ RowsAreTyped /\ GrantIsTyped /\ QueueInOrder
      /\ UNCHANGED <<row, activeKey, put, rotation, origins, clobbered>> /\ Stored' = Stored
  BY DEF SecretsInv, store, Stored
<1>1. QueueInOrder'
  BY <1>0, MoveInOrder
<1>2. /\ queue' \in Seq(Entries) /\ queue' # <<>> /\ Len(queue') = Len(queue) /\ queue'[1] = e
      /\ \A i \in 1 .. Len(queue) : i # 1 => queue'[i] = queue[i]
  BY <1>0, HeadMoved
<1>3. Publishing' <=> e.stage = "publish"
  BY <1>2 DEF Publishing
<1>4. RowsAreTyped' /\ GrantIsTyped'
  BY <1>0, <1>2 DEF RowsAreTyped, GrantIsTyped
<1>5. ClosedForGood'
  <2>1. \A i \in 1 .. Len(queue) : queue'[i].op = queue[i].op
    BY <1>2
  <2> QED
    BY <1>2, <2>1 DEF SecretsInv, ClosedForGood
<1>6. ValuesInOrder'
  BY <1>0 DEF SecretsInv, ValuesInOrder
<1>7. EverythingIsBound'
  <2>1. ~clobbered /\ row.value # 0 => row.value \in Stored /\ origins[row.value] = row.origin /\ row.value \notin gone
    BY DEF SecretsInv, EverythingIsBound
  <2>2. ~clobbered => Bound(file.secret)
    BY DEF SecretsInv, EverythingIsBound
  <2> QED
    BY <1>0, <1>2, <2>1, <2>2 DEF EverythingIsBound, Bound
<1>8. FileFollows'
  BY <1>2, <1>3 DEF FileFollows
<1>9. NothingComesBack'
  BY <1>0, <1>2, <1>3 DEF SecretsInv, NothingComesBack
<1> QED
  BY <1>1, <1>4, <1>5, <1>6, <1>7, <1>8, <1>9 DEF SecretsInv

\* What the handle's steps know.
LEMMA HandleFacts ==
    ASSUME SecretsInv, queue # <<>>
    PROVE  /\ Head1 \in Entries /\ Head1 = queue[1] /\ Head1.call \in Calls
           /\ handle \in [secret : Secrets, closed : BOOLEAN] /\ file \in [live : BOOLEAN, secret : Secrets]
           /\ revoked \in BOOLEAN /\ unknown \in BOOLEAN /\ call \in [Calls -> Statements]
           /\ ~clobbered => Bound(handle.secret) /\ Bound(file.secret) /\ Bound(Head1.secret) /\ Bound(Head1.previous)
           /\ revoked => handle.closed /\ ~file.live /\ Head1.stage = "start"
           /\ Head1.stage # "start" => Head1.op # "revoke"
           /\ Head1.op = "revokeSecret" => Head1.secret = Nothing /\ Head1.stage # "resolve"
           /\ ~unknown /\ ~handle.closed /\ Head1.stage # "publish" => file.secret = handle.secret
           /\ ~unknown /\ ~handle.closed /\ Head1.stage = "publish" =>
                file.secret = Head1.previous /\ handle.secret = Head1.secret
           /\ ~clobbered /\ ~unknown /\ ~handle.closed => file.secret.value \notin gone
           /\ ~clobbered /\ Head1.stage = "publish" => Head1.secret.value \notin gone
           /\ gone \subseteq Stored /\ Stored \subseteq 1 .. MaxPuts /\ 0 \notin Stored
<1>1. GrantIsTyped
  BY DEF SecretsInv
<1>2. Head1 \in Entries /\ Head1 = queue[1] /\ Head1.call \in Calls /\ 1 \in 1 .. Len(queue)
  BY <1>1, QueueFacts, EntryFacts DEF Head1
<1>3. /\ handle \in [secret : Secrets, closed : BOOLEAN] /\ file \in [live : BOOLEAN, secret : Secrets]
      /\ revoked \in BOOLEAN /\ unknown \in BOOLEAN /\ call \in [Calls -> Statements]
  BY <1>1 DEF GrantIsTyped, Statements
<1>4. ~clobbered => Bound(handle.secret) /\ Bound(file.secret) /\ Bound(Head1.secret) /\ Bound(Head1.previous)
  BY <1>2 DEF SecretsInv, EverythingIsBound
<1>5. revoked => handle.closed /\ ~file.live /\ Head1.stage = "start"
  BY <1>2 DEF SecretsInv, ClosedForGood
<1>6. /\ Head1.stage # "start" => Head1.op # "revoke"
      /\ Head1.op = "revokeSecret" => Head1.secret = Nothing /\ Head1.stage # "resolve"
  BY <1>2 DEF SecretsInv, QueueInOrder, Waiting
<1>7. /\ ~unknown /\ ~handle.closed /\ Head1.stage # "publish" => file.secret = handle.secret
      /\ ~unknown /\ ~handle.closed /\ Head1.stage = "publish" =>
           file.secret = Head1.previous /\ handle.secret = Head1.secret
  BY <1>2 DEF SecretsInv, FileFollows, Publishing
<1>8. /\ ~clobbered /\ ~unknown /\ ~handle.closed => file.secret.value \notin gone
      /\ ~clobbered /\ Head1.stage = "publish" => Head1.secret.value \notin gone
  BY <1>2 DEF SecretsInv, NothingComesBack, Publishing
<1>9. gone \subseteq Stored /\ Stored \subseteq 1 .. MaxPuts /\ 0 \notin Stored
  BY SecretsAssumption DEF SecretsInv, ValuesInOrder, Stored
<1> QED
  BY <1>2, <1>3, <1>4, <1>5, <1>6, <1>7, <1>8, <1>9

\* The call at the head is answered.
LEMMA ReturnFacts ==
    ASSUME SecretsInv, queue # <<>>, Returned(Head1.call)
    PROVE  /\ queue' = Tail(queue) /\ call' \in [Calls -> Statements]
           /\ \A x \in Calls : x # queue[1].call => call'[x] = call[x]
<1>1. Head1 = queue[1] /\ Head1.call \in Calls /\ call \in [Calls -> Statements]
  BY HandleFacts
<1>2. queue' = Tail(queue) /\ call' = [call EXCEPT ![Head1.call].pc = "idle"]
  BY DEF Returned, CallAt
<1>3. call' \in [Calls -> Statements]
  BY <1>1, <1>2 DEF Statements
<1>4. \A x \in Calls : x # Head1.call => call'[x] = call[x]
  BY <1>1, <1>2
<1> QED
  BY <1>1, <1>2, <1>3, <1>4

LEMMA GrantKeeps ==
    ASSUME SecretsInv, GrantStarts \/ GrantResolves
    PROVE  SecretsInv'
<1>0. queue # <<>> /\ Head1.op = "grant" /\ UNCHANGED <<store, file, revoked, unknown, gone>>
  BY DEF GrantStarts, GrantResolves, Serving
<1> USE HandleFacts
<1>1. CASE GrantStarts \/ (GrantResolves /\ row.value = 0)
  <2>1. CASE Returned(Head1.call) /\ UNCHANGED handle /\ ((Head1.stage = "start" /\ handle.closed) \/ Head1.stage = "resolve")
    BY <1>0, <2>1, ReturnFacts, LeaveKeeps
  <2>2. CASE GrantStarts /\ ~handle.closed
    <3>1. Head1.stage = "start" /\ queue' = [queue EXCEPT ![1].stage = "resolve"] /\ UNCHANGED <<call, handle>>
      BY <2>2 DEF GrantStarts, Serving
    <3> DEFINE e == [queue[1] EXCEPT !.stage = "resolve"]
    <3>2. queue[1] \in Entries
      BY <1>0
    <3>3. /\ e \in Entries /\ e.stage = "resolve" /\ e.op = queue[1].op /\ e.call = queue[1].call
          /\ e.secret = queue[1].secret /\ e.previous = queue[1].previous
      BY ONLY <3>2 DEF e, Entries
    <3>4. queue' = [queue EXCEPT ![1] = e]
      BY <3>1
    <3> HIDE DEF e
    <3>5. ~revoked /\ e.op = "grant" /\ e.stage # "start" /\ e.stage # "publish"
      BY <1>0, <2>2, <3>3
    <3>6. ~clobbered => Bound(handle.secret) /\ Bound(e.secret) /\ Bound(e.previous)
      BY <1>0, <3>3
    <3>7. ~unknown /\ ~handle.closed => file.secret = handle.secret
      BY <1>0, <3>1
    <3>8. handle' \in [secret : Secrets, closed : BOOLEAN] /\ handle' = handle
      BY <1>0, <3>1
    <3> QED
      BY <1>0, <3>1, <3>3, <3>4, <3>5, <3>6, <3>7, <3>8, MoveKeeps
  <2> QED
    BY <1>1, <2>1, <2>2 DEF GrantStarts, GrantResolves, Serving
<1>2. CASE GrantResolves /\ row.value # 0
  <2> DEFINE s == [origin |-> row.origin, value |-> row.value]
             e == [queue[1] EXCEPT !.stage = "publish", !.secret = s, !.previous = handle.secret]
  <2>1. /\ Head1.stage = "resolve" /\ UNCHANGED call /\ handle' = [handle EXCEPT !.secret = s]
        /\ queue' = [queue EXCEPT ![1] = e]
    BY <1>2 DEF GrantResolves, Serving
  <2>2. row.value \in 1 .. MaxPuts /\ row.origin \in Destinations
    BY <1>2, SecretsAssumption DEF SecretsInv, RowsAreTyped
  <2>3. s \in Secrets /\ s.value = row.value /\ s.origin = row.origin
    BY <2>2, NothingFacts
  <2>4. ~clobbered => Bound(s) /\ s.value \notin gone
    BY <1>2, <2>3 DEF SecretsInv, EverythingIsBound, Bound
  <2> HIDE DEF s
  <2>5. queue[1] \in Entries /\ handle \in [secret : Secrets, closed : BOOLEAN] /\ handle.secret \in Secrets
    BY <1>0
  <2>6. /\ e \in Entries /\ e.stage = "publish" /\ e.op = queue[1].op /\ e.call = queue[1].call
        /\ e.secret = s /\ e.previous = handle.secret
    BY ONLY <2>3, <2>5 DEF e, Entries
  <2> HIDE DEF e
  <2>7. handle' \in [secret : Secrets, closed : BOOLEAN] /\ handle'.secret = s /\ handle'.closed = handle.closed
    BY ONLY <2>1, <2>3, <2>5
  <2>8. ~revoked /\ e.op = "grant"
    BY <1>0, <2>1, <2>6
  <2>9. ~clobbered => Bound(handle'.secret) /\ Bound(e.secret) /\ Bound(e.previous)
    BY <1>0, <2>4, <2>6, <2>7
  <2>10. ~unknown /\ ~handle.closed => file.secret = handle.secret
    BY <1>0, <2>1
  <2> QED
    BY <1>0, <2>1, <2>4, <2>6, <2>7, <2>8, <2>9, <2>10, MoveKeeps
<1> QED
  BY <1>1, <1>2

LEMMA ForgettingKeeps ==
    ASSUME SecretsInv, ForgetNothing \/ RevokeSecret
    PROVE  SecretsInv'
<1>0. /\ queue # <<>> /\ Head1.op = "revokeSecret" /\ Head1.stage = "start"
      /\ UNCHANGED <<store, file, revoked, unknown>>
  BY DEF ForgetNothing, RevokeSecret, Serving
<1> USE HandleFacts
<1>1. CASE ForgetNothing
  <2>1. /\ handle.closed \/ handle.secret = Nothing
        /\ Returned(Head1.call) /\ gone' = gone \cup (Stored \ {row.value}) /\ UNCHANGED handle
    BY <1>1 DEF ForgetNothing
  <2>2. queue' = Tail(queue) /\ call' \in [Calls -> Statements] /\ \A x \in Calls : x # queue[1].call => call'[x] = call[x]
    BY <1>0, <2>1, ReturnFacts
  <2>3. gone' \subseteq Stored /\ 0 \notin gone' /\ (row.value # 0 /\ row.value \notin gone => row.value \notin gone')
    BY <1>0, <2>1
  <2>4. ~unknown /\ ~handle.closed => file.secret = handle.secret /\ file.secret.value \notin gone'
    BY <1>0, <2>1, <2>3, NothingFacts
  <2>5. queue[1].op # "revoke" /\ file' \in [live : BOOLEAN, secret : Secrets]
        /\ handle' \in [secret : Secrets, closed : BOOLEAN] /\ revoked' \in BOOLEAN /\ unknown' \in BOOLEAN
    BY <1>0, <2>1
  <2> QED
    BY <1>0, <2>1, <2>2, <2>3, <2>4, <2>5, LeaveKeeps
<1>2. CASE RevokeSecret
  <2> DEFINE e == [queue[1] EXCEPT !.stage = "publish", !.previous = handle.secret]
  <2>1. /\ ~handle.closed /\ handle' = [handle EXCEPT !.secret = Nothing] /\ queue' = [queue EXCEPT ![1] = e]
        /\ UNCHANGED <<gone, call>>
    BY <1>2 DEF RevokeSecret
  <2>2. queue[1] \in Entries /\ handle \in [secret : Secrets, closed : BOOLEAN] /\ handle.secret \in Secrets
    BY <1>0
  <2>3. /\ e \in Entries /\ e.stage = "publish" /\ e.op = queue[1].op /\ e.call = queue[1].call
        /\ e.secret = queue[1].secret /\ e.previous = handle.secret
    BY ONLY <2>2 DEF e, Entries
  <2> HIDE DEF e
  <2>4. handle' \in [secret : Secrets, closed : BOOLEAN] /\ handle'.secret = Nothing /\ handle'.closed = handle.closed
    BY ONLY <2>1, <2>2, NothingFacts
  <2>5. e.secret = Nothing /\ ~revoked /\ e.op = "revokeSecret"
    BY <1>0, <2>1, <2>3
  <2>6. ~clobbered => Bound(handle'.secret) /\ Bound(e.secret) /\ Bound(e.previous)
    BY <1>0, <2>3, <2>4, <2>5 DEF Bound
  <2>7. ~unknown /\ ~handle.closed => file.secret = e.previous /\ handle'.secret = e.secret
    BY <1>0, <2>3, <2>4, <2>5
  <2>8. e.secret.value \notin gone
    BY <1>0, <2>5, NothingFacts
  <2> QED
    BY <1>0, <2>1, <2>3, <2>4, <2>5, <2>6, <2>7, <2>8, MoveKeeps
<1> QED
  BY <1>1, <1>2

LEMMA PublishKeeps ==
    ASSUME SecretsInv, Published \/ PublishFails
    PROVE  SecretsInv'
<1>0. queue # <<>> /\ Head1.stage = "publish" /\ Returned(Head1.call) /\ UNCHANGED <<store, revoked>>
  BY DEF Published, PublishFails
<1> USE HandleFacts
<1>1. /\ queue' = Tail(queue) /\ call' \in [Calls -> Statements] /\ \A x \in Calls : x # queue[1].call => call'[x] = call[x]
      /\ queue[1].op # "revoke" /\ ~revoked /\ revoked' \in BOOLEAN
  BY <1>0, ReturnFacts
<1> DEFINE g == [live |-> TRUE, secret |-> Head1.secret]
<1>2. Head1.secret \in Secrets /\ Head1.previous \in Secrets
  BY <1>0, EntryFacts
<1>3. g \in [live : BOOLEAN, secret : Secrets] /\ g.secret = Head1.secret
  BY ONLY <1>2 DEF g
<1>4. CASE Published
  <2>1. /\ file' = g /\ UNCHANGED <<handle, unknown>>
        /\ gone' = (IF Head1.op = "revokeSecret" THEN gone \cup (Stored \ {row.value}) ELSE gone)
    BY <1>4 DEF Published
  <2> HIDE DEF g
  <2>2. gone' \subseteq Stored /\ 0 \notin gone' /\ (row.value # 0 /\ row.value \notin gone => row.value \notin gone')
    <3>1. CASE Head1.op = "revokeSecret"
      BY <1>0, <2>1, <3>1
    <3>2. CASE Head1.op # "revokeSecret"
      BY <1>0, <2>1, <3>2
    <3> QED
      BY <3>1, <3>2
  <2>3. ~clobbered => file'.secret.value \notin gone'
    <3>1. CASE Head1.op = "revokeSecret"
      BY <1>0, <1>3, <2>1, <2>2, <3>1, NothingFacts
    <3>2. CASE Head1.op # "revokeSecret"
      BY <1>0, <1>3, <2>1, <3>2
    <3> QED
      BY <3>1, <3>2
  <2>4. ~unknown' /\ ~handle.closed => file'.secret = handle'.secret
    BY <1>0, <1>3, <2>1
  <2>5. ~clobbered => Bound(handle'.secret) /\ Bound(file'.secret)
    BY <1>0, <1>3, <2>1
  <2>6. /\ file' \in [live : BOOLEAN, secret : Secrets] /\ handle' \in [secret : Secrets, closed : BOOLEAN]
        /\ handle'.closed = handle.closed /\ unknown' \in BOOLEAN
    BY <1>0, <1>3, <2>1
  <2> QED
    BY <1>0, <1>1, <2>1, <2>2, <2>3, <2>4, <2>5, <2>6, LeaveKeeps
<1>5. CASE PublishFails
  <2>1. PICK written \in BOOLEAN :
          /\ file' = (IF written THEN g ELSE file) /\ unknown' = (unknown \/ written)
    BY <1>5 DEF PublishFails
  <2>2. handle' = [handle EXCEPT !.secret = Head1.previous] /\ UNCHANGED gone
    BY <1>5 DEF PublishFails
  <2> HIDE DEF g
  <2>3. handle' \in [secret : Secrets, closed : BOOLEAN] /\ handle'.secret = Head1.previous /\ handle'.closed = handle.closed
    <3>1. handle \in [secret : Secrets, closed : BOOLEAN]
      BY <1>0
    <3> QED
      BY ONLY <1>2, <2>2, <3>1
  <2>4. file' \in [live : BOOLEAN, secret : Secrets] /\ unknown' \in BOOLEAN
    BY <1>0, <1>3, <2>1
  <2>5. file' = file \/ file' = g
    BY <2>1
  <2>6. ~unknown' => file' = file /\ ~unknown
    BY <2>1
  <2>7. ~clobbered => Bound(handle'.secret) /\ Bound(file'.secret)
    BY <1>0, <1>3, <2>3, <2>5
  <2>8. ~unknown' /\ ~handle.closed => file'.secret = handle'.secret
    BY <1>0, <2>3, <2>6
  <2>9. ~clobbered /\ ~unknown' /\ ~handle.closed => file'.secret.value \notin gone'
    BY <1>0, <2>2, <2>6
  <2>10. gone' \subseteq Stored /\ (row.value # 0 /\ row.value \notin gone => row.value \notin gone')
    BY <1>0, <2>2
  <2> QED
    BY <1>0, <1>1, <2>3, <2>4, <2>7, <2>8, <2>9, <2>10, LeaveKeeps
<1> QED
  BY <1>4, <1>5

\* The tombstone is the last word: the handle was closed when it was called for.
LEMMA TombstoneKeeps ==
    ASSUME SecretsInv, Tombstone
    PROVE  SecretsInv'
<1>0. /\ queue # <<>> /\ Head1.op = "revoke" /\ Head1.stage = "start" /\ queue' = Tail(queue)
      /\ UNCHANGED <<store, handle, unknown, gone, call>>
  BY DEF Tombstone, Serving
<1> USE HandleFacts
<1> DEFINE t == [live |-> FALSE, secret |-> Nothing]
<1>1. t \in [live : BOOLEAN, secret : Secrets] /\ ~t.live /\ t.secret = Nothing
  BY NothingFacts
<1>2. (file' = t /\ revoked' = TRUE) \/ (file' \in {file, t} /\ UNCHANGED revoked)
  BY DEF Tombstone
<1> HIDE DEF t
<1>3. handle.closed
  <2>1. 1 \in 1 .. Len(queue) /\ queue[1].op = "revoke"
    BY <1>0, QueueFacts DEF SecretsInv
  <2> QED
    BY <2>1 DEF SecretsInv, ClosedForGood
<1>4. file' \in {file, t} /\ revoked' \in BOOLEAN
  BY <1>0, <1>2
<1>5. revoked' => ~file'.live
  BY <1>0, <1>1, <1>2
<1>6. file' \in [live : BOOLEAN, secret : Secrets] /\ (~clobbered => Bound(handle'.secret) /\ Bound(file'.secret))
  BY <1>0, <1>1, <1>4 DEF Bound
<1>7. /\ call' \in [Calls -> Statements] /\ queue[1].op = "revoke" /\ \A x \in Calls : call'[x] = call[x]
      /\ handle' \in [secret : Secrets, closed : BOOLEAN] /\ unknown' \in BOOLEAN /\ gone' \subseteq Stored
  BY <1>0
<1> QED
  BY <1>0, <1>3, <1>4, <1>5, <1>6, <1>7, LeaveKeeps

-----------------------------------------------------------------------------
(* The invariant *)

LEMMA SecretsStart == SecretInit => SecretsInv
<1> SUFFICES ASSUME SecretInit PROVE SecretsInv
  OBVIOUS
<1> USE SecretsAssumption
<1>1. RowsAreTyped
  <2>1. row \in [value : 0 .. MaxPuts, origin : Destinations \cup {"none"}, key : 0 .. MaxKeys] /\ row.value = 0
    BY DEF SecretInit
  <2>2. activeKey \in 0 .. MaxKeys /\ rotation \in 0 .. MaxPuts /\ rotation = 0
    BY DEF SecretInit
  <2>3. /\ put \in [Putters -> [pc : {"idle", "checked"}, origin : Destinations \cup {"none"}]]
        /\ \A w \in Putters : put[w].pc = "idle"
    BY DEF SecretInit
  <2>4. origins \in [1 .. MaxPuts -> Destinations \cup {"none"}]
    BY DEF SecretInit
  <2>5. clobbered \in BOOLEAN
    BY DEF SecretInit
  <2> QED
    BY <2>1, <2>2, <2>3, <2>4, <2>5 DEF RowsAreTyped
<1>2. queue = <<>> /\ queue \in Seq(Entries) /\ Len(queue) = 0
  BY EmptySeq DEF SecretInit
<1>3. GrantIsTyped
  <2>1. call \in [Calls -> Statements]
    BY DEF SecretInit, Statements
  <2>2. handle \in [secret : Secrets, closed : BOOLEAN] /\ file \in [live : BOOLEAN, secret : Secrets]
    BY NothingFacts DEF SecretInit
  <2>3. revoked \in BOOLEAN /\ unknown \in BOOLEAN
    BY DEF SecretInit
  <2> QED
    BY <1>2, <2>1, <2>2, <2>3 DEF GrantIsTyped, Statements
<1>4. QueueInOrder
  BY <1>2 DEF QueueInOrder, OneTurn
<1>5. ClosedForGood
  BY <1>2 DEF ClosedForGood, SecretInit
<1>6. Stored = {} /\ gone = {}
  BY DEF Stored, SecretInit
<1>7. ValuesInOrder
  <2>1. 1 .. 0 = {} /\ 0 \in 0 .. MaxPuts
    OBVIOUS
  <2> QED
    BY <1>6, <2>1 DEF ValuesInOrder
<1>8. handle.secret = Nothing /\ file.secret = Nothing /\ row.value = 0
  BY DEF SecretInit
<1>9. EverythingIsBound /\ FileFollows /\ NothingComesBack
  BY <1>2, <1>6, <1>8 DEF EverythingIsBound, FileFollows, NothingComesBack, Publishing, Bound
<1> QED
  BY <1>1, <1>3, <1>4, <1>5, <1>7, <1>9 DEF SecretsInv

LEMMA SecretsStep == SecretsInv /\ [SecretNext]_secretVars => SecretsInv'
<1>1. ASSUME SecretsInv, SecretNext PROVE SecretsInv'
  BY <1>1, StoreKeeps, PutKeeps, ToolsKeep, CallsKeep, GrantKeeps, ForgettingKeeps, PublishKeeps, TombstoneKeeps
     DEF SecretNext
<1>2. ASSUME SecretsInv, UNCHANGED secretVars PROVE SecretsInv'
  <2>1. /\ UNCHANGED <<row, activeKey, put, rotation, origins, clobbered, call>>
        /\ UNCHANGED <<handle, queue, file, revoked, unknown, gone>>
    BY <1>2 DEF secretVars
  <2>2. RowsAreTyped' /\ call' \in [Calls -> Statements]
    BY <1>2, <2>1 DEF SecretsInv, RowsAreTyped, GrantIsTyped, Statements
  <2> QED
    BY <1>2, <2>1, <2>2, QuietKeeps
<1> QED
  BY <1>1, <1>2

(* Whatever writes, forgets, rotations, approvals, failed publishes and ends of    *)
(* the run overlap: a call has one turn on the handle at a time, a revoked grant   *)
(* stays revoked, and, unless a rotation wrote over a change, a value is injected   *)
(* only for the destination it was stored for and never after a forget_secret      *)
(* that returned, but for a publish that failed half way.                          *)
THEOREM SecretsProved == SecretSpec => []SecretsAreSound
<1>1. SecretsInv => SecretsAreSound
  <2> SUFFICES ASSUME SecretsInv PROVE SecretsAreSound
    OBVIOUS
  <2>1. RowsAreTyped /\ GrantIsTyped /\ OneTurn
    BY DEF SecretsInv, QueueInOrder
  <2>2. SecretTypeOK
    BY <2>1 DEF RowsAreTyped, GrantIsTyped, SecretTypeOK
  <2>3. RevokeIsFinal
    BY DEF SecretsInv, ClosedForGood, RevokeIsFinal
  <2>4. ASSUME ~clobbered PROVE ValueStaysBound /\ InjectsWhatIsStored
    <3>1. ValueStaysBound
      BY <2>4 DEF SecretsInv, EverythingIsBound, ValueStaysBound
    <3>2. Bound(file.secret) /\ (~unknown /\ ~handle.closed => file.secret.value \notin gone)
      BY <2>4 DEF SecretsInv, EverythingIsBound, NothingComesBack
    <3>3. file.secret.value # 0 => origins[file.secret.value] = file.secret.origin
      BY <3>2, NothingFacts DEF Bound
    <3> QED
      BY <3>1, <3>2, <3>3 DEF InjectsWhatIsStored
  <2> QED
    BY <2>2, <2>3, <2>4 DEF SecretsAreSound
<1> QED
  BY <1>1, SecretsStart, SecretsStep, PTL DEF SecretSpec

-----------------------------------------------------------------------------
(* Numbers *)

\* A set of numbers that has a bound and is not empty has its Max among it.
LEMMA MaxIsMember ==
    ASSUME NEW n \in Nat, NEW S \in SUBSET (0 .. n), S # {}
    PROVE  Max(S) \in S
<1> DEFINE Bounds == {k \in Nat : \A x \in S : x <= k}
<1>1. n \in Bounds /\ Bounds \in SUBSET Nat
  OBVIOUS
<1>2. PICK k \in Bounds : \A m \in Bounds : ~(<<m, k>> \in OpToRel(<, Nat))
  BY <1>1, NatLessThanWellFounded, WFMin
<1>3. \A m \in Bounds : ~(m < k)
  BY <1>1, <1>2 DEF OpToRel
<1>4. k \in S
  <2> SUFFICES ASSUME k \notin S PROVE FALSE
    OBVIOUS
  <2>1. \A x \in S : x \in Nat /\ x <= k /\ x # k
    OBVIOUS
  <2>2. PICK z \in S : TRUE
    OBVIOUS
  <2>3. k # 0 /\ k \in Nat
    BY <2>1, <2>2
  <2>4. k - 1 \in Nat /\ \A x \in S : x <= k - 1
    BY <2>1, <2>3
  <2> QED
    BY <1>3, <2>3, <2>4
<1> QED
  BY <1>4 DEF Max

\* The day a drill is due is a day.
LEMMA DrillAtIsDay == BackupsAreTyped => DrillAt \in Nat
<1> SUFFICES ASSUME BackupsAreTyped PROVE DrillAt \in Nat
  OBVIOUS
<1> DEFINE n == MaxNow + DrillInterval
           S == {ledger[r].drillFinished + DrillInterval : r \in Drilled} \cup {0}
<1>1. MaxNow \in Nat /\ DrillInterval \in Nat /\ n \in Nat
  BY BackupAssumption
<1>2. \A r \in Drilled : ledger[r].drillFinished \in 0 .. MaxNow
  BY DEF Drilled, Begun, BackupsAreTyped, Rows
<1>3. S \in SUBSET (0 .. n) /\ S # {}
  <2>1. \A r \in Drilled : ledger[r].drillFinished + DrillInterval \in 0 .. n
    BY <1>1, <1>2
  <2>2. 0 \in 0 .. n
    BY <1>1
  <2> HIDE DEF n
  <2> QED
    BY <2>1, <2>2
<1>4. Max(S) \in S
  <2> HIDE DEF S, n
  <2> QED
    BY <1>1, <1>3, MaxIsMember
<1> HIDE DEF S, n
<1>5. Max(S) \in 0 .. n
  BY <1>3, <1>4
<1> QED
  BY <1>1, <1>5 DEF DrillAt, S

\* The run that begins is the first that has not begun.
LEMMA NextRun ==
    ASSUME BackupsAreTyped, RunsAreOwned, Begun # Runs
    PROVE  /\ Cardinality(Begun) + 1 \in Runs /\ Cardinality(Begun) + 1 \notin Begun
           /\ Begun \cup {Cardinality(Begun) + 1} = 1 .. (Cardinality(Begun) + 1)
<1>1. PICK n \in 0 .. MaxRuns : Begun = 1 .. n
  BY DEF RunsAreOwned
<1>2. n \in Nat /\ MaxRuns \in Nat /\ n <= MaxRuns /\ n # MaxRuns
  BY <1>1, BackupAssumption DEF Runs
<1>3. Cardinality(Begun) = n
  BY <1>1, <1>2, FS_Interval
<1> QED
  BY <1>1, <1>2, <1>3 DEF Runs

-----------------------------------------------------------------------------
(* Steps of one invocation *)

Stages == {"idle", "canary", "dump", "homes", "settle", "drill", "restore", "drilled", "undrilled",
           "fail", "unlock"}
\* The rest of the state that a step of invocation j may not disturb by itself.
Elsewhere(j) ==
    /\ backup' \in [Jobs -> Invocations] /\ \A i \in Jobs : i # j => backup'[i] = backup[i]
    /\ UNCHANGED <<homes, alerts, announced, now>> /\ faults' \in 0 .. MaxFaults

LEMMA StepFacts ==
    ASSUME BackupsAreTyped, NEW j \in Jobs, NEW pc \in Stages, Step(j, pc)
    PROVE  /\ backup' \in [Jobs -> Invocations] /\ backup'[j] \in Invocations
           /\ backup'[j].pc = pc /\ backup'[j].run = backup[j].run
           /\ backup'[j].bound = backup[j].bound /\ backup'[j].todo = backup[j].todo
           /\ \A i \in Jobs : i # j => backup'[i] = backup[i]
BY DEF BackupsAreTyped, Step, Invocations, Stages

LEMMA FaultFacts ==
    ASSUME BackupsAreTyped
    PROVE  Fault => faults' \in 0 .. MaxFaults
BY BackupAssumption DEF BackupsAreTyped, Fault

\* What was said of an archive and a ledger that stay holds of them still.
LEMMA ClaimsStay ==
    ASSUME BackupInv, UNCHANGED <<ledger, archive>>
    PROVE  /\ Begun' = Begun /\ Dumps' = Dumps /\ AlwaysRestorable' /\ SuccessIsReal'
           /\ \A r : Sound(r)' <=> Sound(r)
<1>1. Begun' = Begun /\ Dumps' = Dumps
  BY DEF Begun, Dumps
<1>2. AlwaysRestorable /\ SuccessIsReal
  BY DEF BackupInv
<1>3. AlwaysRestorable' /\ SuccessIsReal'
  BY <1>1, <1>2 DEF AlwaysRestorable, SuccessIsReal
<1> QED
  BY <1>1, <1>3 DEF Sound

LEMMA AlertsStay ==
    ASSUME BackupInv, UNCHANGED <<alerts, announced>>
    PROVE  LastIsClaimed' /\ NoEcho'
BY DEF BackupInv, LastIsClaimed, NoEcho

\* An invocation that only moves on, or ends, disturbs no other.
LEMMA MoveOnKeeps ==
    ASSUME BackupInv, NEW j \in Jobs, UNCHANGED <<ledger, archive, canary>>, Elsewhere(j),
           Underway(j)' => Underway(j) /\ backup'[j].run = backup[j].run,
           backup'[j].bound => backup[j].bound /\ Underway(j)',
           lock' = lock \/ (backup[j].bound /\ ~backup'[j].bound /\ lock' = Nobody),
           StageIsKept(j)'
    PROVE  BackupInv'
<1>1. BackupsAreTyped /\ RunsAreOwned /\ \A i \in Jobs : StageIsKept(i)
  BY DEF BackupInv
<1>2. BackupsAreTyped'
  BY <1>1 DEF BackupsAreTyped, Elsewhere
<1>3. /\ Begun' = Begun /\ Dumps' = Dumps /\ AlwaysRestorable' /\ SuccessIsReal'
      /\ \A r : Sound(r)' <=> Sound(r)
  BY ClaimsStay
<1>4. LastIsClaimed' /\ NoEcho'
  BY AlertsStay DEF Elsewhere
<1>5. \A i \in Jobs : StageIsKept(i)'
  <2>1. ASSUME NEW i \in Jobs, i # j PROVE StageIsKept(i)'
    <3>1. backup'[i] = backup[i] /\ StageIsKept(i)
      BY <1>1, <2>1 DEF Elsewhere
    <3>2. OwnDump(i)' <=> OwnDump(i)
      BY <1>3, <3>1 DEF OwnDump
    <3>3. Sound(backup[i].run)' <=> Sound(backup[i].run)
      BY <1>3, <3>1 DEF Sound
    <3> QED
      BY <3>1, <3>2, <3>3 DEF StageIsKept
  <2> QED
    BY <2>1
<1>6. RunsAreOwned'
  <2>1. \A i \in Jobs : Underway(i)' => Underway(i) /\ backup'[i].run = backup[i].run
    BY DEF Elsewhere, Underway
  <2>2. ASSUME NEW i \in Jobs, backup'[i].bound PROVE lock' = i /\ Underway(i)'
    <3>1. CASE i = j
      BY <1>1, <2>2, <3>1 DEF RunsAreOwned
    <3>2. CASE i # j
      <4>1. backup'[i] = backup[i] /\ backup[i].bound
        BY <2>2, <3>2 DEF Elsewhere
      <4>2. lock = i /\ Underway(i)
        BY <1>1, <4>1 DEF RunsAreOwned
      <4>3. ~backup[j].bound
        BY <1>1, <3>2, <4>2 DEF RunsAreOwned
      <4> QED
        BY <4>1, <4>2, <4>3 DEF Underway
    <3> QED
      BY <3>1, <3>2
  <2>3. \A i \in Jobs : Underway(i)' =>
          /\ backup'[i].run \in Begun /\ ledger[backup'[i].run].started <= now
          /\ now <= ledger[backup'[i].run].started + RunLength
    BY <1>1, <2>1 DEF RunsAreOwned
  <2>4. \A h, i \in Jobs : Underway(h)' /\ Underway(i)' /\ h # i => backup'[h].run # backup'[i].run
    BY <1>1, <2>1 DEF RunsAreOwned
  <2>5. /\ \E n \in 0 .. MaxRuns : Begun = 1 .. n
        /\ \A r \in Runs : ledger[r].status = "none" => ledger[r].drill = "none"
        /\ \A o \in archive : o.run \in Begun
    BY <1>1 DEF RunsAreOwned
  <2> QED
    BY <1>3, <2>2, <2>3, <2>4, <2>5 DEF RunsAreOwned, Elsewhere
<1> QED
  BY <1>2, <1>3, <1>4, <1>5, <1>6 DEF BackupInv

\* An invocation that writes its own row disturbs no other.
LEMMA RowKeeps ==
    ASSUME BackupInv, NEW j \in Jobs, UNCHANGED <<archive, canary, lock>>, Elsewhere(j),
           Underway(j), Underway(j)', backup'[j].run = backup[j].run,
           backup'[j].bound = backup[j].bound,
           NEW entry \in Rows, ledger' = [ledger EXCEPT ![backup[j].run] = entry],
           entry.status # "none", entry.started = ledger[backup[j].run].started,
           entry.status = "succeeded" \/ entry.drill = "succeeded" => Sound(backup[j].run),
           entry.status = "succeeded" \/ entry.drill # "none" => \E o \in Dumps : o.whole,
           StageIsKept(j)'
    PROVE  BackupInv'
<1>1. BackupsAreTyped /\ RunsAreOwned /\ AlwaysRestorable /\ SuccessIsReal /\ \A i \in Jobs : StageIsKept(i)
  BY DEF BackupInv
<1> DEFINE r == backup[j].run
<1>2. r \in Begun /\ r \in Runs /\ ledger[r].status # "none"
  BY <1>1 DEF RunsAreOwned, Begun
<1>3. ledger' \in [Runs -> Rows] /\ ledger'[r] = entry /\ \A q \in Runs : q # r => ledger'[q] = ledger[q]
  BY <1>1, <1>2 DEF BackupsAreTyped
<1> HIDE DEF r
<1>4. BackupsAreTyped'
  BY <1>1, <1>3 DEF BackupsAreTyped, Elsewhere
<1>5. Begun' = Begun /\ Dumps' = Dumps /\ \A q \in Runs : ledger'[q].started = ledger[q].started
  BY <1>2, <1>3 DEF Begun, Dumps, r
<1>6. \A q : Sound(q)' <=> Sound(q)
  BY <1>5 DEF Sound
<1>7. \A q \in Begun : q \in Runs
  BY DEF Begun
<1>8. AlwaysRestorable'
  <2>1. SUFFICES ASSUME NEW q \in Begun, ledger'[q].drill # "none" \/ ledger'[q].status = "succeeded"
                 PROVE  \E o \in Dumps : o.whole
    BY <1>5 DEF AlwaysRestorable
  <2>2. CASE q = r
    BY <1>3, <2>1, <2>2
  <2>3. CASE q # r
    BY <1>1, <1>3, <1>7, <2>1, <2>3 DEF AlwaysRestorable
  <2> QED
    BY <2>2, <2>3
<1>9. SuccessIsReal'
  <2>1. SUFFICES ASSUME NEW q \in Begun, ledger'[q].status = "succeeded" \/ ledger'[q].drill = "succeeded"
                 PROVE  Sound(q)
    BY <1>5 DEF SuccessIsReal, Sound
  <2>2. CASE q = r
    BY <1>3, <2>1, <2>2 DEF r
  <2>3. CASE q # r
    BY <1>1, <1>3, <1>7, <2>1, <2>3 DEF SuccessIsReal, Sound
  <2> QED
    BY <2>2, <2>3
<1>10. \A i \in Jobs : StageIsKept(i)'
  <2>1. ASSUME NEW i \in Jobs, i # j PROVE StageIsKept(i)'
    <3>1. backup'[i] = backup[i] /\ StageIsKept(i)
      BY <1>1, <2>1 DEF Elsewhere
    <3>2. CASE ~Underway(i)
      BY <3>1, <3>2 DEF StageIsKept, Underway
    <3>3. CASE Underway(i)
      <4>1. backup[i].run # r /\ backup[i].run \in Runs
        BY <1>1, <1>7, <2>1, <3>3 DEF RunsAreOwned, r
      <4>2. ledger'[backup[i].run] = ledger[backup[i].run]
        BY <1>3, <4>1
      <4>3. OwnDump(i)' <=> OwnDump(i)
        <5>1. \A o \in Dumps : o.run = backup[i].run => ledger'[o.run].started = ledger[o.run].started
          BY <4>2
        <5> QED
          BY <1>5, <3>1, <5>1 DEF OwnDump
      <4>4. Sound(backup[i].run)' <=> Sound(backup[i].run)
        BY <1>5, <3>1 DEF Sound
      <4> QED
        BY <3>1, <4>2, <4>3, <4>4 DEF StageIsKept
    <3> QED
      BY <3>2, <3>3
  <2> QED
    BY <2>1
<1>11. RunsAreOwned'
  <2>1. \A i \in Jobs : /\ Underway(i)' <=> Underway(i)
                        /\ backup'[i].run = backup[i].run /\ backup'[i].bound = backup[i].bound
    BY DEF Elsewhere, Underway
  <2>2. \A i \in Jobs : Underway(i)' =>
          /\ backup'[i].run \in Begun /\ ledger'[backup'[i].run].started <= now
          /\ now <= ledger'[backup'[i].run].started + RunLength
    BY <1>1, <1>5, <1>7, <2>1 DEF RunsAreOwned
  <2>3. now' = now
    BY DEF Elsewhere
  <2> QED
    BY <1>1, <1>5, <2>1, <2>2, <2>3 DEF RunsAreOwned
<1> QED
  BY <1>4, <1>8, <1>9, <1>10, <1>11, AlertsStay DEF BackupInv, Elsewhere

-----------------------------------------------------------------------------
(* Ends, failures and the drill *)

\* Failures, lost connections, ends and kills.
LEMMA EndsKeep ==
    ASSUME BackupInv, NEW j \in Jobs,
           StepFails(j) \/ LoseConnection(j) \/ Unbound(j) \/ Unlock(j) \/ Killed(j)
    PROVE  BackupInv'
<1>1. BackupsAreTyped /\ StageIsKept(j) /\ backup[j] \in Invocations
  BY DEF BackupInv, BackupsAreTyped
<1>2. /\ UNCHANGED <<ledger, archive, canary, homes, alerts, announced, now>>
      /\ faults' = faults \/ Fault
  BY DEF StepFails, LoseConnection, Unbound, Unlock, Killed
<1>3. faults' \in 0 .. MaxFaults
  BY <1>1, <1>2, FaultFacts DEF BackupsAreTyped
<1>4. backup[j].bound => Underway(j) /\ lock = j
  BY DEF BackupInv, RunsAreOwned
<1>5. CASE StepFails(j)
  <2>1. PICK pc \in {"undrilled", "fail"} :
          Step(j, pc) /\ (pc = "undrilled" => backup[j].pc = "drilled")
    BY <1>5 DEF StepFails
  <2>2. /\ backup' \in [Jobs -> Invocations]
        /\ backup'[j].pc = pc /\ backup'[j].run = backup[j].run /\ backup'[j].bound = backup[j].bound
        /\ \A i \in Jobs : i # j => backup'[i] = backup[i]
    BY <1>1, <2>1, StepFacts DEF Stages
  <2>3. backup[j].pc # "idle" /\ lock' = lock
    BY <1>5 DEF StepFails
  <2>4. StageIsKept(j)'
    BY <1>1, <1>2, <2>1, <2>2 DEF StageIsKept
  <2> QED
    BY <1>2, <1>3, <1>4, <2>2, <2>3, <2>4, MoveOnKeeps DEF Elsewhere, Underway
<1>6. CASE LoseConnection(j)
  <2>1. /\ backup[j].bound /\ lock' = Nobody /\ backup' = [backup EXCEPT ![j].bound = FALSE]
    BY <1>6 DEF LoseConnection
  <2>2. /\ backup' \in [Jobs -> Invocations]
        /\ backup'[j].pc = backup[j].pc /\ backup'[j].run = backup[j].run /\ ~backup'[j].bound
        /\ \A i \in Jobs : i # j => backup'[i] = backup[i]
    BY <1>1, <2>1 DEF BackupsAreTyped, Invocations
  <2>3. OwnDump(j)' <=> OwnDump(j)
    BY <1>2, <2>2 DEF OwnDump, Dumps
  <2>4. StageIsKept(j)'
    BY <1>1, <1>2, <2>2, <2>3 DEF StageIsKept
  <2> QED
    BY <1>2, <1>3, <1>4, <2>1, <2>2, <2>4, MoveOnKeeps DEF Elsewhere, Underway
<1>7. CASE Unbound(j)
  <2>1. ~backup[j].bound /\ lock' = lock /\ Underway(j)
    BY <1>7 DEF Unbound, Underway
  <2>2. backup' = [backup EXCEPT ![j] = NoBackup] \/ Step(j, "fail")
    BY <1>1, <1>7 DEF Unbound, Step, BackupsAreTyped
  <2>3. CASE backup' = [backup EXCEPT ![j] = NoBackup]
    <3>1. NoBackup \in Invocations /\ NoBackup.pc = "idle" /\ ~NoBackup.bound
      BY BackupAssumption DEF NoBackup, Invocations
    <3>2. backup' \in [Jobs -> Invocations] /\ backup'[j] = NoBackup /\ \A i \in Jobs : i # j => backup'[i] = backup[i]
      BY <1>1, <2>3, <3>1 DEF BackupsAreTyped
    <3>3. StageIsKept(j)'
      BY <3>1, <3>2 DEF StageIsKept
    <3> QED
      BY <1>2, <1>3, <2>1, <3>1, <3>2, <3>3, MoveOnKeeps DEF Elsewhere, Underway
  <2>4. CASE Step(j, "fail")
    <3>1. /\ backup' \in [Jobs -> Invocations]
          /\ backup'[j].pc = "fail" /\ backup'[j].run = backup[j].run /\ backup'[j].bound = backup[j].bound
          /\ \A i \in Jobs : i # j => backup'[i] = backup[i]
      BY <1>1, <2>4, StepFacts DEF Stages
    <3>2. StageIsKept(j)'
      BY <3>1 DEF StageIsKept
    <3> QED
      BY <1>2, <1>3, <2>1, <3>1, <3>2, MoveOnKeeps DEF Elsewhere, Underway
  <2> QED
    BY <2>2, <2>3, <2>4
<1>8. CASE Unlock(j) \/ Killed(j)
  <2>1. /\ backup' = [backup EXCEPT ![j] = NoBackup]
        /\ lock' = lock \/ (backup[j].bound /\ lock' = Nobody)
    BY <1>8 DEF Unlock, Killed
  <2>2. NoBackup \in Invocations /\ NoBackup.pc = "idle" /\ ~NoBackup.bound
    BY BackupAssumption DEF NoBackup, Invocations
  <2>3. backup' \in [Jobs -> Invocations] /\ backup'[j] = NoBackup /\ \A i \in Jobs : i # j => backup'[i] = backup[i]
    BY <1>1, <2>1, <2>2 DEF BackupsAreTyped
  <2>4. StageIsKept(j)'
    BY <2>2, <2>3 DEF StageIsKept
  <2> QED
    BY <1>2, <1>3, <2>1, <2>2, <2>3, <2>4, MoveOnKeeps DEF Elsewhere, Underway
<1> QED
  BY <1>5, <1>6, <1>7, <1>8

LEMMA RestoreKeeps ==
    ASSUME BackupInv, NEW j \in Jobs, Restore(j)
    PROVE  BackupInv'
<1>1. BackupsAreTyped /\ StageIsKept(j) /\ (backup[j].bound => Underway(j))
  BY DEF BackupInv, RunsAreOwned
<1>2. /\ UNCHANGED <<ledger, archive, canary, homes, lock, alerts, announced, now>>
      /\ faults' = faults \/ Fault
      /\ backup[j].pc = "restore"
  BY DEF Restore
<1>3. faults' \in 0 .. MaxFaults
  BY <1>1, <1>2, FaultFacts DEF BackupsAreTyped
<1>4. PICK pc \in {"drilled", "undrilled"} : Step(j, pc)
  BY DEF Restore
<1>5. /\ backup' \in [Jobs -> Invocations]
      /\ backup'[j].pc = pc /\ backup'[j].run = backup[j].run /\ backup'[j].bound = backup[j].bound
      /\ \A i \in Jobs : i # j => backup'[i] = backup[i]
  BY <1>1, <1>4, StepFacts DEF Stages
<1>6. StageIsKept(j)'
  BY <1>1, <1>2, <1>5 DEF StageIsKept
<1> QED
  BY <1>1, <1>2, <1>3, <1>5, <1>6, MoveOnKeeps DEF Elsewhere, Underway

\* The statements that write a run's row go by whoever holds the lock.
LEMMA SettleKeeps ==
    ASSUME BackupInv, NEW j \in Jobs,
           SettleSucceeded(j) \/ SettleFailed(j) \/ BeginDrill(j) \/ SettleDrill(j)
    PROVE  BackupInv'
<1>1. /\ BackupsAreTyped /\ RunsAreOwned /\ AlwaysRestorable /\ SuccessIsReal /\ StageIsKept(j)
      /\ backup[j].bound
  BY DEF BackupInv, SettleSucceeded, SettleFailed, BeginDrill, SettleDrill
<1> DEFINE r == backup[j].run
<1>2. /\ UNCHANGED <<archive, canary, homes, lock, alerts, announced, now>>
      /\ faults' = faults \/ Fault
  BY DEF SettleSucceeded, SettleFailed, BeginDrill, SettleDrill
<1>3. faults' \in 0 .. MaxFaults
  BY <1>1, <1>2, FaultFacts DEF BackupsAreTyped
<1>4. r \in Runs /\ r \in Begun /\ ledger[r] \in Rows /\ ledger[r].status # "none" /\ now \in 0 .. MaxNow
  BY <1>1 DEF RunsAreOwned, Begun, BackupsAreTyped
<1>5. ledger[r].status = "succeeded" => Sound(r) /\ \E o \in Dumps : o.whole
  BY <1>1, <1>4 DEF AlwaysRestorable, SuccessIsReal, Sound
<1>6. ledger[r].drill = "succeeded" => Sound(r)
  BY <1>1, <1>4 DEF SuccessIsReal, Sound
<1>7. ledger[r].drill # "none" => \E o \in Dumps : o.whole
  BY <1>1, <1>4 DEF AlwaysRestorable
<1>8. ASSUME NEW pc \in Stages \ {"idle"}, Step(j, pc)
      PROVE  /\ Elsewhere(j) /\ Underway(j) /\ Underway(j)' /\ backup'[j].pc = pc
             /\ backup'[j].run = r /\ backup'[j].bound = backup[j].bound
  <2>1. /\ backup' \in [Jobs -> Invocations]
        /\ backup'[j].pc = pc /\ backup'[j].run = backup[j].run /\ backup'[j].bound = backup[j].bound
        /\ \A i \in Jobs : i # j => backup'[i] = backup[i]
    BY <1>1, <1>8, StepFacts
  <2>2. Underway(j)
    BY <1>1 DEF RunsAreOwned
  <2> QED
    BY <1>2, <1>3, <1>8, <2>1, <2>2 DEF Elsewhere, Underway
<1>9. CASE SettleSucceeded(j)
  <2> DEFINE entry == [ledger[r] EXCEPT !.status = "succeeded", !.finished = now]
  <2>1. entry \in Rows /\ entry.status = "succeeded" /\ entry.started = ledger[r].started /\ entry.drill = ledger[r].drill
    BY <1>4 DEF Rows
  <2>2. ledger' = [ledger EXCEPT ![r] = entry] /\ backup[j].pc = "settle"
    BY <1>1, <1>4, <1>9 DEF SettleSucceeded, BackupsAreTyped
  <2> HIDE DEF entry
  <2>3. PICK pc \in {"drill", "unlock", "fail"} : Step(j, pc)
    BY <1>9 DEF SettleSucceeded
  <2>4. Sound(r) /\ \E o \in Dumps : o.whole
    BY <1>1, <2>2 DEF StageIsKept, OwnDump
  <2>5. ledger'[r].status = "succeeded"
    BY <1>1, <1>4, <2>1, <2>2 DEF BackupsAreTyped
  <2>6. /\ Elsewhere(j) /\ Underway(j) /\ Underway(j)' /\ backup'[j].pc = pc
        /\ backup'[j].run = r /\ backup'[j].bound = backup[j].bound
    BY <1>8, <2>3 DEF Stages
  <2>7. StageIsKept(j)'
    BY <2>5, <2>6 DEF StageIsKept
  <2> QED
    BY <1>2, <2>1, <2>2, <2>4, <2>6, <2>7, RowKeeps
<1>10. CASE SettleFailed(j)
  <2> DEFINE entry == [ledger[r] EXCEPT !.status = "failed", !.finished = now]
  <2>1. entry \in Rows /\ entry.status = "failed" /\ entry.started = ledger[r].started /\ entry.drill = ledger[r].drill
    BY <1>4 DEF Rows
  <2>2. ledger' = [ledger EXCEPT ![r] = entry] /\ Step(j, "unlock")
    BY <1>1, <1>4, <1>10 DEF SettleFailed, BackupsAreTyped
  <2> HIDE DEF entry
  <2>3. /\ Elsewhere(j) /\ Underway(j) /\ Underway(j)' /\ backup'[j].pc = "unlock"
        /\ backup'[j].run = r /\ backup'[j].bound = backup[j].bound
    BY <1>8, <2>2 DEF Stages
  <2>4. StageIsKept(j)'
    BY <2>3 DEF StageIsKept
  <2> QED
    BY <1>2, <1>6, <1>7, <2>1, <2>2, <2>3, <2>4, RowKeeps
<1>11. CASE BeginDrill(j)
  <2> DEFINE entry == [ledger[r] EXCEPT !.drill = "running", !.drillStarted = now]
  <2>1. entry \in Rows /\ entry.drill = "running" /\ entry.started = ledger[r].started /\ entry.status = ledger[r].status
    BY <1>4 DEF Rows
  <2>2. ledger' = [ledger EXCEPT ![r] = entry] /\ Step(j, "restore") /\ ledger[r].status = "succeeded"
    BY <1>1, <1>4, <1>11 DEF BeginDrill, BackupsAreTyped
  <2> HIDE DEF entry
  <2>3. /\ Elsewhere(j) /\ Underway(j) /\ Underway(j)' /\ backup'[j].pc = "restore"
        /\ backup'[j].run = r /\ backup'[j].bound = backup[j].bound
    BY <1>8, <2>2 DEF Stages
  <2>4. ledger'[r].status = "succeeded"
    BY <1>1, <1>4, <2>1, <2>2 DEF BackupsAreTyped
  <2>5. StageIsKept(j)'
    BY <2>3, <2>4 DEF StageIsKept
  <2> QED
    BY <1>2, <1>5, <2>1, <2>2, <2>3, <2>5, RowKeeps
<1>12. CASE SettleDrill(j)
  <2>1. PICK d \in {"succeeded", "failed"} :
          ledger' = [ledger EXCEPT ![r].drill = d, ![r].drillFinished = now]
    BY <1>12 DEF SettleDrill
  <2> DEFINE entry == [ledger[r] EXCEPT !.drill = d, !.drillFinished = now]
  <2>2. entry \in Rows /\ entry.drill = d /\ entry.started = ledger[r].started /\ entry.status = ledger[r].status
    BY <1>4 DEF Rows
  <2>3. ledger' = [ledger EXCEPT ![r] = entry]
    BY <1>1, <1>4, <2>1 DEF BackupsAreTyped
  <2> HIDE DEF entry
  <2>4. ledger[r].status = "succeeded"
    BY <1>1, <1>12 DEF SettleDrill, StageIsKept
  <2>5. PICK pc \in {"unlock", "fail"} : Step(j, pc)
    BY <1>12 DEF SettleDrill
  <2>6. /\ Elsewhere(j) /\ Underway(j) /\ Underway(j)' /\ backup'[j].pc = pc
        /\ backup'[j].run = r /\ backup'[j].bound = backup[j].bound
    BY <1>8, <2>5 DEF Stages
  <2>7. StageIsKept(j)'
    BY <2>6 DEF StageIsKept
  <2> QED
    BY <1>2, <1>5, <2>2, <2>3, <2>4, <2>6, <2>7, RowKeeps
<1> QED
  BY <1>9, <1>10, <1>11, <1>12

-----------------------------------------------------------------------------
(* What is stored and what is removed *)

\* An invocation stores objects under its own run only, and its retention pass removes objects
\* too old to be those of a run that is still under way.
LEMMA ArchiveKeeps ==
    ASSUME BackupInv, NEW j \in Jobs, UNCHANGED <<ledger, canary, lock>>, Elsewhere(j),
           backup[j].pc \in {"dump", "homes"}, Underway(j)', backup'[j].run = backup[j].run,
           backup'[j].bound = backup[j].bound, archive' \in SUBSET Objects,
           \A o \in archive' : o \in archive \/ o.run = backup[j].run,
           \A o \in archive : o \in archive' \/ o.at + RetentionDays < now,
           (\E o \in Dumps : o.whole) => (\E o \in Dumps' : o.whole),
           StageIsKept(j)'
    PROVE  BackupInv'
<1>1. BackupsAreTyped /\ RunsAreOwned /\ AlwaysRestorable /\ SuccessIsReal /\ \A i \in Jobs : StageIsKept(i)
  BY DEF BackupInv
<1>2. BackupsAreTyped'
  BY <1>1 DEF BackupsAreTyped, Elsewhere
<1>3. Begun' = Begun /\ now' = now
  BY DEF Begun, Elsewhere
<1>4. backup[j].run \in Begun /\ Underway(j)
  BY <1>1 DEF RunsAreOwned, Underway
<1>5. ledger[backup[j].run].status = "running" /\ ledger[backup[j].run].drill = "none"
  BY <1>1 DEF StageIsKept
<1>6. AlwaysRestorable'
  BY <1>1, <1>3 DEF AlwaysRestorable
<1>7. \A o \in Dumps' : o \in Dumps \/ o.run = backup[j].run
  BY DEF Dumps
<1>8. SuccessIsReal'
  <2>1. SUFFICES ASSUME NEW r \in Begun, ledger[r].status = "succeeded" \/ ledger[r].drill = "succeeded",
                        NEW o \in Dumps', o.run = r
                 PROVE  o.whole /\ o.canary = r
    BY <1>3 DEF SuccessIsReal
  <2>2. o \in Dumps
    BY <1>5, <1>7, <2>1
  <2> QED
    BY <1>1, <2>1, <2>2 DEF SuccessIsReal
<1>9. \A i \in Jobs : StageIsKept(i)'
  <2>1. ASSUME NEW i \in Jobs, i # j PROVE StageIsKept(i)'
    <3>1. backup'[i] = backup[i] /\ StageIsKept(i)
      BY <1>1, <2>1 DEF Elsewhere
    <3>2. CASE ~Underway(i)
      BY <3>1, <3>2 DEF StageIsKept, Underway
    <3>3. CASE Underway(i)
      <4>1. /\ backup[i].run # backup[j].run /\ backup[i].run \in Runs
            /\ now <= ledger[backup[i].run].started + RunLength
        BY <1>1, <1>4, <2>1, <3>3 DEF RunsAreOwned, Begun
      <4>2. ledger[backup[i].run].started \in Nat /\ now \in Nat /\ RunLength \in Nat
            /\ RetentionDays \in Nat /\ RunLength <= RetentionDays
        BY <1>1, <4>1, BackupAssumption DEF BackupsAreTyped, Rows
      <4>3. (\A o \in archive : o.run # backup[i].run) => \A o \in archive' : o.run # backup[i].run
        BY <4>1
      <4>4. Sound(backup[i].run) => Sound(backup[i].run)'
        BY <1>7, <3>1, <4>1 DEF Sound
      <4>5. OwnDump(i) => OwnDump(i)'
        <5>1. SUFFICES ASSUME NEW o \in Dumps, o.run = backup[i].run, o.whole, ledger[o.run].started <= o.at
                       PROVE  OwnDump(i)'
          BY DEF OwnDump
        <5>2. o \in archive /\ o.what = "dump" /\ o.at \in Nat
          BY <1>1, <5>1, BackupAssumption DEF Dumps, BackupsAreTyped, Objects
        <5>3. ~(o.at + RetentionDays < now)
          BY <4>1, <4>2, <5>1, <5>2
        <5>4. o \in Dumps'
          BY <5>2, <5>3 DEF Dumps
        <5> QED
          BY <3>1, <5>1, <5>4 DEF OwnDump
      <4> QED
        BY <3>1, <4>3, <4>4, <4>5 DEF StageIsKept
    <3> QED
      BY <3>2, <3>3
  <2> QED
    BY <2>1
<1>10. RunsAreOwned'
  <2>1. \A i \in Jobs : /\ Underway(i)' <=> Underway(i)
                        /\ backup'[i].run = backup[i].run /\ backup'[i].bound = backup[i].bound
    BY <1>4 DEF Elsewhere, Underway
  <2>2. \A o \in archive' : o.run \in Begun
    BY <1>1, <1>4 DEF RunsAreOwned
  <2> QED
    BY <1>1, <1>3, <2>1, <2>2 DEF RunsAreOwned
<1> QED
  BY <1>2, <1>6, <1>8, <1>9, <1>10, AlertsStay DEF BackupInv, Elsewhere

LEMMA DumpKeeps ==
    ASSUME BackupInv, NEW j \in Jobs, Dump(j)
    PROVE  BackupInv'
<1>1. /\ BackupsAreTyped /\ RunsAreOwned /\ StageIsKept(j) /\ backup[j].pc = "dump"
      /\ UNCHANGED <<ledger, canary, homes, lock, alerts, announced, now>>
  BY DEF BackupInv, Dump
<1>2. PICK whole \in BOOLEAN :
        /\ archive' = archive \cup {DumpOf(backup[j].run, whole)}
        /\ \/ whole /\ backup' = [backup EXCEPT ![j].pc = "homes", ![j].todo = homes] /\ faults' = faults
           \/ Fault /\ Step(j, "fail")
  BY DEF Dump
<1>3. /\ backup[j].run \in Runs /\ ledger[backup[j].run].started <= now
      /\ ledger[backup[j].run].status = "running" /\ ledger[backup[j].run].drill = "none"
  BY <1>1 DEF RunsAreOwned, Begun, Underway, StageIsKept
<1> DEFINE d == DumpOf(backup[j].run, whole)
<1>4. d \in Objects /\ d.run = backup[j].run /\ d.what = "dump" /\ d.at = now /\ d.canary = canary /\ d.whole = whole
  BY <1>1, <1>3 DEF DumpOf, Objects, BackupsAreTyped
<1> HIDE DEF d
<1>5. archive' = archive \cup {d}
  BY <1>2 DEF d
<1>6. Dumps' = Dumps \cup {d}
  BY <1>4, <1>5 DEF Dumps
<1>7. /\ Elsewhere(j) /\ backup'[j].run = backup[j].run /\ backup'[j].bound = backup[j].bound
      /\ backup'[j].pc = "fail" \/ (whole /\ backup'[j].pc = "homes")
  <2>1. CASE whole /\ backup' = [backup EXCEPT ![j].pc = "homes", ![j].todo = homes] /\ faults' = faults
    <3>1. /\ backup' \in [Jobs -> Invocations]
          /\ backup'[j].pc = "homes" /\ backup'[j].run = backup[j].run /\ backup'[j].bound = backup[j].bound
          /\ \A i \in Jobs : i # j => backup'[i] = backup[i]
      <4> DEFINE b == [backup[j] EXCEPT !.pc = "homes", !.todo = homes]
      <4>1. backup \in [Jobs -> Invocations] /\ backup[j] \in Invocations /\ homes \in SUBSET Homes
        BY <1>1 DEF BackupsAreTyped
      <4>2. b \in Invocations /\ b.pc = "homes" /\ b.run = backup[j].run /\ b.bound = backup[j].bound
        BY <4>1 DEF Invocations
      <4>3. backup' = [backup EXCEPT ![j] = b]
        BY <2>1
      <4> HIDE DEF b
      <4> QED
        BY <4>1, <4>2, <4>3
    <3> QED
      BY <1>1, <2>1, <3>1 DEF Elsewhere, BackupsAreTyped
  <2>2. CASE Fault /\ Step(j, "fail")
    <3>1. /\ backup' \in [Jobs -> Invocations]
          /\ backup'[j].pc = "fail" /\ backup'[j].run = backup[j].run /\ backup'[j].bound = backup[j].bound
          /\ \A i \in Jobs : i # j => backup'[i] = backup[i]
      BY <1>1, <2>2, StepFacts DEF Stages
    <3> QED
      BY <1>1, <2>2, <3>1, FaultFacts DEF Elsewhere
  <2> QED
    BY <1>2, <2>1, <2>2
<1>8. StageIsKept(j)'
  <2>1. CASE backup'[j].pc = "fail"
    BY <2>1 DEF StageIsKept
  <2>2. CASE whole /\ backup'[j].pc = "homes"
    <3>1. OwnDump(j)'
      BY <1>1, <1>3, <1>4, <1>6, <1>7, <2>2 DEF OwnDump
    <3>2. backup[j].bound => canary = backup[j].run
      BY <1>1 DEF StageIsKept
    <3>3. \A o \in Dumps : o.run # backup[j].run
      BY <1>1 DEF StageIsKept, Dumps
    <3>4. backup[j].bound => Sound(backup[j].run)'
      BY <1>4, <1>6, <1>7, <2>2, <3>2, <3>3 DEF Sound
    <3> QED
      BY <1>1, <1>3, <1>7, <2>2, <3>1, <3>4 DEF StageIsKept
  <2> QED
    BY <1>7, <2>1, <2>2
<1>9. archive' \in SUBSET Objects
  BY <1>1, <1>4, <1>5 DEF BackupsAreTyped
<1> QED
  BY <1>1, <1>4, <1>5, <1>6, <1>7, <1>8, <1>9, ArchiveKeeps DEF Underway

LEMMA CopyHomeKeeps ==
    ASSUME BackupInv, NEW j \in Jobs, CopyHome(j)
    PROVE  BackupInv'
<1>1. /\ BackupsAreTyped /\ RunsAreOwned /\ StageIsKept(j) /\ backup[j].pc = "homes"
      /\ UNCHANGED <<ledger, canary, homes, lock, alerts, announced, now, faults>>
  BY DEF BackupInv, CopyHome
<1>2. PICK h \in backup[j].todo :
        /\ archive' = IF h \notin homes THEN archive
                      ELSE archive \cup {[run |-> backup[j].run, what |-> h, at |-> now,
                                          canary |-> 0, whole |-> TRUE]}
        /\ backup' = [backup EXCEPT ![j].todo = @ \ {h}]
  BY DEF CopyHome
<1>3. h \in Homes /\ h # "dump" /\ backup[j].run \in Runs
  BY <1>1, <1>2, BackupAssumption DEF BackupsAreTyped, Invocations, RunsAreOwned, Begun, Underway
<1>4. PICK new \in SUBSET Objects :
        archive' = archive \cup new /\ \A o \in new : o.run = backup[j].run /\ o.what # "dump"
  <2> DEFINE copy == [run |-> backup[j].run, what |-> h, at |-> now, canary |-> 0, whole |-> TRUE]
             new == IF h \notin homes THEN {} ELSE {copy}
  <2>1. copy \in Objects /\ copy.run = backup[j].run /\ copy.what # "dump"
    BY <1>1, <1>3, BackupAssumption DEF BackupsAreTyped, Objects
  <2>2. archive' = IF h \notin homes THEN archive ELSE archive \cup {copy}
    BY <1>2
  <2> HIDE DEF copy
  <2>3. new \in SUBSET Objects /\ \A o \in new : o.run = backup[j].run /\ o.what # "dump"
    BY <2>1
  <2>4. archive' = archive \cup new
    BY <2>2
  <2> HIDE DEF new
  <2> QED
    BY <2>3, <2>4
<1>5. Dumps' = Dumps
  BY <1>4 DEF Dumps
<1>6. /\ backup' \in [Jobs -> Invocations]
      /\ backup'[j].pc = "homes" /\ backup'[j].run = backup[j].run /\ backup'[j].bound = backup[j].bound
      /\ \A i \in Jobs : i # j => backup'[i] = backup[i]
  BY <1>1, <1>2 DEF BackupsAreTyped, Invocations
<1>7. Elsewhere(j)
  BY <1>1, <1>6 DEF Elsewhere, BackupsAreTyped
<1>8. OwnDump(j)' <=> OwnDump(j)
  BY <1>1, <1>5, <1>6 DEF OwnDump
<1>9. Sound(backup[j].run)' <=> Sound(backup[j].run)
  BY <1>5, <1>6 DEF Sound
<1>10. StageIsKept(j)'
  BY <1>1, <1>6, <1>8, <1>9 DEF StageIsKept
<1>11. archive' \in SUBSET Objects
  BY <1>1, <1>4 DEF BackupsAreTyped
<1> QED
  BY <1>1, <1>4, <1>5, <1>6, <1>7, <1>10, <1>11, ArchiveKeeps DEF Underway

LEMMA PruneKeeps ==
    ASSUME BackupInv, NEW j \in Jobs, Prune(j)
    PROVE  BackupInv'
<1>1. /\ BackupsAreTyped /\ RunsAreOwned /\ StageIsKept(j) /\ backup[j].pc = "homes"
      /\ UNCHANGED <<ledger, canary, homes, lock, alerts, announced, now>>
  BY DEF BackupInv, Prune
<1>2. PICK pruned \in SUBSET Expired(backup[j].run), pc \in {"settle", "fail"} :
        archive' = archive \ pruned /\ Step(j, pc) /\ (faults' = faults \/ Fault)
  BY DEF Prune
<1>3. \A o \in pruned : o.at + RetentionDays < now /\ o.run # backup[j].run
  BY <1>2 DEF Expired
<1>4. /\ backup' \in [Jobs -> Invocations]
      /\ backup'[j].pc = pc /\ backup'[j].run = backup[j].run /\ backup'[j].bound = backup[j].bound
      /\ \A i \in Jobs : i # j => backup'[i] = backup[i]
  BY <1>1, <1>2, StepFacts DEF Stages
<1>5. Elsewhere(j)
  BY <1>1, <1>2, <1>4, FaultFacts DEF Elsewhere, BackupsAreTyped
<1>6. OwnDump(j)'
  <2>1. PICK o \in Dumps : o.run = backup[j].run /\ o.whole /\ ledger[o.run].started <= o.at
    BY <1>1 DEF StageIsKept, OwnDump
  <2>2. o \in Dumps'
    BY <1>2, <1>3, <2>1 DEF Dumps
  <2> QED
    BY <1>1, <1>4, <2>1, <2>2 DEF OwnDump
<1>7. Sound(backup[j].run) => Sound(backup[j].run)'
  BY <1>2, <1>4 DEF Sound, Dumps
<1>8. StageIsKept(j)'
  BY <1>1, <1>2, <1>4, <1>6, <1>7 DEF StageIsKept
<1>9. \E o \in Dumps' : o.whole
  BY <1>6 DEF OwnDump
<1>10. archive' \in SUBSET Objects
  BY <1>1, <1>2 DEF BackupsAreTyped
<1> QED
  BY <1>1, <1>2, <1>3, <1>4, <1>5, <1>8, <1>9, <1>10, ArchiveKeeps DEF Underway

-----------------------------------------------------------------------------
(* Beginning, the canary and the world outside *)

LEMMA BeginRunKeeps ==
    ASSUME BackupInv, NEW j \in Jobs, BeginRun(j)
    PROVE  BackupInv'
<1>1. /\ BackupsAreTyped /\ RunsAreOwned /\ AlwaysRestorable /\ SuccessIsReal /\ \A i \in Jobs : StageIsKept(i)
      /\ backup[j].pc = "idle" /\ lock = Nobody /\ Begun # Runs /\ lock' = j
      /\ UNCHANGED <<canary, archive, homes, alerts, announced, now, faults>>
  BY DEF BackupInv, BeginRun
<1> DEFINE r == Cardinality(Begun) + 1
<1>2. r \in Runs /\ r \notin Begun /\ Begun \cup {r} = 1 .. r
  BY <1>1, NextRun
<1>3. PICK due \in {0, DrillAt} :
        /\ ledger' = [ledger EXCEPT ![r].status = "running", ![r].started = now]
        /\ backup' = [backup EXCEPT ![j] = [pc |-> "canary", run |-> r, bound |-> TRUE,
                                            drillAt |-> due, todo |-> {}]]
  BY DEF BeginRun
<1> HIDE DEF r
<1>4. due \in Nat /\ MaxRuns \in Nat /\ MaxNow \in Nat /\ RunLength \in Nat
  BY <1>1, <1>3, DrillAtIsDay, BackupAssumption
<1>5. /\ ledger' \in [Runs -> Rows] /\ ledger'[r].status = "running" /\ ledger'[r].started = now
      /\ ledger'[r].drill = ledger[r].drill /\ \A q \in Runs : q # r => ledger'[q] = ledger[q]
  <2> DEFINE e == [ledger[r] EXCEPT !.status = "running", !.started = now]
  <2>1. ledger \in [Runs -> Rows] /\ ledger[r] \in Rows /\ now \in 0 .. MaxNow
    BY <1>1, <1>2 DEF BackupsAreTyped
  <2>2. e \in Rows /\ e.status = "running" /\ e.started = now /\ e.drill = ledger[r].drill
    BY <2>1 DEF Rows
  <2>3. ledger' = [ledger EXCEPT ![r] = e]
    BY <1>3
  <2> HIDE DEF e
  <2> QED
    BY <1>2, <2>1, <2>2, <2>3
<1>6. ledger[r].status = "none"
  BY <1>2 DEF Begun
<1> DEFINE b == [pc |-> "canary", run |-> r, bound |-> TRUE, drillAt |-> due, todo |-> {}]
<1>7. b \in Invocations /\ b.pc = "canary" /\ b.run = r /\ b.bound
  <2>1. r \in 0 .. MaxRuns
    BY <1>2, <1>4 DEF Runs
  <2> QED
    BY <1>4, <2>1 DEF Invocations
<1>8. backup' = [backup EXCEPT ![j] = b]
  BY <1>3
<1> HIDE DEF b
<1>9. backup' \in [Jobs -> Invocations] /\ backup'[j] = b /\ \A i \in Jobs : i # j => backup'[i] = backup[i]
  BY <1>1, <1>7, <1>8 DEF BackupsAreTyped
<1>10. BackupsAreTyped'
  BY <1>1, <1>5, <1>9 DEF BackupsAreTyped
<1>11. Begun' = Begun \cup {r} /\ Dumps' = Dumps /\ now \in Nat
  <2>1. Begun' = Begun \cup {r}
    BY <1>2, <1>5, <1>6 DEF Begun
  <2> QED
    BY <1>1, <1>4, <2>1 DEF Dumps, BackupsAreTyped
<1>12. \A i \in Jobs : ~backup[i].bound
  BY <1>1, BackupAssumption DEF RunsAreOwned, Nobody
<1>13. \A q \in Begun : q \in Runs /\ q # r /\ ledger'[q] = ledger[q]
  BY <1>2, <1>5 DEF Begun
<1>14. ledger[r].drill = "none" /\ \A o \in archive : o.run # r
  <2>1. \A o \in archive : o.run # r
    BY <1>1, <1>2 DEF RunsAreOwned
  <2> QED
    BY <1>1, <1>2, <1>6, <2>1 DEF RunsAreOwned
<1>15. AlwaysRestorable'
  BY <1>1, <1>5, <1>11, <1>13, <1>14 DEF AlwaysRestorable
<1>16. SuccessIsReal'
  BY <1>1, <1>5, <1>11, <1>13, <1>14 DEF SuccessIsReal
<1>17. \A i \in Jobs : StageIsKept(i)'
  <2>1. ASSUME NEW i \in Jobs, i # j PROVE StageIsKept(i)'
    <3>1. backup'[i] = backup[i] /\ StageIsKept(i) /\ ~backup'[i].bound
      BY <1>1, <1>9, <1>12, <2>1
    <3>2. CASE ~Underway(i)
      BY <3>1, <3>2 DEF StageIsKept, Underway
    <3>3. CASE Underway(i)
      <4>1. ledger'[backup[i].run] = ledger[backup[i].run]
        BY <1>1, <1>13, <3>3 DEF RunsAreOwned
      <4>2. OwnDump(i)' <=> OwnDump(i)
        <5>1. \A o \in Dumps : o.run = backup[i].run => ledger'[o.run].started = ledger[o.run].started
          BY <4>1
        <5> QED
          BY <1>11, <3>1, <5>1 DEF OwnDump
      <4> QED
        BY <1>1, <3>1, <4>1, <4>2 DEF StageIsKept
    <3> QED
      BY <3>2, <3>3
  <2>2. StageIsKept(j)'
    BY <1>1, <1>5, <1>7, <1>9, <1>14 DEF StageIsKept
  <2> QED
    BY <2>1, <2>2
<1>18. RunsAreOwned'
  <2>1. \A i \in Jobs : i # j => /\ Underway(i)' <=> Underway(i)
                                 /\ backup'[i].run = backup[i].run /\ ~backup'[i].bound
    BY <1>9, <1>12 DEF Underway
  <2>2. \A i \in Jobs : i # j /\ Underway(i)' =>
          /\ backup'[i].run \in Begun /\ ledger'[backup'[i].run].started <= now
          /\ now <= ledger'[backup'[i].run].started + RunLength
    BY <1>1, <1>13, <2>1 DEF RunsAreOwned
  <2>3. Underway(j)' /\ backup'[j].run = r /\ ledger'[r].started <= now /\ now <= ledger'[r].started + RunLength
    BY <1>4, <1>5, <1>7, <1>9, <1>11 DEF Underway
  <2>4. \E n \in 0 .. MaxRuns : Begun' = 1 .. n
    <3>1. r \in 0 .. MaxRuns
      BY <1>2, <1>4 DEF Runs
    <3> QED
      BY <1>2, <1>11, <3>1
  <2>5. \A o \in archive' : o.run \in Begun'
    BY <1>1, <1>11 DEF RunsAreOwned
  <2>6. \A i \in Jobs : /\ Underway(i)' => /\ backup'[i].run \in Begun' /\ ledger'[backup'[i].run].started <= now'
                                           /\ now' <= ledger'[backup'[i].run].started + RunLength
                        /\ backup'[i].bound => lock' = i /\ Underway(i)'
    BY <1>1, <1>11, <2>1, <2>2, <2>3
  <2>7. \A h, i \in Jobs : Underway(h)' /\ Underway(i)' /\ h # i => backup'[h].run # backup'[i].run
    <3>1. ASSUME NEW h \in Jobs, NEW i \in Jobs, Underway(h)', Underway(i)', h # i
          PROVE  backup'[h].run # backup'[i].run
      <4>1. CASE h = j
        BY <1>13, <2>2, <2>3, <3>1, <4>1
      <4>2. CASE i = j
        BY <1>13, <2>2, <2>3, <3>1, <4>2
      <4>3. CASE h # j /\ i # j
        BY <1>1, <2>1, <3>1, <4>3 DEF RunsAreOwned
      <4> QED
        BY <4>1, <4>2, <4>3
    <3> QED
      BY <3>1
  <2>8. \A q \in Runs : ledger'[q].status = "none" => ledger'[q].drill = "none"
    BY <1>1, <1>5 DEF RunsAreOwned
  <2> QED
    BY <2>4, <2>5, <2>6, <2>7, <2>8 DEF RunsAreOwned
<1> QED
  BY <1>1, <1>10, <1>15, <1>16, <1>17, <1>18, AlertsStay DEF BackupInv

\* The canary is written over the connection that holds the lock.
LEMMA WriteCanaryKeeps ==
    ASSUME BackupInv, NEW j \in Jobs, WriteCanary(j)
    PROVE  BackupInv'
<1>1. /\ BackupsAreTyped /\ RunsAreOwned /\ AlwaysRestorable /\ SuccessIsReal /\ \A i \in Jobs : StageIsKept(i)
      /\ backup[j].pc = "canary" /\ backup[j].bound /\ canary' = backup[j].run /\ Step(j, "dump")
      /\ UNCHANGED <<ledger, archive, homes, lock, alerts, announced, now, faults>>
  BY DEF BackupInv, WriteCanary
<1>2. /\ backup' \in [Jobs -> Invocations]
      /\ backup'[j].pc = "dump" /\ backup'[j].run = backup[j].run /\ backup'[j].bound = backup[j].bound
      /\ \A i \in Jobs : i # j => backup'[i] = backup[i]
  BY <1>1, StepFacts DEF Stages
<1>3. /\ Begun' = Begun /\ Dumps' = Dumps /\ AlwaysRestorable' /\ SuccessIsReal'
      /\ \A r : Sound(r)' <=> Sound(r)
  BY <1>1, ClaimsStay
<1>4. backup[j].run \in 0 .. MaxRuns
  BY <1>1 DEF BackupsAreTyped, Invocations
<1>5. BackupsAreTyped'
  BY <1>1, <1>2, <1>4 DEF BackupsAreTyped
<1>6. \A i \in Jobs : StageIsKept(i)'
  <2>1. ASSUME NEW i \in Jobs, i # j PROVE StageIsKept(i)'
    <3>1. backup'[i] = backup[i] /\ StageIsKept(i) /\ ~backup[i].bound
      BY <1>1, <1>2, <2>1 DEF RunsAreOwned
    <3>2. OwnDump(i)' <=> OwnDump(i)
      BY <1>1, <1>3, <3>1 DEF OwnDump
    <3> QED
      BY <1>1, <3>1, <3>2 DEF StageIsKept
  <2>2. StageIsKept(j)'
    BY <1>1, <1>2 DEF StageIsKept
  <2> QED
    BY <2>1, <2>2
<1>7. RunsAreOwned'
  <2>1. \A i \in Jobs : /\ Underway(i)' <=> Underway(i)
                        /\ backup'[i].run = backup[i].run /\ backup'[i].bound = backup[i].bound
    BY <1>1, <1>2 DEF Underway
  <2> QED
    BY <1>1, <1>3, <2>1 DEF RunsAreOwned
<1> QED
  BY <1>1, <1>3, <1>5, <1>6, <1>7, AlertsStay DEF BackupInv

\* The invocations, the ledger and the archive stay; no invocation outlasts its days.
LEMMA OutsideKeeps ==
    ASSUME BackupInv, UNCHANGED <<ledger, canary, archive, lock, backup, faults>>,
           homes' \in SUBSET Homes, now' \in 0 .. MaxNow, LastIsClaimed', NoEcho',
           \/ now' = now
           \/ now' = now + 1 /\ \A j \in Jobs : Underway(j) => now < ledger[backup[j].run].started + RunLength
    PROVE  BackupInv'
<1>1. BackupsAreTyped /\ RunsAreOwned /\ \A i \in Jobs : StageIsKept(i)
  BY DEF BackupInv
<1>2. /\ Begun' = Begun /\ Dumps' = Dumps /\ AlwaysRestorable' /\ SuccessIsReal'
      /\ \A r : Sound(r)' <=> Sound(r)
  BY ClaimsStay
<1>3. BackupsAreTyped'
  BY <1>1 DEF BackupsAreTyped
<1>4. \A i \in Jobs : StageIsKept(i)'
  <2>1. ASSUME NEW i \in Jobs PROVE StageIsKept(i)'
    <3>1. (OwnDump(i)' <=> OwnDump(i)) /\ (Sound(backup[i].run)' <=> Sound(backup[i].run))
      BY <1>2 DEF OwnDump, Sound
    <3> QED
      BY <1>1, <3>1 DEF StageIsKept
  <2> QED
    BY <2>1
<1>5. RunsAreOwned'
  <2>1. ASSUME NEW i \in Jobs, Underway(i)
        PROVE  /\ ledger[backup[i].run].started <= now'
               /\ now' <= ledger[backup[i].run].started + RunLength
    <3>1. /\ backup[i].run \in Runs /\ ledger[backup[i].run].started <= now
          /\ now <= ledger[backup[i].run].started + RunLength
      BY <1>1, <2>1 DEF RunsAreOwned, Begun
    <3>2. ledger[backup[i].run].started \in Nat /\ now \in Nat /\ RunLength \in Nat
      BY <1>1, <3>1, BackupAssumption DEF BackupsAreTyped, Rows
    <3> QED
      BY <2>1, <3>1, <3>2
  <2>2. \A i \in Jobs : Underway(i)' <=> Underway(i)
    BY DEF Underway
  <2> QED
    BY <1>1, <1>2, <2>1, <2>2 DEF RunsAreOwned
<1> QED
  BY <1>2, <1>3, <1>4, <1>5 DEF BackupInv

\* claimAlert makes way for an announcement only when the episode is a new one.
LEMMA TellAlertKeeps ==
    ASSUME BackupInv, NEW w \in Watchdogs, TellAlert(w)
    PROVE  BackupInv'
<1>1. LastIsClaimed /\ NoEcho /\ BackupsAreTyped
  BY DEF BackupInv
<1>2. PICK a \in watch[w] :
        /\ alerts' = [alerts EXCEPT ![a.kind] = a.episode]
        /\ announced' = IF claimAlert(a) THEN [announced EXCEPT ![a.kind] = <<a.episode, @[1]>>]
                        ELSE announced
  BY DEF TellAlert
<1>3. DOMAIN alerts' = Kinds /\ DOMAIN announced' = Kinds
  BY <1>1, <1>2 DEF LastIsClaimed
<1>4. ASSUME NEW k \in Kinds
      PROVE  announced'[k][1] = alerts'[k] /\ (announced'[k][1] = announced'[k][2] => announced'[k][1] = NoEpisode)
  <2>1. announced[k][1] = alerts[k] /\ (announced[k][1] = announced[k][2] => announced[k][1] = NoEpisode)
    BY <1>1 DEF LastIsClaimed, NoEcho
  <2>2. CASE k # a.kind \/ ~claimAlert(a)
    BY <1>1, <1>2, <2>1, <2>2 DEF LastIsClaimed, claimAlert
  <2>3. CASE k = a.kind /\ claimAlert(a)
    <3>1. alerts'[k] = a.episode /\ announced'[k] = <<a.episode, announced[k][1]>>
      BY <1>1, <1>2, <2>3 DEF LastIsClaimed
    <3> QED
      BY <2>1, <2>3, <3>1 DEF claimAlert
  <2> QED
    BY <2>2, <2>3
<1>5. LastIsClaimed' /\ NoEcho'
  BY <1>3, <1>4 DEF LastIsClaimed, NoEcho
<1>6. UNCHANGED <<ledger, canary, archive, homes, lock, backup, now, faults>>
  BY DEF TellAlert
<1> QED
  BY <1>1, <1>5, <1>6, OutsideKeeps DEF BackupsAreTyped

-----------------------------------------------------------------------------
(* The theorem *)

LEMMA BackupStarts == BackupInit => BackupInv
<1> SUFFICES ASSUME BackupInit PROVE BackupInv
  OBVIOUS
<1>1. MaxRuns \in Nat /\ MaxNow \in Nat /\ MaxFaults \in Nat
  BY BackupAssumption
<1>2. Unbegun \in Rows /\ Unbegun.status = "none" /\ Unbegun.drill = "none"
  BY <1>1 DEF Unbegun, Rows
<1>3. NoBackup \in Invocations /\ NoBackup.pc = "idle" /\ ~NoBackup.bound
  BY <1>1 DEF NoBackup, Invocations
<1>4. /\ ledger = [r \in Runs |-> Unbegun] /\ canary = 0 /\ archive = {} /\ homes \in SUBSET Homes
      /\ lock = Nobody /\ backup = [j \in Jobs |-> NoBackup] /\ now = 0 /\ faults = 0
  BY DEF BackupInit
<1>5. BackupsAreTyped
  BY <1>1, <1>2, <1>3, <1>4 DEF BackupsAreTyped
<1>6. Begun = {} /\ Dumps = {} /\ \A j \in Jobs : ~Underway(j) /\ ~backup[j].bound /\ backup[j].pc = "idle"
  BY <1>2, <1>3, <1>4 DEF Begun, Dumps, Underway
<1>7. RunsAreOwned
  <2>1. 0 \in 0 .. MaxRuns /\ Begun = 1 .. 0
    BY <1>1, <1>6
  <2> QED
    BY <1>2, <1>4, <1>6, <2>1 DEF RunsAreOwned
<1>8. \A j \in Jobs : StageIsKept(j)
  BY <1>6 DEF StageIsKept
<1>9. AlwaysRestorable /\ SuccessIsReal
  BY <1>6 DEF AlwaysRestorable, SuccessIsReal
<1>10. LastIsClaimed /\ NoEcho
  BY DEF BackupInit, LastIsClaimed, NoEcho
<1> QED
  BY <1>5, <1>7, <1>8, <1>9, <1>10 DEF BackupInv

LEMMA BackupStep == BackupInv /\ [BackupNext]_backupVars => BackupInv'
<1> SUFFICES ASSUME BackupInv, [BackupNext]_backupVars PROVE BackupInv'
  OBVIOUS
<1>1. LastIsClaimed /\ NoEcho /\ BackupsAreTyped
  BY DEF BackupInv
<1>2. CASE UNCHANGED backupVars
  BY <1>1, <1>2, AlertsStay, OutsideKeeps DEF backupVars, BackupsAreTyped
<1>3. CASE DayPasses
  <2>1. now' \in 0 .. MaxNow
    BY <1>1, <1>3, BackupAssumption DEF DayPasses, BackupsAreTyped
  <2> QED
    BY <1>1, <1>3, <2>1, AlertsStay, OutsideKeeps DEF DayPasses, BackupsAreTyped, Underway
<1>4. CASE HomeChanges
  BY <1>1, <1>4, AlertsStay, OutsideKeeps DEF HomeChanges, BackupsAreTyped
<1>5. ASSUME NEW w \in Watchdogs, Decide(w) \/ TellAlert(w) PROVE BackupInv'
  <2>1. CASE Decide(w)
    BY <1>1, <2>1, AlertsStay, OutsideKeeps DEF Decide, BackupsAreTyped
  <2> QED
    BY <1>5, <2>1, TellAlertKeeps
<1>6. ASSUME NEW j \in Jobs,
             \/ BeginRun(j) \/ WriteCanary(j) \/ Dump(j) \/ CopyHome(j) \/ Prune(j) \/ SettleSucceeded(j)
             \/ SettleFailed(j) \/ BeginDrill(j) \/ Restore(j) \/ SettleDrill(j) \/ StepFails(j)
             \/ LoseConnection(j) \/ Unbound(j) \/ Unlock(j) \/ Killed(j)
      PROVE  BackupInv'
  BY <1>6, BeginRunKeeps, WriteCanaryKeeps, DumpKeeps, CopyHomeKeeps, PruneKeeps, SettleKeeps,
     RestoreKeeps, EndsKeep
<1> QED
  BY <1>2, <1>3, <1>4, <1>5, <1>6 DEF BackupNext

\* Only the holder of the lock may write, so two that may are one.
LEMMA BackupGives == BackupInv => BackupsAreSound
<1> SUFFICES ASSUME BackupInv PROVE BackupsAreSound
  OBVIOUS
<1>1. BackupTypeOK
  BY DEF BackupInv, BackupsAreTyped, BackupTypeOK, Rows, Objects
<1>2. OneWriter
  BY DEF BackupInv, RunsAreOwned, OneWriter
<1> QED
  BY <1>1, <1>2 DEF BackupInv, BackupsAreSound

(* Whatever fails and whoever takes the lane over, what the ledger claims of *)
(* backups, drills and alerts is true: once a run or a drill is recorded as  *)
(* a success there is a whole dump, a recorded success names a dump that     *)
(* holds its own token, one invocation writes at a time and no fact is       *)
(* announced twice in a row (apps/backup run.ts, backup-watchdog.ts).        *)
THEOREM BackupsProved == BackupSpec => []BackupsAreSound
<1>1. BackupSpec => []BackupInv
  BY BackupStarts, BackupStep, PTL DEF BackupSpec
<1> QED
  BY <1>1, BackupGives, PTL
==============================================================================
