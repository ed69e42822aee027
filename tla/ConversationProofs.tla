-------------------------- MODULE ConversationProofs --------------------------
(***************************************************************************)
(* A conversation with a bot, for every value of the constants.             *)
(*                                                                          *)
(* SendInv: sends, retries, steers, answers and clears leave whole          *)
(* submissions, gapless transcripts and answers of the thread that was      *)
(* asked.  SessionInv: what a live session has recorded and what waits in   *)
(* its mailbox are one numbered stream, which a terminal event closes and   *)
(* in which the corrections a user sent are acknowledged in their order.    *)
(***************************************************************************)
EXTENDS AgentSession, MessageSend, FiniteSetTheorems, SequenceTheorems, WellFoundedInduction, TLAPS

-----------------------------------------------------------------------------
(* Operators *)

\* A set of numbers that has a bound and is not empty has its Max among it.
LEMMA MaxIsIn ==
    ASSUME NEW n \in Nat, NEW S \in SUBSET (0 .. n), S # {}
    PROVE  Max(S) \in S
<1> DEFINE Bounds == {k \in Nat : \A x \in S : x <= k}
<1>1. n \in Bounds /\ Bounds \in SUBSET Nat
  OBVIOUS
<1>2. PICK k \in Bounds : \A m \in Bounds : ~(<<m, k>> \in OpToRel(<, Nat))
  BY <1>1, NatLessThanWellFounded, WFMin
<1>3. \A m \in Bounds : ~(m < k)
  BY <1>1, <1>2 DEF OpToRel
<1>4. k \in S
  <2> SUFFICES ASSUME k \notin S PROVE FALSE
    OBVIOUS
  <2>1. \A x \in S : x \in Nat /\ x <= k /\ x # k
    OBVIOUS
  <2>0. PICK z \in S : TRUE
    OBVIOUS
  <2>2. k # 0 /\ k \in Nat
    BY <2>0, <2>1
  <2>3. k - 1 \in Nat /\ \A x \in S : x <= k - 1
    BY <2>1, <2>2
  <2> QED
    BY <2>2, <2>3, <1>3
<1>5. \A y \in S : k >= y
  BY <1>4
<1> QED
  BY <1>4, <1>5 DEF Max

\* The four decisions, and what each needs to have been read (messaging-policy.ts).
LEMMA Decisions ==
    ASSUME NEW q \in Sends
    PROVE  /\ decideMessageSend(q) = "steer" => q.active # 0
           /\ decideMessageSend(q) = "replay" => q.found # 0
  BY DEF decideMessageSend, Sends, NoMessage

\* A request stays about its thread when runs are added and none of them moves.
LEMMA ThreadsStay ==
    ASSUME NEW q \in Sends, NEW rs \in Seq(RunRows), NEW rt \in Seq(RunRows), OfThread(q, rs),
           Len(rt) >= Len(rs),
           \A i \in 1 .. Len(rs) : rt[i].thread = rs[i].thread /\ rt[i].nonce = rs[i].nonce
    PROVE  OfThread(q, rt)
<1>1. Len(rs) \in Nat /\ Len(rt) \in Nat
  BY LenProperties
<1>2. \A i \in 1 .. Len(rs) : i \in 1 .. Len(rt)
  BY <1>1
<1> QED
  BY <1>2 DEF OfThread

-----------------------------------------------------------------------------
(* Steps that change a request alone *)

\* What a step that only moves one request has to show.
LEMMA RequestKeeps ==
    ASSUME SendInv, NEW r \in Requests, NEW q \in Sends, OfThread(q, runs),
           req' = [req EXCEPT ![r] = q],
           UNCHANGED <<next, messages, runs, tasks, steers, minted, threadClears>>
    PROVE  SendInv'
<1>1. req \in [Requests -> Sends] /\ \A o \in Requests : OfThread(req[o], runs)
  BY DEF SendInv, SendShapes, ReadsAreOfThread
<1>2. req' \in [Requests -> Sends] /\ \A o \in Requests : req'[o] = IF o = r THEN q ELSE req[o]
  BY <1>1
<1>3. ReadsAreOfThread'
  <2>1. \A o \in Requests : OfThread(req'[o], runs)
    BY <1>1, <1>2
  <2> QED
    BY <2>1 DEF ReadsAreOfThread
<1>4. SendShapes' /\ RowsAreLinked'
  BY <1>2 DEF SendInv, SendShapes, RowsAreLinked
<1>5. TranscriptIsGapless' /\ SubmissionIsWhole'
  BY DEF SendInv, TranscriptIsGapless, SubmissionIsWhole
<1> QED
  BY <1>3, <1>4, <1>5 DEF SendInv

\* The facts about one request that its steps start from.
LEMMA RequestFacts ==
    ASSUME SendInv, NEW r \in Requests
    PROVE  /\ req[r] \in Sends /\ OfThread(req[r], runs)
           /\ runs \in Seq(RunRows) /\ Len(runs) \in Nat
           /\ req \in [Requests -> Sends]
  BY LenProperties DEF SendInv, SendShapes, ReadsAreOfThread

\* A request answered with no run, or with one of its own thread.
LEMMA AnswerKeeps ==
    ASSUME SendInv, NEW r \in Requests, req[r].pc # "new",
           NEW action \in {"refused", "replay", "not_found", "start_run", "error", "steer", "not_active"},
           NEW message \in Nat, NEW run \in Nat, Answer(r, action, message, run),
           run # 0 => run \in 1 .. Len(runs) /\ runs[run].thread = req[r].thread,
           UNCHANGED <<next, messages, runs, tasks, steers, minted, threadClears>>
    PROVE  SendInv'
<1> DEFINE q == [req[r] EXCEPT !.pc = "answered", !.action = action, !.message = message, !.run = run]
<1>1. req[r] \in Sends /\ OfThread(req[r], runs) /\ req \in [Requests -> Sends]
  BY RequestFacts
<1>2. q \in Sends
  BY <1>1 DEF Sends
<1>3. OfThread(q, runs)
  BY <1>1 DEF OfThread, Sends
<1>4. req' = [req EXCEPT ![r] = q]
  BY <1>1 DEF Answer, Sends
<1> HIDE DEF q
<1> QED
  BY <1>2, <1>3, <1>4, RequestKeeps

\* The service's lookups and the answers it gives from them (threads.ts).
LEMMA LookupKeeps ==
    ASSUME SendInv, NEW r \in Requests,
           Submit(r) \/ findByNonce(r) \/ findActiveForThread(r) \/ AnswerFromLookup(r)
             \/ AttachmentMissing(r) \/ readByNonce(r)
    PROVE  SendInv'
<1>1. /\ req[r] \in Sends /\ OfThread(req[r], runs) /\ req \in [Requests -> Sends]
      /\ runs \in Seq(RunRows) /\ Len(runs) \in Nat
  BY RequestFacts
<1>2. CASE Submit(r)
  <2>1. PICK t \in Threads, n \in Nonces, c \in Contents :
          req' = [req EXCEPT ![r] = [Fresh EXCEPT !.pc = "nonce", !.thread = t, !.nonce = n, !.content = c]]
    BY <1>2 DEF Submit
  <2>2. UNCHANGED <<next, messages, runs, tasks, steers, minted, threadClears>>
    BY <1>2 DEF Submit
  <2> DEFINE q == [Fresh EXCEPT !.pc = "nonce", !.thread = t, !.nonce = n, !.content = c]
  <2>3. q \in Sends /\ OfThread(q, runs)
    BY DEF Fresh, Sends, OfThread, NoMessage
  <2> HIDE DEF q
  <2>4. req' = [req EXCEPT ![r] = q]
    BY <2>1 DEF q
  <2> QED
    BY <2>2, <2>3, <2>4, RequestKeeps
<1>3. CASE findByNonce(r)
  <2>1. req[r].pc = "nonce" /\ UNCHANGED <<next, messages, runs, tasks, steers, minted, threadClears>>
    BY <1>3 DEF findByNonce
  <2>2. CASE req' = [req EXCEPT ![r].pc = "active"]
    <3> DEFINE q == [req[r] EXCEPT !.pc = "active"]
    <3>1. q \in Sends /\ OfThread(q, runs)
      BY <1>1, <2>1 DEF Sends, OfThread
    <3>2. req' = [req EXCEPT ![r] = q]
      BY <1>1, <2>2
    <3> HIDE DEF q
    <3> QED
      BY <2>1, <3>1, <3>2, RequestKeeps
  <2>3. CASE \E m \in ByNonce(req[r].thread, req[r].nonce) :
               req' = [req EXCEPT ![r].pc = "active", ![r].found = m.id,
                                  ![r].same = (m.content = req[r].content), ![r].run = m.run]
    <3>1. PICK m \in ByNonce(req[r].thread, req[r].nonce) :
               req' = [req EXCEPT ![r].pc = "active", ![r].found = m.id,
                                  ![r].same = (m.content = req[r].content), ![r].run = m.run]
      BY <2>3
    <3>2. /\ m.id \in Nat /\ m.run \in Nat /\ m.run \in 1 .. Len(runs)
          /\ runs[m.run].thread = req[r].thread
      BY DEF ByNonce, SendInv, SendShapes, RowsAreLinked, MessageRows
    <3> DEFINE q == [req[r] EXCEPT !.pc = "active", !.found = m.id,
                                   !.same = (m.content = req[r].content), !.run = m.run]
    <3>3. q \in Sends
      BY <1>1, <3>2 DEF Sends
    <3>4. OfThread(q, runs)
      BY <1>1, <2>1, <3>2 DEF Sends, OfThread
    <3>5. req' = [req EXCEPT ![r] = q]
      BY <1>1, <3>1 DEF Sends
    <3> HIDE DEF q
    <3> QED
      BY <2>1, <3>3, <3>4, <3>5, RequestKeeps
  <2> QED
    BY <1>3, <2>2, <2>3 DEF findByNonce
<1>4. CASE findActiveForThread(r)
  <2> DEFINE newest == Max(LiveRuns(req[r].thread) \cup {0})
             q == [req[r] EXCEPT !.pc = "decide", !.active = newest]
  <2>1. /\ req[r].pc = "active" /\ UNCHANGED <<next, messages, runs, tasks, steers, minted, threadClears>>
        /\ req' = [req EXCEPT ![r].pc = "decide", ![r].active = newest]
    BY <1>4 DEF findActiveForThread
  <2>2. newest \in LiveRuns(req[r].thread) \cup {0}
    <3>1. LiveRuns(req[r].thread) \cup {0} \in SUBSET (0 .. Len(runs))
      BY <1>1 DEF LiveRuns
    <3> QED
      BY <1>1, <3>1, MaxIsIn
  <2> HIDE DEF newest
  <2>3. newest \in Nat /\ (newest # 0 => newest \in 1 .. Len(runs) /\ runs[newest].thread = req[r].thread)
    BY <2>2 DEF LiveRuns
  <2>4. q \in Sends /\ OfThread(q, runs)
    BY <1>1, <2>1, <2>3 DEF Sends, OfThread
  <2>5. req' = [req EXCEPT ![r] = q]
    BY <1>1, <2>1 DEF Sends
  <2> HIDE DEF q
  <2> QED
    BY <2>1, <2>4, <2>5, RequestKeeps
<1>5. CASE AnswerFromLookup(r)
  <2>1. /\ req[r].pc = "decide" /\ UNCHANGED <<next, messages, runs, tasks, steers, minted, threadClears>>
        /\ Answer(r, "refused", NoMessage, 0) \/ Answer(r, "replay", req[r].found, req[r].run)
    BY <1>5 DEF AnswerFromLookup
  <2>2. /\ req[r].found \in Nat /\ req[r].run \in Nat
        /\ req[r].run # 0 => req[r].run \in 1 .. Len(runs) /\ runs[req[r].run].thread = req[r].thread
    BY <1>1 DEF Sends, OfThread
  <2>3. NoMessage \in Nat /\ req[r].pc # "new"
    BY <2>1 DEF NoMessage
  <2>4. CASE Answer(r, "refused", NoMessage, 0)
    BY <2>1, <2>3, <2>4, AnswerKeeps
  <2>5. CASE Answer(r, "replay", req[r].found, req[r].run)
    BY <2>1, <2>2, <2>3, <2>5, AnswerKeeps
  <2> QED
    BY <2>1, <2>4, <2>5
<1>6. CASE AttachmentMissing(r)
  <2>1. /\ req[r].pc # "new" /\ UNCHANGED <<next, messages, runs, tasks, steers, minted, threadClears>>
        /\ Answer(r, "not_found", NoMessage, 0) /\ NoMessage \in Nat
    BY <1>6 DEF AttachmentMissing, NoMessage
  <2> QED
    BY <2>1, AnswerKeeps
<1>7. CASE readByNonce(r)
  <2> DEFINE i == CHOOSE i \in NonceSpent(req[r].nonce) : TRUE
  <2>1. /\ req[r].pc = "settled" /\ NoMessage \in Nat
        /\ UNCHANGED <<next, messages, runs, tasks, steers, minted, threadClears>>
    BY <1>7 DEF readByNonce, NoMessage
  <2>2. \/ Answer(r, "error", NoMessage, 0) \/ Answer(r, "refused", NoMessage, 0)
        \/ runs[i].thread = req[r].thread /\ Answer(r, "start_run", runs[i].source, i)
    BY <1>7 DEF readByNonce
  <2>3. i \in NonceSpent(req[r].nonce)
    BY <1>1, <2>1 DEF OfThread, NonceSpent
  <2> HIDE DEF i
  <2>4. i \in 1 .. Len(runs) /\ i \in Nat /\ runs[i].source \in Nat
    <3>1. i \in 1 .. Len(runs)
      BY <2>3 DEF NonceSpent
    <3>2. runs[i] \in RunRows
      BY <1>1, <3>1, ElementOfSeq
    <3> QED
      BY <1>1, <3>1, <3>2 DEF RunRows
  <2>5. CASE Answer(r, "error", NoMessage, 0) \/ Answer(r, "refused", NoMessage, 0)
    BY <2>1, <2>5, AnswerKeeps
  <2>6. CASE runs[i].thread = req[r].thread /\ Answer(r, "start_run", runs[i].source, i)
    BY <2>1, <2>4, <2>6, AnswerKeeps
  <2> QED
    BY <2>2, <2>5, <2>6
<1> QED
  BY <1>2, <1>3, <1>4, <1>5, <1>6, <1>7

-----------------------------------------------------------------------------
(* Steps that write a message *)

\* A row numbered by its thread's counter, in the transaction that advances it, keeps
\* every transcript gapless and every row linked (messages.ts: insertMessage).
LEMMA InsertKeeps ==
    ASSUME SendInv, NEW t \in Threads, NEW n \in Nonces \cup Replies, NEW c \in Contents \cup {None},
           NEW run \in Nat, Insert(t, n, c, run),
           runs' \in Seq(RunRows), Len(runs') >= Len(runs),
           \A i \in 1 .. Len(runs) : runs'[i].thread = runs[i].thread,
           run \in 1 .. Len(runs'), runs'[run].thread = t,
           \A s \in steers' : \/ s \in steers
                              \/ s \in SteerRows /\ s.message = minted + 1 /\ s.run \in 1 .. Len(runs')
    PROVE  /\ messages' \in SUBSET MessageRows /\ IsFiniteSet(messages') /\ steers' \in SUBSET SteerRows
           /\ next' \in [Threads -> Nat] /\ minted' \in Nat /\ messages \in SUBSET messages'
           /\ [id |-> minted + 1, thread |-> t, seq |-> next[t], nonce |-> n, content |-> c, run |-> run] \in messages'
           /\ TranscriptIsGapless' /\ RowsAreLinked'
<1> DEFINE new == [id |-> minted + 1, thread |-> t, seq |-> next[t], nonce |-> n, content |-> c, run |-> run]
<1>1. /\ messages' = messages \cup {new} /\ next' = [next EXCEPT ![t] = @ + 1] /\ minted' = minted + 1
  BY DEF Insert
<1>2. /\ next \in [Threads -> Nat] /\ minted \in Nat /\ messages \in SUBSET MessageRows
      /\ IsFiniteSet(messages) /\ steers \in SUBSET SteerRows
      /\ Len(runs) \in Nat /\ Len(runs') \in Nat
  BY LenProperties DEF SendInv, SendShapes
<1>3. /\ new \in MessageRows /\ new.id = minted + 1 /\ new.thread = t /\ new.seq = next[t]
      /\ new.run = run
  BY <1>2 DEF MessageRows
<1>4. \A m \in messages : /\ m.id \in 1 .. minted /\ m.run \in 1 .. Len(runs) /\ runs[m.run].thread = m.thread
  BY DEF SendInv, RowsAreLinked
<1> HIDE DEF new
<1>5. new \notin messages
  BY <1>2, <1>3, <1>4
<1>6. IsFiniteSet(messages')
  BY <1>1, <1>2, FS_AddElement
<1>7. next' \in [Threads -> Nat] /\ \A u \in Threads : next'[u] = IF u = t THEN next[t] + 1 ELSE next[u]
  BY <1>1, <1>2
<1>8. RowsAreLinked'
  <2>1. \A m \in messages' : m.id \in 1 .. minted' /\ m.run \in 1 .. Len(runs') /\ runs'[m.run].thread = m.thread
    <3>1. \A m \in messages : m.id \in 1 .. (minted + 1) /\ m.run \in 1 .. Len(runs') /\ runs'[m.run].thread = m.thread
      BY <1>2, <1>4
    <3>2. new.id \in 1 .. (minted + 1) /\ new.run \in 1 .. Len(runs') /\ runs'[new.run].thread = new.thread
      BY <1>2, <1>3
    <3> QED
      BY <1>1, <3>1, <3>2
  <2>2. \A m, o \in messages' : m.id = o.id => m = o
    <3>1. \A m, o \in messages : m.id = o.id => m = o
      BY DEF SendInv, RowsAreLinked
    <3>2. \A m \in messages : m.id # new.id
      BY <1>2, <1>3, <1>4
    <3> QED
      BY <1>1, <3>1, <3>2
  <2>3. \A s \in steers' : s.run \in 1 .. Len(runs') /\ \E m \in messages' : m.id = s.message
    <3> TAKE s \in steers'
    <3>1. CASE s \in steers
      <4>1. s.run \in 1 .. Len(runs) /\ \E m \in messages : m.id = s.message
        BY <3>1 DEF SendInv, RowsAreLinked
      <4> QED
        BY <4>1, <1>1, <1>2
    <3>2. CASE s.message = minted + 1 /\ s.run \in 1 .. Len(runs')
      BY <3>2, <1>1, <1>3
    <3> QED
      BY <3>1, <3>2
  <2> QED
    BY <2>1, <2>2, <2>3 DEF RowsAreLinked
<1>9. TranscriptIsGapless'
  <2> SUFFICES ASSUME NEW u \in Threads
               PROVE  /\ {m.seq : m \in {m \in messages' : m.thread = u}} = 0 .. (next'[u] - 1)
                      /\ Cardinality({m \in messages' : m.thread = u}) = next'[u]
    BY DEF TranscriptIsGapless
  <2> DEFINE old == {m \in messages : m.thread = u}
  <2>1. {m.seq : m \in old} = 0 .. (next[u] - 1) /\ Cardinality(old) = next[u]
    BY DEF SendInv, TranscriptIsGapless
  <2>2. IsFiniteSet(old)
    BY <1>2, FS_Subset
  <2>3. CASE u # t
    <3>1. {m \in messages' : m.thread = u} = old
      BY <1>1, <1>3, <2>3
    <3> QED
      BY <1>7, <2>1, <2>3, <3>1
  <2>4. CASE u = t
    <3>1. {m \in messages' : m.thread = u} = old \cup {new}
      BY <1>1, <1>3, <2>4
    <3>2. new \notin old
      BY <1>5
    <3>3. next[u] \in Nat /\ next'[u] = next[u] + 1
      BY <1>2, <1>7, <2>4
    <3> HIDE DEF old
    <3>4. Cardinality(old \cup {new}) = next[u] + 1
      BY <2>1, <2>2, <3>2, <3>3, FS_AddElement
    <3>5. {m.seq : m \in old \cup {new}} = {m.seq : m \in old} \cup {new.seq}
      OBVIOUS
    <3>6. (0 .. (next[u] - 1)) \cup {next[u]} = 0 .. next[u]
      BY <3>3
    <3>7. (next[u] + 1) - 1 = next[u]
      BY <3>3
    <3> QED
      BY <1>3, <2>1, <2>4, <3>1, <3>3, <3>4, <3>5, <3>6, <3>7
  <2> QED
    BY <2>3, <2>4
<1>10. steers' \in SUBSET SteerRows
  BY <1>2
<1> QED
  BY <1>1, <1>2, <1>3, <1>6, <1>7, <1>8, <1>9, <1>10 DEF new

\* A run stays whole when messages are added beside it.
LEMMA SourcesStay ==
    ASSUME SendInv, UNCHANGED <<runs, tasks>>, messages \in SUBSET messages'
    PROVE  SubmissionIsWhole'
<1>1. /\ tasks = Len(runs)
      /\ \A i, j \in 1 .. Len(runs) : runs[i].nonce = runs[j].nonce => i = j
      /\ \A i \in 1 .. Len(runs) : runs[i].source # NoMessage =>
            \E m \in messages : m.id = runs[i].source /\ m.thread = runs[i].thread
                                /\ m.nonce = runs[i].nonce /\ m.run = i
  BY DEF SendInv, SubmissionIsWhole
<1>2. tasks' = tasks /\ runs' = runs
  OBVIOUS
<1>3. \A i \in 1 .. Len(runs') : runs'[i].source # NoMessage =>
            \E m \in messages' : m.id = runs'[i].source /\ m.thread = runs'[i].thread
                                 /\ m.nonce = runs'[i].nonce /\ m.run = i
  BY <1>1, <1>2
<1> QED
  BY <1>1, <1>2, <1>3 DEF SubmissionIsWhole

\* The facts about one run.
LEMMA RunFacts ==
    ASSUME SendInv
    PROVE  /\ runs \in Seq(RunRows) /\ Len(runs) \in Nat
           /\ \A i \in 1 .. Len(runs) : runs[i] \in RunRows
           /\ tasks \in Nat /\ threadClears \in 0 .. MaxThreadClears
  BY LenProperties, ElementOfSeq DEF SendInv, SendShapes

\* A run's answer is one more row of its own thread (createAssistantMessageStore).
LEMMA AnswerRowKeeps ==
    ASSUME SendInv, NEW i \in 1 .. Len(runs), NEW n \in Replies, appendAssistant(i, n)
    PROVE  SendInv'
<1>1. /\ Insert(runs[i].thread, n, None, i) /\ UNCHANGED <<runs, tasks, steers, req, threadClears>>
  BY DEF appendAssistant
<1>2. /\ runs \in Seq(RunRows) /\ Len(runs) \in Nat /\ runs[i] \in RunRows /\ tasks \in Nat
      /\ threadClears \in 0 .. MaxThreadClears
  BY RunFacts
<1>3. /\ runs[i].thread \in Threads /\ n \in Nonces \cup Replies /\ None \in Contents \cup {None} /\ i \in Nat
      /\ runs' \in Seq(RunRows) /\ Len(runs') >= Len(runs) /\ i \in 1 .. Len(runs')
      /\ \A j \in 1 .. Len(runs) : runs'[j].thread = runs[j].thread
      /\ runs'[i].thread = runs[i].thread
      /\ \A s \in steers' : s \in steers
  BY <1>1, <1>2 DEF RunRows
<1> DEFINE t == runs[i].thread
<1> HIDE DEF t
<1>4. /\ messages' \in SUBSET MessageRows /\ IsFiniteSet(messages') /\ steers' \in SUBSET SteerRows
      /\ next' \in [Threads -> Nat] /\ minted' \in Nat /\ messages \in SUBSET messages'
      /\ TranscriptIsGapless' /\ RowsAreLinked'
  <2>1. t \in Threads /\ Insert(t, n, None, i) /\ runs'[i].thread = t
    BY <1>1, <1>3 DEF t
  <2> QED
    BY <1>3, <2>1, InsertKeeps
<1>5. SubmissionIsWhole'
  BY <1>1, <1>4, SourcesStay
<1>6. SendShapes' /\ ReadsAreOfThread'
  BY <1>1, <1>2, <1>4 DEF SendInv, SendShapes, ReadsAreOfThread
<1> QED
  BY <1>4, <1>5, <1>6 DEF SendInv

\* The answer a command gives with the rows it wrote.
LEMMA AnswerReads ==
    ASSUME SendInv, NEW r \in Requests, req[r].pc # "new", NEW action \in {"steer", "start_run"},
           NEW message \in Nat, NEW run \in Nat, Answer(r, action, message, run),
           runs' \in Seq(RunRows), Len(runs') >= Len(runs),
           \A i \in 1 .. Len(runs) : runs'[i].thread = runs[i].thread /\ runs'[i].nonce = runs[i].nonce,
           run \in 1 .. Len(runs'), runs'[run].thread = req[r].thread
    PROVE  req' \in [Requests -> Sends] /\ ReadsAreOfThread'
<1> DEFINE q == [req[r] EXCEPT !.pc = "answered", !.action = action, !.message = message, !.run = run]
<1>1. /\ req[r] \in Sends /\ OfThread(req[r], runs) /\ req \in [Requests -> Sends]
      /\ runs \in Seq(RunRows) /\ \A o \in Requests : req[o] \in Sends /\ OfThread(req[o], runs)
  BY RequestFacts
<1>2. q \in Sends
  BY <1>1 DEF Sends
<1>3. req' = [req EXCEPT ![r] = q]
  BY <1>1 DEF Answer, Sends
<1>4. \A o \in Requests : OfThread(req[o], runs')
  BY ONLY <1>1, ThreadsStay, runs' \in Seq(RunRows), Len(runs') >= Len(runs),
           \A i \in 1 .. Len(runs) : runs'[i].thread = runs[i].thread /\ runs'[i].nonce = runs[i].nonce
<1>5. OfThread(q, runs')
  <2>1. OfThread(req[r], runs')
    BY <1>4
  <2>2. /\ q.pc = "answered" /\ q.thread = req[r].thread /\ q.nonce = req[r].nonce
        /\ q.active = req[r].active /\ q.run = run
    BY <1>1 DEF Sends
  <2> HIDE DEF q
  <2> QED
    BY <2>1, <2>2 DEF OfThread
<1> HIDE DEF q
<1>6. req' \in [Requests -> Sends] /\ \A o \in Requests : req'[o] = IF o = r THEN q ELSE req[o]
  BY <1>1, <1>2, <1>3
<1>7. \A o \in Requests : OfThread(req'[o], runs')
  BY <1>4, <1>5, <1>6
<1> QED
  BY <1>6, <1>7 DEF ReadsAreOfThread

\* The steering command (messages.ts: steer).
LEMMA SteerKeeps ==
    ASSUME SendInv, NEW r \in Requests, steer(r)
    PROVE  SendInv'
<1> DEFINE q == req[r]
           t == q.thread
           n == q.nonce
<1>1. /\ q \in Sends /\ OfThread(q, runs) /\ runs \in Seq(RunRows) /\ Len(runs) \in Nat
      /\ req \in [Requests -> Sends]
  BY RequestFacts
<1>2. q.pc = "decide" /\ decideMessageSend(q) = "steer" /\ UNCHANGED <<runs, tasks, threadClears>>
  BY DEF steer
<1>3. q.active # 0
  BY <1>1, <1>2, Decisions
<1>4. /\ q.active \in 1 .. Len(runs) /\ q.active \in Nat /\ runs[q.active].thread = t
      /\ t \in Threads /\ n \in Nonces /\ q.content \in Contents \cup {None} /\ q.pc # "new"
  BY <1>1, <1>2, <1>3 DEF OfThread, Sends
<1>5. CASE /\ Insert(t, n, q.content, q.active)
           /\ steers' = steers \cup {[message |-> minted + 1, run |-> q.active, claimed |-> FALSE]}
           /\ Answer(r, "steer", minted + 1, q.active)
  <2>1. minted \in Nat /\ minted + 1 \in Nat /\ tasks \in Nat /\ threadClears \in 0 .. MaxThreadClears
    BY DEF SendInv, SendShapes
  <2>2. \A s \in steers' : \/ s \in steers
                           \/ s \in SteerRows /\ s.message = minted + 1 /\ s.run \in 1 .. Len(runs')
    <3> DEFINE bound == [message |-> minted + 1, run |-> q.active, claimed |-> FALSE]
    <3>1. bound \in SteerRows /\ bound.message = minted + 1 /\ bound.run = q.active
      BY <1>4, <2>1 DEF SteerRows
    <3>2. steers' = steers \cup {bound} /\ Len(runs') = Len(runs)
      BY <1>2, <1>5
    <3> HIDE DEF bound, q
    <3> QED
      BY <1>4, <3>1, <3>2
  <2>3. /\ runs' \in Seq(RunRows) /\ Len(runs') >= Len(runs) /\ q.active \in 1 .. Len(runs')
        /\ \A j \in 1 .. Len(runs) : runs'[j].thread = runs[j].thread /\ runs'[j].nonce = runs[j].nonce
        /\ runs'[q.active].thread = t /\ n \in Nonces \cup Replies
    BY <1>1, <1>2, <1>4
  <2>4. /\ messages' \in SUBSET MessageRows /\ IsFiniteSet(messages') /\ steers' \in SUBSET SteerRows
        /\ next' \in [Threads -> Nat] /\ minted' \in Nat /\ messages \in SUBSET messages'
        /\ TranscriptIsGapless' /\ RowsAreLinked'
    <3> HIDE DEF q, t, n
    <3> QED
      BY <1>4, <1>5, <2>2, <2>3, InsertKeeps
  <2>5. req' \in [Requests -> Sends] /\ ReadsAreOfThread'
    BY <1>4, <1>5, <2>1, <2>3, AnswerReads
  <2>6. SubmissionIsWhole'
    BY <1>2, <2>4, SourcesStay
  <2>7. SendShapes'
    BY <1>2, <2>1, <2>3, <2>4, <2>5 DEF SendShapes
  <2> QED
    BY <2>4, <2>5, <2>6, <2>7 DEF SendInv
<1>6. CASE \E m \in ByNonce(t, n) :
             Answer(r, "steer", m.id, q.active) /\ UNCHANGED <<next, messages, steers, minted>>
  <2>1. PICK m \in ByNonce(t, n) :
             Answer(r, "steer", m.id, q.active) /\ UNCHANGED <<next, messages, steers, minted>>
    BY <1>6
  <2>2. m.id \in Nat
    BY DEF ByNonce, SendInv, SendShapes, MessageRows
  <2> QED
    BY <1>2, <1>4, <2>1, <2>2, AnswerKeeps
<1>7. CASE Answer(r, "not_active", NoMessage, 0) /\ UNCHANGED <<next, messages, steers, minted>>
  <2>1. NoMessage \in Nat
    BY DEF NoMessage
  <2> QED
    BY <1>2, <1>4, <1>7, <2>1, AnswerKeeps
<1> QED
  BY <1>5, <1>6, <1>7 DEF steer

\* The run-creation command (run-creation.ts: createOnce): the losing transaction of one
\* nonce leaves nothing behind.
LEMMA CreateKeeps ==
    ASSUME SendInv, NEW r \in Requests, createOnce(r)
    PROVE  SendInv'
<1> DEFINE q == req[r]
           t == q.thread
           n == q.nonce
           run == [thread |-> t, nonce |-> n, live |-> TRUE, source |-> minted + 1]
<1>1. /\ q \in Sends /\ OfThread(q, runs) /\ runs \in Seq(RunRows) /\ Len(runs) \in Nat
      /\ req \in [Requests -> Sends]
  BY RequestFacts
<1>2. q.pc = "decide" /\ UNCHANGED <<steers, threadClears>>
  BY DEF createOnce
<1>3. /\ t \in Threads /\ n \in Nonces /\ q.content \in Contents \cup {None} /\ q.pc # "new"
  BY <1>1, <1>2 DEF OfThread, Sends
<1>4. CASE /\ NonceSpent(n) = {}
           /\ runs' = Append(runs, run) /\ tasks' = tasks + 1
           /\ Insert(t, n, q.content, Len(runs) + 1)
           /\ Answer(r, "start_run", minted + 1, Len(runs) + 1)
  <2>1. minted \in Nat /\ minted + 1 \in Nat /\ tasks \in Nat /\ threadClears \in 0 .. MaxThreadClears
    BY DEF SendInv, SendShapes
  <2>2. run \in RunRows /\ run.thread = t /\ run.nonce = n /\ run.source = minted + 1
    BY <1>3, <2>1 DEF RunRows
  <2> HIDE DEF run
  <2>3. /\ runs' \in Seq(RunRows) /\ Len(runs') = Len(runs) + 1 /\ runs'[Len(runs) + 1] = run
        /\ \A j \in 1 .. Len(runs) : runs'[j] = runs[j]
    BY <1>1, <1>4, <2>2, AppendProperties
  <2>4. /\ Len(runs') >= Len(runs) /\ Len(runs) + 1 \in 1 .. Len(runs') /\ Len(runs) + 1 \in Nat
        /\ \A j \in 1 .. Len(runs) : runs'[j].thread = runs[j].thread /\ runs'[j].nonce = runs[j].nonce
        /\ runs'[Len(runs) + 1].thread = t /\ n \in Nonces \cup Replies
    BY <1>1, <1>3, <2>2, <2>3
  <2>5. \A s \in steers' : s \in steers
    BY <1>2
  <2>6. /\ messages' \in SUBSET MessageRows /\ IsFiniteSet(messages') /\ steers' \in SUBSET SteerRows
        /\ next' \in [Threads -> Nat] /\ minted' \in Nat /\ messages \in SUBSET messages'
        /\ TranscriptIsGapless' /\ RowsAreLinked'
        /\ \E m \in messages' : m.id = minted + 1 /\ m.thread = t /\ m.nonce = n /\ m.run = Len(runs) + 1
    <3> HIDE DEF q, t, n
    <3> DEFINE new == [id |-> minted + 1, thread |-> t, seq |-> next[t], nonce |-> n,
                       content |-> q.content, run |-> Len(runs) + 1]
    <3>1. new.id = minted + 1 /\ new.thread = t /\ new.nonce = n /\ new.run = Len(runs) + 1
      OBVIOUS
    <3>2. /\ messages' \in SUBSET MessageRows /\ IsFiniteSet(messages') /\ steers' \in SUBSET SteerRows
          /\ next' \in [Threads -> Nat] /\ minted' \in Nat /\ messages \in SUBSET messages'
          /\ TranscriptIsGapless' /\ RowsAreLinked' /\ new \in messages'
      BY <1>3, <1>4, <2>3, <2>4, <2>5, InsertKeeps
    <3> HIDE DEF new
    <3> QED
      BY <3>1, <3>2
  <2>7. req' \in [Requests -> Sends] /\ ReadsAreOfThread'
    BY <1>3, <1>4, <2>1, <2>3, <2>4, AnswerReads
  <2>8. SubmissionIsWhole'
    <3>1. /\ tasks = Len(runs)
          /\ \A i, j \in 1 .. Len(runs) : runs[i].nonce = runs[j].nonce => i = j
          /\ \A i \in 1 .. Len(runs) : runs[i].source # NoMessage =>
                \E m \in messages : m.id = runs[i].source /\ m.thread = runs[i].thread
                                    /\ m.nonce = runs[i].nonce /\ m.run = i
      BY DEF SendInv, SubmissionIsWhole
    <3>2. \A i \in 1 .. Len(runs) : runs[i].nonce # n
      BY <1>4 DEF NonceSpent
    <3>3. \A i \in 1 .. Len(runs') : i \in 1 .. Len(runs) \/ i = Len(runs) + 1
      BY <1>1, <2>3
    <3>4. \A i, j \in 1 .. Len(runs') : runs'[i].nonce = runs'[j].nonce => i = j
      BY <2>2, <2>3, <3>1, <3>2, <3>3
    <3>5. \A i \in 1 .. Len(runs') : runs'[i].source # NoMessage =>
                \E m \in messages' : m.id = runs'[i].source /\ m.thread = runs'[i].thread
                                     /\ m.nonce = runs'[i].nonce /\ m.run = i
      <4> TAKE i \in 1 .. Len(runs')
      <4>1. CASE i \in 1 .. Len(runs)
        BY <4>1, <2>3, <2>6, <3>1
      <4>2. CASE i = Len(runs) + 1
        BY <4>2, <2>2, <2>3, <2>6
      <4> QED
        BY <3>3, <4>1, <4>2
    <3>6. tasks' = Len(runs')
      BY <1>4, <2>3, <3>1
    <3> QED
      BY <3>4, <3>5, <3>6 DEF SubmissionIsWhole
  <2>9. SendShapes'
    BY <1>2, <1>4, <2>1, <2>3, <2>6, <2>7 DEF SendShapes
  <2> QED
    BY <2>6, <2>7, <2>8, <2>9 DEF SendInv
<1>5. CASE /\ NonceSpent(n) # {} /\ req' = [req EXCEPT ![r].pc = "settled"]
           /\ UNCHANGED <<next, messages, runs, tasks, minted>>
  <2> DEFINE p == [q EXCEPT !.pc = "settled"]
  <2>1. p \in Sends /\ OfThread(p, runs)
    BY <1>1, <1>3, <1>5 DEF Sends, OfThread, NonceSpent
  <2>2. req' = [req EXCEPT ![r] = p]
    BY <1>1, <1>5
  <2> HIDE DEF p
  <2> QED
    BY <1>2, <1>5, <2>1, <2>2, RequestKeeps
<1>6. CASE Answer(r, "error", NoMessage, 0) /\ UNCHANGED <<next, messages, runs, tasks, minted>>
  <2>1. NoMessage \in Nat
    BY DEF NoMessage
  <2> QED
    BY <1>2, <1>3, <1>6, <2>1, AnswerKeeps
<1> QED
  BY <1>4, <1>5, <1>6 DEF createOnce

-----------------------------------------------------------------------------
(* The worker and the operator *)

\* A claim marks rows and moves none (claimSteeringMessages).
LEMMA ClaimKeeps ==
    ASSUME SendInv, NEW i \in 1 .. Len(runs), claim(i)
    PROVE  SendInv'
<1>1. /\ steers' = {IF s.run = i THEN [s EXCEPT !.claimed = TRUE] ELSE s : s \in steers}
      /\ UNCHANGED <<next, messages, runs, tasks, minted, req, threadClears>>
  BY DEF claim
<1>2. \A s \in steers : s \in SteerRows /\ s.run \in 1 .. Len(runs) /\ \E m \in messages : m.id = s.message
  BY DEF SendInv, SendShapes, RowsAreLinked
<1>3. \A s \in SteerRows : /\ [s EXCEPT !.claimed = TRUE] \in SteerRows
                          /\ [s EXCEPT !.claimed = TRUE].run = s.run
                          /\ [s EXCEPT !.claimed = TRUE].message = s.message
  BY DEF SteerRows
<1>4. \A u \in steers' : \E s \in steers : u.run = s.run /\ u.message = s.message /\ u \in SteerRows
  <2> TAKE u \in steers'
  <2>1. PICK s \in steers : u = IF s.run = i THEN [s EXCEPT !.claimed = TRUE] ELSE s
    BY <1>1
  <2>2. s \in SteerRows
    BY <1>2
  <2>3. u.run = s.run /\ u.message = s.message /\ u \in SteerRows
    BY <1>3, <2>1, <2>2
  <2> QED
    BY <2>3
<1>5. RowsAreLinked'
  BY <1>1, <1>2, <1>4 DEF SendInv, RowsAreLinked
<1>6. SendShapes' /\ ReadsAreOfThread'
  BY <1>1, <1>4 DEF SendInv, SendShapes, ReadsAreOfThread
<1>7. TranscriptIsGapless' /\ SubmissionIsWhole'
  BY <1>1 DEF SendInv, TranscriptIsGapless, SubmissionIsWhole
<1> QED
  BY <1>5, <1>6, <1>7 DEF SendInv

\* What a step shows that changes the runs in place, and no thread or nonce of one.
LEMMA RunsStay ==
    ASSUME SendInv, runs' \in Seq(RunRows), Len(runs') = Len(runs),
           \A j \in 1 .. Len(runs) : runs'[j].thread = runs[j].thread /\ runs'[j].nonce = runs[j].nonce,
           UNCHANGED req
    PROVE  ReadsAreOfThread'
<1>1. /\ runs \in Seq(RunRows) /\ Len(runs) \in Nat
      /\ \A o \in Requests : req[o] \in Sends /\ OfThread(req[o], runs)
  BY LenProperties DEF SendInv, SendShapes, ReadsAreOfThread
<1>2. Len(runs') >= Len(runs)
  BY <1>1
<1>3. \A o \in Requests : OfThread(req[o], runs')
  BY <1>1, <1>2, ThreadsStay
<1> QED
  BY <1>3 DEF ReadsAreOfThread

\* A run ends and keeps its rows.
LEMMA EndRunKeeps ==
    ASSUME SendInv, NEW i \in 1 .. Len(runs), EndRun(i)
    PROVE  SendInv'
<1>1. /\ runs' = [runs EXCEPT ![i].live = FALSE]
      /\ UNCHANGED <<next, messages, tasks, steers, minted, req, threadClears>>
  BY DEF EndRun
<1>2. runs \in Seq(RunRows) /\ Len(runs) \in Nat /\ \A j \in 1 .. Len(runs) : runs[j] \in RunRows
  BY RunFacts
<1> DEFINE ended == [runs[i] EXCEPT !.live = FALSE]
<1>3. /\ ended \in RunRows /\ ended.thread = runs[i].thread /\ ended.nonce = runs[i].nonce
      /\ ended.source = runs[i].source
  BY <1>2 DEF RunRows
<1>4. runs' = [runs EXCEPT ![i] = ended]
  BY <1>1, <1>2
<1> HIDE DEF ended
<1>5. /\ runs' \in Seq(RunRows) /\ Len(runs') = Len(runs)
      /\ \A j \in 1 .. Len(runs) : runs'[j] = IF j = i THEN ended ELSE runs[j]
  BY <1>2, <1>3, <1>4, ExceptSeq
<1>6. \A j \in 1 .. Len(runs) : /\ runs'[j].thread = runs[j].thread /\ runs'[j].nonce = runs[j].nonce
                              /\ runs'[j].source = runs[j].source
  BY <1>3, <1>5
<1>7. ReadsAreOfThread'
  BY <1>1, <1>5, <1>6, RunsStay
<1>8. RowsAreLinked'
  BY <1>1, <1>5, <1>6 DEF SendInv, RowsAreLinked
<1>9. SendShapes' /\ TranscriptIsGapless'
  BY <1>1, <1>5 DEF SendInv, SendShapes, TranscriptIsGapless
<1>10. SubmissionIsWhole'
  BY <1>1, <1>5, <1>6 DEF SendInv, SubmissionIsWhole
<1> QED
  BY <1>7, <1>8, <1>9, <1>10 DEF SendInv

\* A clear takes a thread's rows, its counter and every link to them together.
LEMMA ClearKeeps ==
    ASSUME SendInv, NEW t \in Threads, clearThread(t)
    PROVE  SendInv'
<1>1. /\ threadClears < MaxThreadClears /\ threadClears' = threadClears + 1
      /\ next' = [next EXCEPT ![t] = 0]
      /\ messages' = {m \in messages : m.thread # t}
      /\ steers' = {s \in steers : Row(s.message).thread # t}
      /\ runs' = [i \in DOMAIN runs |->
                    IF runs[i].thread = t THEN [runs[i] EXCEPT !.source = NoMessage] ELSE runs[i]]
      /\ UNCHANGED <<tasks, minted, req>>
  BY DEF clearThread
<1>2. /\ runs \in Seq(RunRows) /\ Len(runs) \in Nat /\ \A j \in 1 .. Len(runs) : runs[j] \in RunRows
      /\ DOMAIN runs = 1 .. Len(runs) /\ next \in [Threads -> Nat]
      /\ threadClears \in 0 .. MaxThreadClears /\ MaxThreadClears \in Nat
      /\ IsFiniteSet(messages) /\ messages \in SUBSET MessageRows
  BY RunFacts, LenProperties, SendAssumption DEF SendInv, SendShapes
<1>3. /\ messages' \in SUBSET messages /\ IsFiniteSet(messages') /\ steers' \in SUBSET steers
      /\ next' \in [Threads -> Nat] /\ next'[t] = 0 /\ \A u \in Threads : u # t => next'[u] = next[u]
      /\ threadClears' \in 0 .. MaxThreadClears
  <2>1. messages' \in SUBSET messages
    BY <1>1
  <2>2. IsFiniteSet(messages')
    BY <1>2, <2>1, FS_Subset
  <2>3. next' \in [Threads -> Nat] /\ next'[t] = 0 /\ \A u \in Threads : u # t => next'[u] = next[u]
    BY <1>1, <1>2
  <2>4. threadClears' \in 0 .. MaxThreadClears
    BY <1>1, <1>2
  <2> QED
    BY <1>1, <2>1, <2>2, <2>3, <2>4
<1>4. /\ runs' \in Seq(RunRows) /\ Len(runs') = Len(runs)
      /\ \A j \in 1 .. Len(runs) :
           /\ runs'[j].thread = runs[j].thread /\ runs'[j].nonce = runs[j].nonce
           /\ runs'[j].source # NoMessage => runs'[j].source = runs[j].source /\ runs[j].thread # t
  <2>1. \A x \in RunRows : /\ [x EXCEPT !.source = NoMessage] \in RunRows
                           /\ [x EXCEPT !.source = NoMessage].thread = x.thread
                           /\ [x EXCEPT !.source = NoMessage].nonce = x.nonce
                           /\ [x EXCEPT !.source = NoMessage].source = NoMessage
    BY DEF RunRows, NoMessage
  <2>2. \A j \in 1 .. Len(runs) :
           /\ runs'[j] \in RunRows
           /\ runs'[j].thread = runs[j].thread /\ runs'[j].nonce = runs[j].nonce
           /\ runs'[j].source # NoMessage => runs'[j].source = runs[j].source /\ runs[j].thread # t
    <3> TAKE j \in 1 .. Len(runs)
    <3>1. runs'[j] = IF runs[j].thread = t THEN [runs[j] EXCEPT !.source = NoMessage] ELSE runs[j]
      BY <1>1, <1>2
    <3>2. CASE runs[j].thread = t
      BY <1>2, <2>1, <3>1, <3>2
    <3>3. CASE runs[j].thread # t
      BY <1>2, <3>1, <3>3
    <3> QED
      BY <3>2, <3>3
  <2>3. runs' \in [1 .. Len(runs) -> RunRows]
    BY <1>1, <1>2, <2>2
  <2> QED
    BY <1>2, <2>2, <2>3
<1>5. ReadsAreOfThread'
  BY <1>1, <1>4, RunsStay
<1>6. RowsAreLinked'
  <2>1. \A m \in messages : m.id \in 1 .. minted /\ m.run \in 1 .. Len(runs) /\ runs[m.run].thread = m.thread
    BY DEF SendInv, RowsAreLinked
  <2>2. \A m, o \in messages : m.id = o.id => m = o
    BY DEF SendInv, RowsAreLinked
  <2>3. \A s \in steers : s.run \in 1 .. Len(runs) /\ \E m \in messages : m.id = s.message
    BY DEF SendInv, RowsAreLinked
  <2>4. \A s \in steers : Row(s.message) \in messages /\ Row(s.message).id = s.message
    BY <2>3 DEF Row
  <2>5. \A s \in steers' : Row(s.message) \in messages'
    BY <1>1, <2>4
  <2>6. \A s \in steers' : \E m \in messages' : m.id = s.message
    BY <1>3, <2>4, <2>5
  <2> QED
    BY <1>1, <1>3, <1>4, <2>1, <2>2, <2>3, <2>6 DEF RowsAreLinked
<1>7. TranscriptIsGapless'
  <2> SUFFICES ASSUME NEW u \in Threads
               PROVE  /\ {m.seq : m \in {m \in messages' : m.thread = u}} = 0 .. (next'[u] - 1)
                      /\ Cardinality({m \in messages' : m.thread = u}) = next'[u]
    BY DEF TranscriptIsGapless
  <2>1. /\ {m.seq : m \in {m \in messages : m.thread = u}} = 0 .. (next[u] - 1)
        /\ Cardinality({m \in messages : m.thread = u}) = next[u]
    BY DEF SendInv, TranscriptIsGapless
  <2>2. CASE u = t
    <3>1. {m \in messages' : m.thread = u} = {}
      BY <1>1, <2>2
    <3>2. Cardinality({}) = 0 /\ 0 .. (0 - 1) = {}
      BY FS_EmptySet
    <3> QED
      BY <1>3, <2>2, <3>1, <3>2
  <2>3. CASE u # t
    <3>1. {m \in messages' : m.thread = u} = {m \in messages : m.thread = u}
      BY <1>1, <2>3
    <3> QED
      BY <1>3, <2>1, <2>3, <3>1
  <2> QED
    BY <2>2, <2>3
<1>8. SubmissionIsWhole'
  <2>1. /\ tasks = Len(runs)
        /\ \A i, j \in 1 .. Len(runs) : runs[i].nonce = runs[j].nonce => i = j
        /\ \A i \in 1 .. Len(runs) : runs[i].source # NoMessage =>
              \E m \in messages : m.id = runs[i].source /\ m.thread = runs[i].thread
                                  /\ m.nonce = runs[i].nonce /\ m.run = i
    BY DEF SendInv, SubmissionIsWhole
  <2>2. \A i \in 1 .. Len(runs') : runs'[i].source # NoMessage =>
              \E m \in messages' : m.id = runs'[i].source /\ m.thread = runs'[i].thread
                                   /\ m.nonce = runs'[i].nonce /\ m.run = i
    BY <1>1, <1>4, <2>1
  <2> QED
    BY <1>1, <1>4, <2>1, <2>2 DEF SubmissionIsWhole
<1>9. SendShapes'
  BY <1>1, <1>3, <1>4 DEF SendInv, SendShapes
<1> QED
  BY <1>5, <1>6, <1>7, <1>8, <1>9 DEF SendInv

-----------------------------------------------------------------------------
(* The theorems *)

LEMMA SendStarts == SendInit => SendInv
<1> SUFFICES ASSUME SendInit PROVE SendInv
  OBVIOUS
<1>1. /\ next = [t \in Threads |-> 0] /\ messages = {} /\ runs = <<>> /\ tasks = 0 /\ steers = {}
      /\ minted = 0 /\ req = [r \in Requests |-> Fresh] /\ threadClears = 0 /\ MaxThreadClears \in Nat
  BY SendAssumption DEF SendInit
<1>2. Fresh \in Sends /\ \A rs : OfThread(Fresh, rs)
  BY DEF Fresh, Sends, OfThread, NoMessage
<1>3. <<>> \in Seq(RunRows) /\ Len(<<>>) = 0 /\ IsFiniteSet({}) /\ Cardinality({}) = 0
  BY EmptySeq, FS_EmptySet
<1>4. SendShapes
  BY <1>1, <1>2, <1>3 DEF SendShapes
<1>5. ReadsAreOfThread
  BY <1>1, <1>2 DEF ReadsAreOfThread
<1>6. RowsAreLinked /\ SubmissionIsWhole
  BY <1>1, <1>3 DEF RowsAreLinked, SubmissionIsWhole
<1>7. TranscriptIsGapless
  BY <1>1, <1>3 DEF TranscriptIsGapless
<1> QED
  BY <1>4, <1>5, <1>6, <1>7 DEF SendInv

LEMMA SendStays == SendInv /\ UNCHANGED sendVars => SendInv'
<1> SUFFICES ASSUME SendInv, UNCHANGED sendVars PROVE SendInv'
  OBVIOUS
<1>1. UNCHANGED <<next, messages, runs, tasks, steers, minted, req, threadClears>>
  BY DEF sendVars
<1>2. SendShapes' /\ RowsAreLinked'
  BY <1>1 DEF SendInv, SendShapes, RowsAreLinked
<1>3. ReadsAreOfThread'
  BY <1>1 DEF SendInv, ReadsAreOfThread
<1>4. TranscriptIsGapless' /\ SubmissionIsWhole'
  BY <1>1 DEF SendInv, TranscriptIsGapless, SubmissionIsWhole
<1> QED
  BY <1>2, <1>3, <1>4 DEF SendInv

\* Every step of the service, the worker and the operator keeps the invariant.
LEMMA SendStep == SendInv /\ SendNext => SendInv'
  BY LookupKeeps, SteerKeeps, CreateKeeps, AnswerRowKeeps, ClaimKeeps, EndRunKeeps, ClearKeeps DEF SendNext

LEMMA SendAlways == SendSpec => []SendInv
  BY SendStarts, SendStep, SendStays, PTL DEF SendSpec

\* Concurrent sends, retries, steers, answers and clears leave whole submissions, gapless
\* transcripts and answers of the thread that was asked (threads.ts, run-creation.ts).
THEOREM SendsAreSoundProved == SendSpec => []SendsAreSound
<1>1. SendInv => SendsAreSound
  <2> SUFFICES ASSUME SendInv PROVE SendTypeOK /\ AnswersOwnThread
    BY DEF SendsAreSound, SendInv
  <2>1. \A r \in Requests : req[r] \in Sends /\ OfThread(req[r], runs)
    BY RequestFacts
  <2>2. AnswersOwnThread
    BY <2>1 DEF AnswersOwnThread, OfThread
  <2>3. \A r \in Requests : req[r].pc \in {"new", "nonce", "active", "decide", "settled", "answered"}
    BY <2>1 DEF Sends
  <2>4. \A m \in messages : m.thread \in Threads
    BY DEF SendInv, SendShapes, MessageRows
  <2> QED
    BY <2>2, <2>3, <2>4 DEF SendInv, SendShapes, RowsAreLinked, SendTypeOK
<1> QED
  BY <1>1, SendAlways, PTL

\* A steer is only ever written into a run that is live in the same transaction, however
\* stale the lookup that chose it (messages.ts: steer).
THEOREM SteersEnterProved == SendSpec => SteersEnterLiveRuns
<1> DEFINE Enters == \A s \in steers' : (\A u \in steers : u.message # s.message) => runs[s.run].live
<1>1. SendInv /\ SendNext => Enters
  <2> SUFFICES ASSUME SendInv, SendNext, NEW s \in steers', \A u \in steers : u.message # s.message
               PROVE  runs[s.run].live
    OBVIOUS
  <2>0. s \notin steers
    OBVIOUS
  <2>1. CASE \E r \in Requests : steer(r)
    <3>1. PICK r \in Requests : steer(r)
      BY <2>1
    <3>2. \/ UNCHANGED steers
          \/ /\ Steerable(req[r].active)
             /\ steers' = steers \cup {[message |-> minted + 1, run |-> req[r].active, claimed |-> FALSE]}
      BY <3>1 DEF steer
    <3> QED
      BY <2>0, <3>2 DEF Steerable
  <2>2. CASE \E i \in 1 .. Len(runs) : claim(i)
    <3>1. PICK i \in 1 .. Len(runs) : claim(i)
      BY <2>2
    <3>2. steers' = {IF o.run = i THEN [o EXCEPT !.claimed = TRUE] ELSE o : o \in steers}
      BY <3>1 DEF claim
    <3>3. PICK o \in steers : s = IF o.run = i THEN [o EXCEPT !.claimed = TRUE] ELSE o
      BY <3>2
    <3>4. s.message = o.message
      BY <3>3 DEF SendInv, SendShapes, SteerRows
    <3> QED
      BY <3>4
  <2>3. CASE \E t \in Threads : clearThread(t)
    <3>1. steers' \in SUBSET steers
      BY <2>3 DEF clearThread
    <3> QED
      BY <2>0, <3>1
  <2>4. CASE UNCHANGED steers
    BY <2>0, <2>4
  <2> QED
    BY <2>1, <2>2, <2>3, <2>4
       DEF SendNext, Submit, findByNonce, findActiveForThread, AnswerFromLookup, AttachmentMissing,
           createOnce, readByNonce, EndRun, appendAssistant
<1> QED
  BY <1>1, SendAlways, PTL DEF SendSpec, SteersEnterLiveRuns

-----------------------------------------------------------------------------
(* The stream and the mailbox *)

\* The stream is what was recorded followed by what waits in the mailbox.
LEMMA StreamFacts ==
    ASSUME recorded \in Seq(Frames), events \in Seq(Frames)
    PROVE  /\ Stream \in Seq(Frames) /\ Len(Stream) = Len(recorded) + Len(events)
           /\ Len(recorded) \in Nat /\ Len(events) \in Nat
           /\ \A n \in 1 .. Len(recorded) : Stream[n] = recorded[n]
           /\ \A n \in 1 .. Len(events) : Stream[Len(recorded) + n] = events[n]
BY ConcatProperties DEF Stream

\* What Append does to a sequence.
LEMMA AppendFacts ==
    ASSUME NEW T, NEW s \in Seq(T), NEW e \in T
    PROVE  /\ Append(s, e) \in Seq(T) /\ Len(Append(s, e)) = Len(s) + 1 /\ Len(s) \in Nat
           /\ \A n \in 1 .. Len(s) : Append(s, e)[n] = s[n]
           /\ Append(s, e)[Len(s) + 1] = e
BY AppendProperties, LenProperties

\* What Tail does to a sequence.
LEMMA TailFacts ==
    ASSUME NEW T, NEW s \in Seq(T), s # <<>>
    PROVE  /\ Tail(s) \in Seq(T) /\ Len(Tail(s)) = Len(s) - 1 /\ Len(s) \in Nat \ {0}
           /\ \A n \in 1 .. (Len(s) - 1) : Tail(s)[n] = s[n + 1]
           /\ Head(s) \in T /\ Head(s) = s[1]
BY HeadTailProperties, LenProperties, EmptySeq

\* An offer lengthens the stream by its event while the mailbox is open.
LEMMA OfferFacts ==
    ASSUME QueuesAreTyped, NEW e \in Frames, Offer(e), UNCHANGED recorded
    PROVE  /\ events' \in Seq(Frames) /\ Stream' \in Seq(Frames)
           /\ eventsEnd # "open" => events' = events /\ Stream' = Stream
           /\ eventsEnd = "open" => /\ Stream' = Append(Stream, e) /\ Len(Stream') = Len(Stream) + 1
                                    /\ \A n \in 1 .. Len(Stream) : Stream'[n] = Stream[n]
                                    /\ Stream'[Len(Stream) + 1] = e
<1>0. recorded \in Seq(Frames) /\ events \in Seq(Frames) /\ Stream \in Seq(Frames)
  BY StreamFacts DEF QueuesAreTyped
<1>1. CASE eventsEnd # "open"
  BY <1>0, <1>1 DEF Offer, Stream
<1>2. CASE eventsEnd = "open"
  <2>1. events' = Append(events, e) /\ events' \in Seq(Frames)
    BY <1>0, <1>2, AppendFacts DEF Offer
  <2>2. Stream' = recorded \o (events \o <<e>>)
    BY <1>0, <2>1, AppendIsConcat DEF Stream
  <2>3. Stream' = (recorded \o events) \o <<e>>
    BY <1>0, <2>2, ConcatAssociative
  <2>4. Stream' = Append(Stream, e)
    BY <1>0, <2>3, AppendIsConcat DEF Stream
  <2> QED
    BY <1>0, <1>2, <2>1, <2>4, AppendFacts
<1> QED
  BY <1>1, <1>2

\* Recording an event moves it from the mailbox and leaves the stream as it was.
LEMMA ConsumeFacts ==
    ASSUME QueuesAreTyped, Consume
    PROVE  /\ events' \in Seq(Frames) /\ recorded' \in Seq(Frames) /\ Stream' = Stream
           /\ Len(recorded') = Len(recorded) + 1 /\ recorded'[Len(recorded')] = Head(events)
           /\ \A n \in 1 .. Len(recorded) : recorded'[n] = recorded[n]
           /\ Len(events') = Len(events) - 1
<1>0. recorded \in Seq(Frames) /\ events \in Seq(Frames) /\ events # <<>>
  BY DEF QueuesAreTyped, Consume
<1>1. /\ events' = Tail(events) /\ recorded' = Append(recorded, Head(events))
      /\ Head(events) \in Frames /\ Tail(events) \in Seq(Frames)
  BY <1>0, TailFacts DEF Consume
<1>2. recorded' = recorded \o <<Head(events)>>
  BY <1>0, <1>1, AppendIsConcat
<1>3. Stream' = recorded \o (<<Head(events)>> \o Tail(events))
  BY <1>0, <1>1, <1>2, ConcatAssociative DEF Stream
<1>4. <<Head(events)>> \o Tail(events) = events
  BY <1>0, HeadTailProperties, ConcatProperties
<1> QED
  BY <1>0, <1>1, <1>3, <1>4, AppendFacts, TailFacts DEF Stream

-----------------------------------------------------------------------------
(* What a step may do to the stream *)

\* A step that leaves the stream alone, and opens nothing, keeps its numbers.
LEMMA StreamStays ==
    ASSUME SessionInv, UNCHANGED <<recorded, events, outcome>>, finished => finished',
           eventsEnd' = "open" => eventsEnd = "open", UNCHANGED sessionSeq
    PROVE  NumbersGoOn' /\ OutcomeIsRecorded'
<1>1. Stream' = Stream
  BY DEF Stream
<1>2. NumbersGoOn /\ OutcomeIsRecorded
  BY DEF SessionInv
<1> QED
  BY <1>1, <1>2 DEF NumbersGoOn, OutcomeIsRecorded

\* A step that leaves the stream and the corrections in hand alone keeps the acknowledgements.
LEMMA AcksStay ==
    ASSUME SessionInv, Stream' = Stream, UNCHANGED <<given, loop, command>>,
           eventsEnd' = "open" => eventsEnd = "open"
    PROVE  AcksKeepUp' /\ SteersInOrder'
<1>1. Acks' = Acks /\ InHand' = InHand /\ (\A id, n : Acked(id, n)' <=> Acked(id, n)) /\ \A id : IsAcked(id)' <=> IsAcked(id)
  BY DEF Acks, InHand, Acked, IsAcked
<1>2. AcksKeepUp /\ SteersInOrder
  BY DEF SessionInv
<1>3. AcksKeepUp'
  BY <1>1, <1>2 DEF AcksKeepUp
<1>4. SteersInOrder'
  BY <1>1, <1>2 DEF SteersInOrder
<1> QED
  BY <1>3, <1>4

\* Corrections that stay where they are stay in order.
LEMMA OrderStays ==
    ASSUME SessionInv, UNCHANGED <<given, commands, held, correction>>
    PROVE  NoneOvertakes'
<1>1. NoneOvertakes
  BY DEF SessionInv
<1> QED
  BY <1>1 DEF NoneOvertakes, Rising, Before, Claimed

\* A numbered event offered to the mailbox keeps the numbers, and an end closes it.
LEMMA OfferKeepsNumbers ==
    ASSUME SessionInv, SessionTypeOK', NEW e \in Frames, e.seq = sessionSeq, Offer(e),
           UNCHANGED <<recorded, outcome>>, sessionSeq' = sessionSeq + 1,
           finished => finished', e.type \in Terminals => finished'
    PROVE  NumbersGoOn' /\ OutcomeIsRecorded'
<1>1. QueuesAreTyped /\ NumbersGoOn /\ OutcomeIsRecorded /\ SessionTypeOK
  BY DEF SessionInv
<1>2. /\ recorded \in Seq(Frames) /\ events \in Seq(Frames)
      /\ Stream \in Seq(Frames) /\ Len(Stream) \in Nat
  BY <1>1, StreamFacts, LenProperties DEF QueuesAreTyped
<1>3. CASE eventsEnd # "open"
  <2>1. Stream' = Stream /\ events' = events /\ finished /\ finished' /\ eventsEnd' # "open"
    BY <1>1, <1>3, OfferFacts DEF SessionTypeOK
  <2> QED
    BY <1>1, <2>1 DEF NumbersGoOn, OutcomeIsRecorded
<1>4. CASE eventsEnd = "open"
  <2>1. /\ Len(Stream') = Len(Stream) + 1 /\ Stream'[Len(Stream) + 1] = e
        /\ \A n \in 1 .. Len(Stream) : Stream'[n] = Stream[n]
    BY <1>1, <1>4, OfferFacts
  <2>2. ~finished /\ sessionSeq = Len(Stream) + 1
    BY <1>1, <1>4 DEF SessionTypeOK, NumbersGoOn
  <2>3. \A n \in 1 .. Len(Stream) : Stream[n].type \notin Terminals
    BY <1>1, <2>2 DEF NumbersGoOn
  <2>4. \A n \in 1 .. Len(Stream') : n \in 1 .. Len(Stream) \/ n = Len(Stream) + 1
    BY <1>2, <2>1
  <2>5. NumbersGoOn'
    <3>1. \A n \in 1 .. Len(Stream') : Stream'[n].seq = n
      BY <1>1, <2>1, <2>2, <2>4 DEF NumbersGoOn
    <3>2. \A n \in 1 .. Len(Stream') : Stream'[n].type \in Terminals => n = Len(Stream') /\ finished'
      BY <2>1, <2>3, <2>4
    <3> QED
      BY <1>2, <2>1, <2>2, <3>1, <3>2 DEF NumbersGoOn
  <2>6. outcome \notin Terminals
    <3>1. SUFFICES ASSUME outcome \in Terminals PROVE FALSE
      OBVIOUS
    <3>2. recorded # <<>> /\ recorded[Len(recorded)].type \in Terminals
      BY <1>1, <3>1 DEF OutcomeIsRecorded
    <3>3. Len(recorded) \in 1 .. Len(recorded) /\ Len(recorded) \in 1 .. Len(Stream)
      BY <1>2, <3>2, StreamFacts, EmptySeq, LenProperties
    <3> QED
      BY <1>2, <2>3, <3>2, <3>3, StreamFacts
  <2> QED
    BY <1>1, <2>5, <2>6 DEF OutcomeIsRecorded
<1> QED
  BY <1>3, <1>4

\* An event that is no acknowledgement keeps the acknowledgements.
LEMMA OfferKeepsAcks ==
    ASSUME SessionInv, NEW e \in Frames, e.type # "run.steered", Offer(e),
           UNCHANGED <<recorded, given>>, eventsEnd' = "open" => eventsEnd = "open",
           (UNCHANGED <<loop, command>>) \/ (~InHand /\ ~InHand')
    PROVE  AcksKeepUp' /\ SteersInOrder'
<1>1. QueuesAreTyped /\ AcksKeepUp /\ SteersInOrder
  BY DEF SessionInv
<1>2. Stream \in Seq(Frames) /\ Len(Stream) \in Nat
  BY <1>1, StreamFacts, LenProperties DEF QueuesAreTyped
<1>3. /\ Len(Stream') = Len(Stream) \/ Len(Stream') = Len(Stream) + 1
      /\ \A n \in 1 .. Len(Stream) : Stream'[n] = Stream[n]
      /\ Len(Stream') # Len(Stream) => Stream'[Len(Stream) + 1] = e
  BY <1>1, <1>2, OfferFacts
<1>4. Acks' = Acks /\ \A n \in Acks : Stream'[n] = Stream[n] /\ n \in 1 .. Len(Stream)
  BY <1>2, <1>3 DEF Acks
<1>5. \A id, n : Acked(id, n)' <=> Acked(id, n)
  BY <1>4 DEF Acked
<1>6. \A id : IsAcked(id)' <=> IsAcked(id)
  BY <1>4 DEF IsAcked
<1>7. InHand' <=> InHand
  BY DEF InHand
<1>8. InHand => command' = command
  OBVIOUS
<1>9. SteersInOrder'
  <2>1. \A i, n \in Acks : i < n => Stream'[i].steer < Stream'[n].steer
    BY <1>1, <1>4 DEF SteersInOrder
  <2>2. \A n \in Acks' : \E m \in 1 .. Len(given') :
          Stream'[n].steer = given'[m] /\ \A k \in 1 .. (m - 1) : Acked(given[k], n)'
    BY <1>1, <1>4, <1>5 DEF SteersInOrder
  <2> QED
    BY <1>1, <1>4, <2>1, <2>2 DEF SteersInOrder
<1>10. AcksKeepUp'
  <2>1. InHand' => /\ given' # <<>> /\ command' = given'[Len(given')]
                   /\ \A n \in Acks' : Stream'[n].steer < command'
    BY <1>1, <1>4, <1>7, <1>8 DEF AcksKeepUp
  <2>2. eventsEnd' = "open" => \A k \in 1 .. Len(given') :
          (InHand' /\ k = Len(given')) \/ IsAcked(given[k])'
    BY <1>1, <1>6, <1>7 DEF AcksKeepUp
  <2> QED
    BY <2>1, <2>2 DEF AcksKeepUp
<1> QED
  BY <1>9, <1>10

-----------------------------------------------------------------------------
(* The agent and the pump *)

LEMMA AgentKeeps == SessionInv /\ Agent => SessionInv'
<1> SUFFICES ASSUME SessionInv, Agent PROVE SessionInv'
  OBVIOUS
<1>1. UNCHANGED <<pumpVars, mailVars, loopVars, pollVars, recorded, outcome>>
  BY DEF Agent
<1> USE <1>1 DEF pumpVars, mailVars, loopVars, pollVars
<1>2. SessionTypeOK /\ QueuesAreTyped
  BY DEF SessionInv
<1>3. SessionTypeOK'
  BY <1>2 DEF SessionTypeOK, Agent, AgentStarts, AgentStreams, AgentEnds, AgentBreaks
<1>4. \A e : Push(e) => source' = source \/ source' = Append(source, e)
  BY DEF Push
<1>5. \/ source' = source
      \/ \E e \in {"agent_start", "text_delta", "stop", "error", "aborted", "malformed"} :
           source' = Append(source, e)
  BY <1>4 DEF Agent, AgentStarts, AgentStreams, AgentEnds, AgentBreaks
<1>6. QueuesAreTyped'
  <2> DEFINE Events == {"agent_start", "text_delta", "stop", "error", "aborted", "malformed"}
  <2>1. source \in Seq(Events)
    BY <1>2 DEF QueuesAreTyped
  <2> HIDE DEF Events
  <2>2. source' \in Seq(Events)
    BY <1>5, <2>1, AppendFacts DEF Events
  <2> QED
    BY <1>2, <2>2 DEF QueuesAreTyped, Events
<1>7. Stream' = Stream
  BY DEF Stream
<1> QED
  BY <1>3, <1>6, <1>7, StreamStays, AcksStay, OrderStays DEF SessionInv

\* The events the pump and the command loop number are frames of the stream.
LEMMA FrameFacts ==
    ASSUME SessionTypeOK, NEW id \in 0 .. Steers,
           NEW type \in Terminals \cup {"run.started", "token.delta", "run.steered"}
    PROVE  /\ Frame(type, id) \in Frames /\ Frame(type, id).seq = sessionSeq
           /\ Frame(type, id).type = type /\ Frame(type, id).steer = id
BY DEF Frame, Frames, SessionTypeOK

LEMMA PumpKeeps == SessionInv /\ Pump => SessionInv'
<1> SUFFICES ASSUME SessionInv, Pump PROVE SessionInv'
  OBVIOUS
<1>1. UNCHANGED <<loopVars, pollVars, recorded, outcome>>
  BY DEF Pump
<1> USE <1>1 DEF loopVars, pollVars
<1>2. SessionTypeOK /\ QueuesAreTyped
  BY DEF SessionInv
<1>3. CASE PumpNext
  <2>1. UNCHANGED <<sessionSeq, events, commands, agent>>
    BY <1>3 DEF PumpNext, Fail
  <2>2. /\ finished => finished' /\ UNCHANGED eventsEnd
        /\ (UNCHANGED <<finished, eventsEnd, commandsEnd>>)
           \/ (finished' = TRUE /\ eventsEnd' = "failed" /\ commandsEnd' = TRUE)
    BY <1>3 DEF PumpNext, Fail
  <2>3. pump' \in {"next", "translate", "done"}
    BY <1>3 DEF PumpNext
  <2>4. SessionTypeOK'
    BY <1>2, <2>1, <2>2, <2>3 DEF SessionTypeOK
  <2>5. source' = source \/ (source # <<>> /\ source' = Tail(source))
    BY <1>3 DEF PumpNext, Fail, agentVars
  <2>6. QueuesAreTyped'
    <3> DEFINE T == {"agent_start", "text_delta", "stop", "error", "aborted", "malformed"}
    <3>1. source \in Seq(T)
      BY <1>2 DEF QueuesAreTyped
    <3> HIDE DEF T
    <3>2. source' \in Seq(T)
      BY <2>5, <3>1, TailFacts
    <3> QED
      BY <1>2, <2>1, <3>2 DEF QueuesAreTyped, T
  <2>7. Stream' = Stream
    BY <2>1 DEF Stream
  <2>8. finished => finished'
    BY <2>2
  <2>9. eventsEnd' = "open" => eventsEnd = "open"
    BY <2>2
  <2> QED
    BY <2>1, <2>4, <2>6, <2>7, <2>8, <2>9, StreamStays, AcksStay, OrderStays DEF SessionInv
<1>4. CASE PumpTranslate
  <2>1. UNCHANGED <<commands, agent, source>>
    BY <1>4 DEF PumpTranslate, Finish, Fail, CloseSource, agentVars
  <2>2. CASE taken = "malformed" /\ Fail /\ UNCHANGED sessionSeq /\ pump' = "done"
    <3>1. UNCHANGED events /\ (finished => finished') /\ (eventsEnd' = "open" => eventsEnd = "open")
      BY <2>2 DEF Fail
    <3>2. SessionTypeOK'
      BY <1>2, <2>1, <2>2 DEF SessionTypeOK, Fail
    <3>3. QueuesAreTyped'
      BY <1>2, <2>1, <3>1 DEF QueuesAreTyped
    <3>4. Stream' = Stream
      BY <3>1 DEF Stream
    <3> QED
      BY <2>1, <2>2, <3>1, <3>2, <3>3, <3>4, StreamStays, AcksStay, OrderStays DEF SessionInv
  <2>3. CASE \E type \in Terminals \cup {"run.started", "token.delta"} :
               /\ Offer(Frame(type, 0)) /\ sessionSeq' = sessionSeq + 1 /\ pump' \in {"next", "done"}
               /\ \/ type \notin Terminals /\ UNCHANGED <<finished, eventsEnd, commandsEnd>>
                  \/ Finish
    <3>1. PICK type \in Terminals \cup {"run.started", "token.delta"} :
               /\ Offer(Frame(type, 0)) /\ sessionSeq' = sessionSeq + 1 /\ pump' \in {"next", "done"}
               /\ \/ type \notin Terminals /\ UNCHANGED <<finished, eventsEnd, commandsEnd>>
                  \/ Finish
      BY <2>3
    <3>2. /\ finished => finished'
          /\ type \in Terminals => finished'
          /\ eventsEnd' = "open" => eventsEnd = "open"
      BY <1>2, <3>1 DEF Finish, SessionTypeOK
    <3>3. SessionTypeOK'
      BY <1>2, <2>1, <3>1 DEF SessionTypeOK, Finish
    <3>4. 0 \in 0 .. Steers
      BY SessionAssumption
    <3> DEFINE e == Frame(type, 0)
    <3>5. e \in Frames /\ e.seq = sessionSeq /\ e.type = type /\ type # "run.steered"
      BY <1>2, <3>1, <3>4, FrameFacts DEF Terminals
    <3> HIDE DEF e
    <3>6. Offer(e)
      BY <3>1 DEF e
    <3>7. QueuesAreTyped'
      BY <1>2, <2>1, <3>5, <3>6, OfferFacts DEF QueuesAreTyped
    <3>8. NumbersGoOn' /\ OutcomeIsRecorded'
      BY <3>1, <3>2, <3>3, <3>5, <3>6, OfferKeepsNumbers
    <3>9. AcksKeepUp' /\ SteersInOrder'
      BY <3>2, <3>5, <3>6, OfferKeepsAcks
    <3> QED
      BY <2>1, <3>3, <3>7, <3>8, <3>9, OrderStays DEF SessionInv
  <2> QED
    BY <1>4, <2>2, <2>3 DEF PumpTranslate, Terminal, Terminals
<1> QED
  BY <1>3, <1>4 DEF Pump

-----------------------------------------------------------------------------
(* The command loop *)

\* The next correction comes after every one the agent was given, and is not acknowledged.
LEMMA TakeKeeps ==
    ASSUME SessionInv, Running, CommandTake, UNCHANGED <<pump, taken, pollVars, recorded, outcome>>
    PROVE  SessionInv'
<1>0. UNCHANGED <<agent, source, sessionSeq, finished, events, eventsEnd, commandsEnd,
                  pump, poller, held, correction, recorded, outcome>>
  BY DEF CommandTake, pollVars
<1>1. SessionTypeOK /\ QueuesAreTyped /\ NoneOvertakes /\ AcksKeepUp /\ SteersInOrder
  BY DEF SessionInv
<1> DEFINE c == Head(commands)
<1>2. /\ commands # <<>> /\ commands' = Tail(commands) /\ commands \in Seq(0 .. Steers)
      /\ given \in Seq(1 .. Steers) /\ loop = "take"
  BY <1>1 DEF CommandTake, QueuesAreTyped
<1>3. /\ c \in 0 .. Steers /\ c = commands[1] /\ Tail(commands) \in Seq(0 .. Steers)
      /\ Len(Tail(commands)) = Len(commands) - 1 /\ Len(commands) \in Nat \ {0}
      /\ \A n \in 1 .. (Len(commands) - 1) : Tail(commands)[n] = commands[n + 1]
  BY <1>2, TailFacts
<1>4. SessionTypeOK'
  BY <1>0, <1>1 DEF SessionTypeOK, CommandTake
<1>5. NumbersGoOn' /\ OutcomeIsRecorded'
  BY <1>0, StreamStays
<1>6. Stream' = Stream /\ Acks' = Acks
  BY <1>0 DEF Stream, Acks
<1>7. \A n \in 1 .. Len(commands') : commands'[n] = commands[n + 1] /\ n + 1 \in 1 .. Len(commands)
  BY <1>2, <1>3
<1>8. /\ Rising(commands)' /\ Before(commands, held)' /\ Claimed(commands)'
  <2>1. Rising(commands) /\ Before(commands, held) /\ Claimed(commands)
    BY <1>1 DEF NoneOvertakes
  <2>2. Rising(commands)'
    <3>1. ASSUME NEW m \in 1 .. Len(commands'), NEW n \in 1 .. Len(commands'), m < n,
                 commands'[m] # 0, commands'[n] # 0
          PROVE  commands'[m] < commands'[n]
      BY <1>7, <2>1, <3>1 DEF Rising
    <3> QED
      BY <3>1 DEF Rising
  <2> QED
    BY <1>0, <1>7, <2>1, <2>2 DEF Before, Claimed
<1>9. CASE given' = given
  <2>1. Before(given, commands)'
    BY <1>1, <1>7, <1>9 DEF NoneOvertakes, Before
  <2>2. NoneOvertakes'
    BY <1>0, <1>1, <1>8, <1>9, <2>1 DEF NoneOvertakes, Rising, Before, Claimed
  <2>3. command' = command \/ (command' = 0 /\ c = 0)
    BY <1>2, <1>3, <1>9, AppendFacts DEF CommandTake
  <2>4. ~InHand /\ ~InHand'
    <3>1. CASE finished
      BY <1>2, <3>1 DEF InHand, CommandTake
    <3>2. CASE ~finished
      <4>1. command' = c /\ (c = 0 \/ given' = Append(given, c))
        BY <3>2 DEF CommandTake
      <4>2. c # 0 => Len(given') = Len(given) + 1 /\ Len(given) \in Nat
        BY <1>2, <1>3, <4>1, AppendFacts
      <4> QED
        BY <1>2, <1>9, <4>1, <4>2 DEF InHand
    <3> QED
      BY <3>1, <3>2
  <2>5. \A id : IsAcked(id)' <=> IsAcked(id)
    BY <1>6 DEF IsAcked
  <2>6. AcksKeepUp'
    BY <1>0, <1>1, <1>9, <2>4, <2>5 DEF AcksKeepUp
  <2>7. SteersInOrder'
    BY <1>1, <1>6, <1>9 DEF SteersInOrder, Acked
  <2>8. QueuesAreTyped'
    BY <1>0, <1>1, <1>2, <1>3, <1>9, <2>3 DEF QueuesAreTyped
  <2> QED
    BY <1>4, <1>5, <2>2, <2>6, <2>7, <2>8 DEF SessionInv
<1>10. CASE c # 0 /\ given' = Append(given, c) /\ command' = c /\ loop' = "control"
  <2>1. c \in 1 .. Steers
    BY <1>3, <1>10
  <2>2. /\ given' \in Seq(1 .. Steers) /\ Len(given') = Len(given) + 1 /\ Len(given) \in Nat
        /\ \A n \in 1 .. Len(given) : given'[n] = given[n] /\ given[n] \in 1 .. Steers
        /\ given'[Len(given) + 1] = c
    <3>1. given' = Append(given, c) /\ given \in Seq(1 .. Steers)
      BY <1>2, <1>10
    <3> HIDE DEF c
    <3>2. /\ given' \in Seq(1 .. Steers) /\ Len(given') = Len(given) + 1 /\ Len(given) \in Nat
          /\ \A n \in 1 .. Len(given) : given'[n] = given[n]
          /\ given'[Len(given) + 1] = c
      BY <2>1, <3>1, AppendFacts
    <3>3. \A n \in 1 .. Len(given) : given[n] \in 1 .. Steers
      BY <3>1, ElementOfSeq
    <3> QED
      BY <3>2, <3>3
  <2>3. \A n \in 1 .. Len(given') : n \in 1 .. Len(given) \/ n = Len(given) + 1
    BY <2>2
  <2>4. 1 \in 1 .. Len(commands)
    BY <1>3
  <2>5. \A n \in 1 .. Len(given) : given[n] < c
    BY <1>1, <1>3, <2>1, <2>2, <2>4 DEF NoneOvertakes, Before
  <2>6. Rising(given)'
    <3>1. Rising(given)
      BY <1>1 DEF NoneOvertakes
    <3>2. ASSUME NEW m \in 1 .. Len(given'), NEW n \in 1 .. Len(given'), m < n
          PROVE  given'[m] < given'[n]
      <4>1. m \in 1 .. Len(given)
        BY <2>2, <2>3, <3>2
      <4>2. CASE n \in 1 .. Len(given)
        BY <2>2, <3>1, <3>2, <4>1, <4>2 DEF Rising
      <4>3. CASE n = Len(given) + 1
        BY <2>2, <2>5, <4>1, <4>3
      <4> QED
        BY <2>3, <4>2, <4>3
    <3> QED
      BY <3>2 DEF Rising
  <2>7. Before(given, commands)'
    <3>1. ASSUME NEW m \in 1 .. Len(given'), NEW n \in 1 .. Len(commands'), commands'[n] # 0
          PROVE  given'[m] < commands'[n]
      <4>1. commands[n + 1] # 0 /\ n + 1 \in 1 .. Len(commands) /\ commands'[n] = commands[n + 1] /\ 1 < n + 1
        BY <1>7, <3>1
      <4>2. CASE m \in 1 .. Len(given)
        <5>1. given[m] # 0 /\ given'[m] = given[m]
          BY <2>2, <4>2
        <5> QED
          BY <1>1, <4>1, <4>2, <5>1 DEF NoneOvertakes, Before
      <4>3. CASE m = Len(given) + 1
        BY <1>1, <1>3, <1>10, <2>2, <2>4, <4>1, <4>3 DEF NoneOvertakes, Rising
      <4> QED
        BY <2>3, <4>2, <4>3
    <3> QED
      BY <3>1 DEF Before
  <2>8. Before(given, held)' /\ Claimed(given)'
    <3>1. ASSUME NEW m \in 1 .. Len(given') PROVE correction[given'[m]] = "claimed" /\
                 \A n \in 1 .. Len(held) : held[n] # 0 => given'[m] < held[n]
      <4>1. CASE m \in 1 .. Len(given)
        <5>1. given[m] # 0 /\ given'[m] = given[m]
          BY <2>2, <4>1
        <5> QED
          BY <1>1, <4>1, <5>1 DEF NoneOvertakes, Before, Claimed
      <4>2. CASE m = Len(given) + 1
        BY <1>1, <1>3, <1>10, <2>2, <2>4, <4>2 DEF NoneOvertakes, Before, Claimed
      <4> QED
        BY <2>3, <4>1, <4>2
    <3> QED
      BY <1>0, <3>1 DEF Before, Claimed
  <2>9. NoneOvertakes'
    <3>1. Rising(held)' /\ Claimed(held)'
      BY <1>0, <1>1 DEF NoneOvertakes, Rising, Claimed
    <3> QED
      BY <1>0, <1>1, <1>8, <2>6, <2>7, <2>8, <3>1 DEF NoneOvertakes
  <2>10. \A id : IsAcked(id)' <=> IsAcked(id)
    BY <1>6 DEF IsAcked
  <2>11. \A n \in Acks : Stream[n].steer < c
    <3>1. ASSUME NEW n \in Acks PROVE Stream[n].steer < c
      <4>1. PICK m \in 1 .. Len(given) : Stream[n].steer = given[m]
        BY <1>1 DEF SteersInOrder
      <4> QED
        BY <2>5, <4>1
    <3> QED
      BY <3>1
  <2>12. ~InHand /\ InHand'
    BY <1>2, <1>10 DEF InHand
  <2>13. AcksKeepUp'
    <3>1. given' # <<>> /\ command' = given'[Len(given')]
      BY <1>10, <2>2, EmptySeq
    <3>2. \A n \in Acks' : Stream'[n].steer < command'
      BY <1>6, <1>10, <2>11
    <3>3. eventsEnd' = "open" => \A k \in 1 .. Len(given') : k = Len(given') \/ IsAcked(given[k])'
      <4>1. eventsEnd' = "open" => \A k \in 1 .. Len(given) : IsAcked(given[k])
        BY <1>0, <1>1, <2>12 DEF AcksKeepUp
      <4>2. ASSUME NEW k \in 1 .. Len(given), IsAcked(given[k]) PROVE IsAcked(given[k])'
        BY <1>6, <2>2, <4>2 DEF IsAcked
      <4> QED
        BY <2>2, <2>3, <4>1, <4>2
    <3> QED
      BY <2>12, <3>1, <3>2, <3>3 DEF AcksKeepUp
  <2>14. SteersInOrder'
    <3>1. \A m, n \in 1 .. Len(given') : m < n => given'[m] < given'[n]
      <4>1. \A n \in 1 .. Len(given') : given'[n] # 0
        BY <2>1, <2>2, <2>3
      <4> QED
        BY <2>6, <4>1 DEF Rising
    <3>2. \A i, n \in Acks' : i < n => Stream'[i].steer < Stream'[n].steer
      BY <1>1, <1>6 DEF SteersInOrder
    <3>3. ASSUME NEW n \in Acks'
          PROVE  \E m \in 1 .. Len(given') : Stream'[n].steer = given'[m]
                    /\ \A k \in 1 .. (m - 1) : Acked(given[k], n)'
      <4>1. PICK m \in 1 .. Len(given) :
              Stream[n].steer = given[m] /\ \A k \in 1 .. (m - 1) : Acked(given[k], n)
        BY <1>1, <1>6 DEF SteersInOrder
      <4>2. m \in 1 .. Len(given') /\ Stream'[n].steer = given'[m]
        BY <1>6, <2>2, <4>1
      <4>3. ASSUME NEW k \in 1 .. (m - 1) PROVE Acked(given[k], n)'
        <5>1. k \in 1 .. Len(given) /\ Acked(given[k], n)
          BY <2>2, <4>1
        <5> QED
          BY <1>6, <2>2, <5>1 DEF Acked
      <4> QED
        BY <4>2, <4>3
    <3> QED
      BY <3>1, <3>2, <3>3 DEF SteersInOrder
  <2>15. QueuesAreTyped'
    BY <1>0, <1>1, <1>2, <1>3, <1>10, <2>2 DEF QueuesAreTyped
  <2> QED
    BY <1>4, <1>5, <2>9, <2>13, <2>14, <2>15 DEF SessionInv
<1> QED
  BY <1>9, <1>10 DEF CommandTake

\* The acknowledgement of the correction in hand is the stream's newest.
LEMMA AcknowledgeKeeps ==
    ASSUME SessionInv, InHand, Offer(Frame("run.steered", command)), loop' = "take",
           UNCHANGED <<eventsEnd, given, command, recorded>>
    PROVE  AcksKeepUp' /\ SteersInOrder'
<1>1. SessionTypeOK /\ QueuesAreTyped /\ AcksKeepUp /\ SteersInOrder
  BY DEF SessionInv
<1> DEFINE e == Frame("run.steered", command)
<1>2. e \in Frames /\ e.type = "run.steered" /\ e.steer = command /\ Offer(e)
  BY <1>1, FrameFacts DEF QueuesAreTyped
<1> HIDE DEF e
<1>3. Stream \in Seq(Frames) /\ Len(Stream) \in Nat /\ given \in Seq(1 .. Steers) /\ Len(given) \in Nat
  BY <1>1, StreamFacts, LenProperties DEF QueuesAreTyped
<1>4. given # <<>> /\ command = given[Len(given)] /\ \A n \in Acks : Stream[n].steer < command
  BY <1>1 DEF AcksKeepUp
<1>5. ~InHand'
  BY DEF InHand
<1>6. CASE eventsEnd # "open"
  <2>1. Stream' = Stream /\ Acks' = Acks
    BY <1>1, <1>2, <1>6, OfferFacts DEF Acks
  <2> QED
    BY <1>1, <1>5, <1>6, <2>1 DEF AcksKeepUp, SteersInOrder, Acked
<1>7. CASE eventsEnd = "open"
  <2>1. /\ Len(Stream') = Len(Stream) + 1 /\ Stream'[Len(Stream) + 1] = e
        /\ \A n \in 1 .. Len(Stream) : Stream'[n] = Stream[n]
    BY <1>1, <1>2, <1>7, OfferFacts
  <2>2. /\ Acks' = Acks \cup {Len(Stream) + 1}
        /\ \A n \in Acks : Stream'[n] = Stream[n] /\ n \in 1 .. Len(Stream)
    BY <1>2, <1>3, <2>1 DEF Acks
  <2>3. Len(given) \in 1 .. Len(given)
    BY <1>3, <1>4, EmptySeq
  <2>4. \A k \in 1 .. (Len(given) - 1) : \E i \in Acks : Stream[i].steer = given[k]
    BY <1>1, <1>3, <1>7 DEF AcksKeepUp, IsAcked
  <2>5. AcksKeepUp'
    <3>1. ASSUME NEW k \in 1 .. Len(given) PROVE \E i \in Acks' : Stream'[i].steer = given[k]
      <4>1. CASE k = Len(given)
        BY <1>2, <1>4, <2>1, <2>2, <4>1
      <4>2. CASE k # Len(given)
        BY <1>3, <2>2, <2>4, <4>2
      <4> QED
        BY <4>1, <4>2
    <3> QED
      BY <1>5, <3>1 DEF AcksKeepUp, IsAcked
  <2>6. SteersInOrder'
    <3>1. ASSUME NEW i \in Acks', NEW n \in Acks', i < n
          PROVE  Stream'[i].steer < Stream'[n].steer
      <4>1. i \in Acks
        BY <1>3, <2>2, <3>1
      <4>2. CASE n \in Acks
        BY <1>1, <2>2, <3>1, <4>1, <4>2 DEF SteersInOrder
      <4>3. CASE n = Len(Stream) + 1
        BY <1>2, <1>4, <2>1, <2>2, <4>1, <4>3
      <4> QED
        BY <2>2, <4>2, <4>3
    <3>2. ASSUME NEW n \in Acks'
          PROVE  \E m \in 1 .. Len(given) : Stream'[n].steer = given[m]
                    /\ \A k \in 1 .. (m - 1) : \E i \in Acks' : i < n /\ Stream'[i].steer = given[k]
      <4>1. CASE n \in Acks
        <5>1. PICK m \in 1 .. Len(given) : Stream[n].steer = given[m]
                 /\ \A k \in 1 .. (m - 1) : \E i \in Acks : i < n /\ Stream[i].steer = given[k]
          BY <1>1, <4>1 DEF SteersInOrder, Acked
        <5>2. Stream'[n].steer = given[m]
          BY <2>2, <4>1, <5>1
        <5>3. \A k \in 1 .. (m - 1) : \E i \in Acks' : i < n /\ Stream'[i].steer = given[k]
          BY <2>2, <5>1
        <5> QED
          BY <5>2, <5>3
      <4>2. CASE n = Len(Stream) + 1
        <5>1. Stream'[n].steer = given[Len(given)]
          BY <1>2, <1>4, <2>1, <4>2
        <5>2. \A i \in Acks : i < n
          BY <1>3, <2>2, <4>2
        <5>3. \A k \in 1 .. (Len(given) - 1) : \E i \in Acks' : i < n /\ Stream'[i].steer = given[k]
          BY <2>2, <2>4, <5>2
        <5> QED
          BY <2>3, <5>1, <5>3
      <4> QED
        BY <2>2, <4>1, <4>2
    <3>3. \A m, n \in 1 .. Len(given) : m < n => given[m] < given[n]
      BY <1>1 DEF SteersInOrder
    <3> QED
      BY <3>1, <3>2, <3>3 DEF SteersInOrder, Acked
  <2> QED
    BY <2>5, <2>6
<1> QED
  BY <1>6, <1>7

LEMMA ApplyKeeps ==
    ASSUME SessionInv, Running, CommandApply, UNCHANGED <<pump, taken, pollVars, recorded, outcome>>
    PROVE  SessionInv'
<1>0. UNCHANGED <<commands, command, given, pump, poller, held, correction, recorded, outcome>>
  BY DEF CommandApply, pollVars
<1>1. SessionTypeOK /\ QueuesAreTyped /\ loop = "control"
  BY DEF SessionInv, CommandApply
<1>2. NoneOvertakes'
  BY <1>0, OrderStays
<1>3. UNCHANGED <<agent, source>>
  BY DEF CommandApply, Finish, CloseSource, agentVars
<1>4. CASE command # 0
  <2>1. /\ loop' = "take" /\ Offer(Frame("run.steered", command)) /\ sessionSeq' = sessionSeq + 1
        /\ UNCHANGED <<finished, eventsEnd, commandsEnd>>
    BY <1>4 DEF CommandApply
  <2>2. SessionTypeOK'
    BY <1>0, <1>1, <1>3, <2>1 DEF SessionTypeOK
  <2> DEFINE e == Frame("run.steered", command)
  <2>3. e \in Frames /\ e.type = "run.steered" /\ e.seq = sessionSeq /\ Offer(e)
    BY <1>1, <2>1, FrameFacts DEF QueuesAreTyped
  <2> HIDE DEF e
  <2>4. NumbersGoOn' /\ OutcomeIsRecorded'
    BY <1>0, <2>1, <2>2, <2>3, OfferKeepsNumbers DEF Terminals
  <2>5. QueuesAreTyped'
    BY <1>0, <1>1, <1>3, <2>3, OfferFacts DEF QueuesAreTyped
  <2>6. AcksKeepUp' /\ SteersInOrder'
    BY <1>0, <1>1, <1>4, <2>1, AcknowledgeKeeps DEF InHand
  <2> QED
    BY <1>2, <2>2, <2>4, <2>5, <2>6 DEF SessionInv
<1>5. CASE command = 0
  <2>1. loop' = "done" /\ Finish /\ ~InHand /\ ~InHand'
    BY <1>0, <1>5 DEF CommandApply, InHand
  <2>2. sessionSeq' \in {sessionSeq, sessionSeq + 1}
    BY <1>5 DEF CommandApply
  <2>3. /\ finished => finished'
        /\ eventsEnd' = "open" => eventsEnd = "open"
        /\ finished'
    BY <1>1, <2>1 DEF Finish, SessionTypeOK
  <2>4. SessionTypeOK'
    BY <1>0, <1>1, <1>3, <2>1, <2>2 DEF SessionTypeOK, Finish
  <2>5. CASE finished
    <3>1. UNCHANGED <<events, sessionSeq, eventsEnd, finished>>
      BY <1>5, <2>1, <2>5 DEF CommandApply, Finish
    <3>2. Stream' = Stream /\ Acks' = Acks
      BY <1>0, <3>1 DEF Stream, Acks
    <3>3. AcksKeepUp' /\ SteersInOrder'
      BY <1>0, <1>1, <2>1, <2>5, <3>1, <3>2
         DEF SessionInv, AcksKeepUp, SteersInOrder, Acked, SessionTypeOK
    <3>4. QueuesAreTyped'
      BY <1>0, <1>1, <1>3, <3>1 DEF QueuesAreTyped
    <3> QED
      BY <1>0, <1>2, <2>3, <2>4, <3>1, <3>3, <3>4, StreamStays DEF SessionInv
  <2>6. CASE ~finished
    <3>1. Offer(Frame("run.cancelled", 0)) /\ sessionSeq' = sessionSeq + 1
      BY <1>5, <2>6 DEF CommandApply
    <3> DEFINE e == Frame("run.cancelled", 0)
    <3>2. 0 \in 0 .. Steers
      BY SessionAssumption
    <3>3. e \in Frames /\ e.type = "run.cancelled" /\ e.seq = sessionSeq /\ Offer(e)
      BY <1>1, <3>1, <3>2, FrameFacts DEF Terminals
    <3> HIDE DEF e
    <3>4. NumbersGoOn' /\ OutcomeIsRecorded'
      BY <1>0, <2>3, <2>4, <3>1, <3>3, OfferKeepsNumbers
    <3>5. QueuesAreTyped'
      BY <1>0, <1>1, <1>3, <3>3, OfferFacts DEF QueuesAreTyped
    <3>6. AcksKeepUp' /\ SteersInOrder'
      BY <1>0, <2>1, <2>3, <3>3, OfferKeepsAcks
    <3> QED
      BY <1>2, <2>4, <3>4, <3>5, <3>6 DEF SessionInv
  <2> QED
    BY <2>5, <2>6
<1> QED
  BY <1>4, <1>5

-----------------------------------------------------------------------------
(* The poller *)

\* A function on 1 .. n is a sequence of length n.
LEMMA FunctionIsSeq ==
    ASSUME NEW T, NEW n \in Nat, NEW f \in [1 .. n -> T]
    PROVE  f \in Seq(T) /\ Len(f) = n
OBVIOUS

\* Every rank up to a set's size is some member's.
LEMMA RankExists ==
    ASSUME NEW S \in SUBSET (1 .. Steers), NEW n \in 1 .. Cardinality(S)
    PROVE  \E i \in S : Cardinality({j \in S : j <= i}) = n
<1> DEFINE Below(i) == {j \in S : j <= i}
           Size(i) == Cardinality(Below(i))
           Big == {i \in Nat : Size(i) >= n}
<1>1. IsFiniteSet(1 .. Steers) /\ Steers \in Nat
  BY FS_Interval, SessionAssumption
<1>2. /\ IsFiniteSet(S) /\ Cardinality(S) \in Nat /\ n \in Nat /\ n >= 1 /\ n <= Cardinality(S)
      /\ \A x \in S : x \in Nat /\ x >= 1 /\ x <= Steers
  <2>1. IsFiniteSet(S) /\ Cardinality(S) \in Nat
    BY <1>1, FS_Subset, FS_CardinalityType
  <2>2. \A x \in S : x \in 1 .. Steers
    OBVIOUS
  <2>3. n \in Nat /\ n >= 1 /\ n <= Cardinality(S)
    BY <2>1
  <2>4. \A x \in S : x \in Nat /\ x >= 1 /\ x <= Steers
    BY <1>1, <2>2
  <2> QED
    BY <2>1, <2>3, <2>4
<1>3. \A i : IsFiniteSet(Below(i)) /\ Size(i) \in Nat
  <2>1. ASSUME NEW i PROVE IsFiniteSet(Below(i))
    <3>1. Below(i) \subseteq S
      OBVIOUS
    <3> QED
      BY <1>2, <3>1, FS_Subset
  <2> QED
    BY <2>1, FS_CardinalityType
<1>4. Steers \in Big
  <2>1. Below(Steers) = S
    BY <1>2
  <2> QED
    BY <1>1, <1>2, <2>1
<1>5. PICK k \in Big : \A m \in Big : ~(<<m, k>> \in OpToRel(<, Nat))
  <2>1. Big \in SUBSET Nat /\ Big # {}
    BY <1>4
  <2> HIDE DEF Big
  <2> QED
    BY <2>1, NatLessThanWellFounded, WFMin
<1>6. k \in Nat /\ Size(k) >= n
  BY <1>5
<1>7. \A m \in Nat : m < k => ~(Size(m) >= n)
  BY <1>5 DEF OpToRel
<1>8. k # 0
  <2>1. Below(0) = {}
    <3>1. \A x \in S : ~(x <= 0)
      BY <1>2
    <3> QED
      BY <3>1
  <2>2. Size(0) = 0
    BY <2>1, FS_EmptySet
  <2> HIDE DEF Size
  <2> QED
    BY <1>2, <1>6, <2>2
<1>9. k - 1 \in Nat /\ k - 1 < k
  BY <1>6, <1>8
<1>10. Size(k - 1) < n
  <2>1. Size(k - 1) \in Nat /\ ~(Size(k - 1) >= n)
    BY <1>3, <1>7, <1>9
  <2> HIDE DEF Size
  <2> QED
    BY <1>2, <2>1
<1>11. k \in S
  <2>1. SUFFICES ASSUME k \notin S PROVE FALSE
    OBVIOUS
  <2>2. \A x \in S : x <= k <=> x <= k - 1
    BY <1>2, <1>6, <2>1
  <2>3. Size(k) = Size(k - 1)
    BY <2>2
  <2>4. Size(k - 1) \in Nat
    BY <1>3
  <2> HIDE DEF Size
  <2> QED
    BY <1>2, <1>6, <1>10, <2>3, <2>4
<1>12. Below(k) = Below(k - 1) \cup {k} /\ k \notin Below(k - 1)
  <2>1. \A x \in S : x <= k <=> x <= k - 1 \/ x = k
    BY <1>2, <1>6
  <2>2. ~(k <= k - 1) /\ k <= k
    BY <1>6
  <2> QED
    BY <1>11, <2>1, <2>2
<1>13. Size(k) = Size(k - 1) + 1
  <2> HIDE DEF Below
  <2> QED
    BY <1>3, <1>12, FS_AddElement
<1>14. Size(k) = n
  <2>1. Size(k) \in Nat /\ Size(k - 1) \in Nat
    BY <1>3
  <2> HIDE DEF Size
  <2> QED
    BY <1>2, <1>6, <1>10, <1>13, <2>1
<1> QED
  BY <1>11, <1>14

\* claimSteers returns the rows it marked in the order the operator wrote them.
LEMMA InOrderFacts ==
    ASSUME NEW S \in SUBSET (1 .. Steers)
    PROVE  /\ InOrder(S) \in Seq(1 .. Steers) /\ Rising(InOrder(S))
           /\ \A n \in 1 .. Len(InOrder(S)) : InOrder(S)[n] \in S
<1>1. /\ IsFiniteSet(S) /\ Cardinality(S) \in Nat
      /\ \A x \in S : x \in Int /\ x \in 1 .. Steers
  <2>1. IsFiniteSet(1 .. Steers)
    BY FS_Interval, SessionAssumption
  <2>2. \A x \in S : x \in 1 .. Steers
    OBVIOUS
  <2>3. \A x \in S : x \in Int
    BY <2>2, SessionAssumption
  <2> QED
    BY <2>1, <2>2, <2>3, FS_Subset, FS_CardinalityType
<1> DEFINE s == InOrder(S)
           Below(i) == {j \in S : j <= i}
<1>2. \A n \in 1 .. Cardinality(S) : s[n] \in S /\ Cardinality(Below(s[n])) = n
  BY RankExists DEF InOrder
<1>3. s \in Seq(1 .. Steers) /\ Len(s) = Cardinality(S)
  <2>1. s = [n \in 1 .. Cardinality(S) |-> s[n]]
    BY DEF InOrder
  <2> HIDE DEF s
  <2>2. \A n \in 1 .. Cardinality(S) : s[n] \in 1 .. Steers
    BY <1>1, <1>2
  <2>3. s \in [1 .. Cardinality(S) -> 1 .. Steers]
    BY <2>1, <2>2
  <2> QED
    BY <1>1, <2>3, FunctionIsSeq
<1>4. ASSUME NEW m \in 1 .. Cardinality(S), NEW n \in 1 .. Cardinality(S), m < n PROVE s[m] < s[n]
  <2>1. SUFFICES ASSUME ~(s[m] < s[n]) PROVE FALSE
    OBVIOUS
  <2>2. s[m] \in S /\ s[n] \in S /\ Cardinality(Below(s[m])) = m /\ Cardinality(Below(s[n])) = n
    BY <1>2
  <2> HIDE DEF s
  <2>3. s[m] \in Int /\ s[n] \in Int
    BY <1>1, <2>2
  <2>4. Below(s[n]) \subseteq Below(s[m]) /\ Below(s[m]) \subseteq S
    <3>1. \A x \in S : x <= s[n] => x <= s[m]
      BY <1>1, <2>1, <2>3
    <3> QED
      BY <3>1
  <2>5. IsFiniteSet(Below(s[m]))
    BY <1>1, <2>4, FS_Subset
  <2>6. Cardinality(Below(s[n])) <= Cardinality(Below(s[m]))
    BY <2>4, <2>5, FS_Subset
  <2> QED
    BY <1>1, <1>4, <2>2, <2>6
<1> QED
  BY <1>2, <1>3, <1>4 DEF Rising

\* What the poller does keeps the stream, and the corrections in order.
LEMMA PollKeeps == SessionInv /\ Poll => SessionInv'
<1> SUFFICES ASSUME SessionInv, Poll PROVE SessionInv'
  OBVIOUS
<1>0. UNCHANGED <<agentVars, pumpVars, loopVars, finished, events, eventsEnd, commandsEnd, recorded, outcome>>
  BY DEF Poll
<1> USE <1>0 DEF agentVars, pumpVars, loopVars
<1>1. SessionTypeOK /\ QueuesAreTyped /\ NoneOvertakes
  BY DEF SessionInv
<1>2. Stream' = Stream
  BY DEF Stream
<1>3. NumbersGoOn' /\ OutcomeIsRecorded' /\ AcksKeepUp' /\ SteersInOrder'
  BY <1>2, StreamStays, AcksStay
<1>4. SUFFICES SessionTypeOK' /\ QueuesAreTyped' /\ NoneOvertakes'
  BY <1>3 DEF SessionInv
<1>5. /\ given \in Seq(1 .. Steers) /\ commands \in Seq(0 .. Steers) /\ held \in Seq(1 .. Steers)
      /\ correction \in [1 .. Steers -> {"none", "written", "claimed"}]
      /\ \A n \in 1 .. Len(given) : given[n] \in 1 .. Steers
      /\ \A n \in 1 .. Len(commands) : commands[n] \in 0 .. Steers
      /\ \A n \in 1 .. Len(held) : held[n] \in 1 .. Steers
  BY <1>1, ElementOfSeq DEF QueuesAreTyped
<1>6. CASE PollClaim
  <2>1. /\ poller' = "offer" /\ UNCHANGED commands /\ held' \in {InOrder(Claimable), <<>>}
        /\ correction' = [i \in 1 .. Steers |-> IF i \in Claimable THEN "claimed" ELSE correction[i]]
    BY <1>6 DEF PollClaim
  <2>2. Claimable \in SUBSET (1 .. Steers)
    BY DEF Claimable
  <2>3. /\ held' \in Seq(1 .. Steers) /\ Rising(held')
        /\ \A n \in 1 .. Len(held') : held'[n] \in Claimable
    <3>1. CASE held' = <<>>
      BY <3>1, EmptySeq DEF Rising
    <3>2. CASE held' = InOrder(Claimable)
      BY <2>2, <3>2, InOrderFacts
    <3> QED
      BY <2>1, <3>1, <3>2
  <2>4. /\ correction' \in [1 .. Steers -> {"none", "written", "claimed"}]
        /\ \A i \in 1 .. Steers : correction'[i] = "claimed" <=> correction[i] # "none"
        /\ \A i \in 1 .. Steers : correction'[i] = "none" <=> correction[i] = "none"
    BY <1>5, <2>1 DEF Claimable
  <2>5. \A x, h \in 1 .. Steers : correction[x] = "claimed" /\ h \in Claimable => x < h
    BY <1>1, SessionAssumption DEF NoneOvertakes, Claimable
  <2>6. Claimed(given)' /\ Claimed(commands)' /\ Claimed(held)'
    <3>1. \A n \in 1 .. Len(given) : correction'[given[n]] = "claimed"
      BY <1>1, <1>5, <2>4 DEF NoneOvertakes, Claimed
    <3>2. \A n \in 1 .. Len(commands) : commands[n] # 0 => correction'[commands[n]] = "claimed"
      BY <1>1, <1>5, <2>4 DEF NoneOvertakes, Claimed
    <3>3. \A n \in 1 .. Len(held') : correction'[held'[n]] = "claimed"
      BY <2>3, <2>4 DEF Claimable
    <3> QED
      BY <2>1, <3>1, <3>2, <3>3 DEF Claimed
  <2>7. Before(given, held)' /\ Before(commands, held)'
    <3>1. \A m \in 1 .. Len(given), n \in 1 .. Len(held') : given[m] < held'[n]
      <4>1. \A m \in 1 .. Len(given) : given[m] \in 1 .. Steers /\ correction[given[m]] = "claimed"
        BY <1>1, <1>5 DEF NoneOvertakes, Claimed
      <4> QED
        BY <2>2, <2>3, <2>5, <4>1
    <3>2. \A m \in 1 .. Len(commands), n \in 1 .. Len(held') : commands[m] # 0 => commands[m] < held'[n]
      <4>1. \A m \in 1 .. Len(commands) :
              commands[m] # 0 => commands[m] \in 1 .. Steers /\ correction[commands[m]] = "claimed"
        BY <1>1, <1>5 DEF NoneOvertakes, Claimed
      <4> QED
        BY <2>2, <2>3, <2>5, <4>1
    <3> QED
      BY <2>1, <3>1, <3>2 DEF Before
  <2>8. \A i, j \in 1 .. Steers : i < j =>
          /\ correction'[j] # "none" => correction'[i] # "none"
          /\ correction'[j] = "claimed" => correction'[i] = "claimed"
    BY <1>1, <2>4 DEF NoneOvertakes
  <2>9. Rising(given)' /\ Rising(commands)' /\ Before(given, commands)' /\ Rising(held)'
    BY <1>1, <2>1, <2>3 DEF NoneOvertakes, Rising, Before
  <2>10. NoneOvertakes'
    BY <2>6, <2>7, <2>8, <2>9 DEF NoneOvertakes
  <2>11. QueuesAreTyped'
    BY <1>1, <2>1, <2>3, <2>4 DEF QueuesAreTyped
  <2> QED
    BY <1>1, <2>1, <2>4, <2>10, <2>11 DEF SessionTypeOK
<1>7. CASE PollOffer
  <2>1. commands' = commands \o held /\ held' = <<>> /\ poller' = "stop" /\ UNCHANGED correction
    BY <1>7 DEF PollOffer
  <2>2. held \in Seq(0 .. Steers)
    <3>1. 1 .. Steers \subseteq 0 .. Steers
      BY SessionAssumption
    <3> QED
      BY <1>5, <3>1, SeqMonotonic
  <2>3. /\ commands' \in Seq(0 .. Steers) /\ Len(commands') = Len(commands) + Len(held)
        /\ Len(commands) \in Nat /\ Len(held) \in Nat
        /\ \A n \in 1 .. Len(commands') :
             commands'[n] = IF n <= Len(commands) THEN commands[n] ELSE held[n - Len(commands)]
    BY <1>5, <2>1, <2>2, ConcatProperties, LenProperties
  <2>4. \A n \in 1 .. Len(commands') :
          \/ n \in 1 .. Len(commands) /\ commands'[n] = commands[n]
          \/ n - Len(commands) \in 1 .. Len(held) /\ commands'[n] = held[n - Len(commands)]
             /\ n > Len(commands)
    BY <2>3
  <2>5. Claimed(commands)' /\ Before(given, commands)'
    BY <1>1, <2>1, <2>4 DEF NoneOvertakes, Claimed, Before
  <2>6. Rising(commands)'
    <3>1. ASSUME NEW m \in 1 .. Len(commands'), NEW n \in 1 .. Len(commands'), m < n,
                 commands'[m] # 0, commands'[n] # 0
          PROVE  commands'[m] < commands'[n]
      <4>1. CASE n \in 1 .. Len(commands) /\ commands'[n] = commands[n]
        <5>1. m \in 1 .. Len(commands) /\ commands'[m] = commands[m]
          BY <2>3, <3>1, <4>1
        <5> QED
          BY <1>1, <3>1, <4>1, <5>1 DEF NoneOvertakes, Rising
      <4>2. CASE n - Len(commands) \in 1 .. Len(held) /\ commands'[n] = held[n - Len(commands)]
        <5>1. CASE m \in 1 .. Len(commands) /\ commands'[m] = commands[m]
          BY <1>1, <3>1, <4>2, <5>1 DEF NoneOvertakes, Before
        <5>2. CASE m - Len(commands) \in 1 .. Len(held) /\ commands'[m] = held[m - Len(commands)]
          <6>1. m - Len(commands) < n - Len(commands)
            BY <2>3, <3>1
          <6> QED
            BY <1>1, <3>1, <4>2, <5>2, <6>1 DEF NoneOvertakes, Rising
        <5> QED
          BY <2>4, <5>1, <5>2
      <4> QED
        BY <2>4, <4>1, <4>2
    <3> QED
      BY <3>1 DEF Rising
  <2>7. Rising(held)' /\ Before(given, held)' /\ Before(commands, held)' /\ Claimed(held)'
    BY <2>1, EmptySeq DEF Rising, Before, Claimed
  <2>8. NoneOvertakes'
    BY <1>1, <2>1, <2>5, <2>6, <2>7 DEF NoneOvertakes, Rising, Claimed
  <2>9. held' \in Seq(1 .. Steers)
    BY <2>1
  <2>10. QueuesAreTyped'
    BY <1>1, <2>1, <2>3, <2>9 DEF QueuesAreTyped
  <2> QED
    BY <1>1, <2>1, <2>8, <2>10 DEF SessionTypeOK
<1>8. CASE PollStop
  <2>1. UNCHANGED <<held, correction>> /\ poller' \in {"done", "claim"}
    BY <1>8 DEF PollStop
  <2>2. CASE commands' = commands
    BY <1>1, <2>1, <2>2, OrderStays DEF SessionTypeOK, QueuesAreTyped
  <2>3. CASE commands' = Append(commands, 0)
    <3>1. 0 \in 0 .. Steers
      BY SessionAssumption
    <3>2. /\ commands' \in Seq(0 .. Steers) /\ Len(commands') = Len(commands) + 1 /\ Len(commands) \in Nat
          /\ \A n \in 1 .. Len(commands) : commands'[n] = commands[n]
          /\ commands'[Len(commands) + 1] = 0
      BY <1>5, <2>3, <3>1, AppendFacts
    <3>3. \A n \in 1 .. Len(commands') : commands'[n] # 0 => n \in 1 .. Len(commands) /\ commands'[n] = commands[n]
      BY <3>2
    <3>4. Rising(commands)' /\ Before(given, commands)' /\ Before(commands, held)' /\ Claimed(commands)'
      BY <1>1, <2>1, <3>3 DEF NoneOvertakes, Rising, Before, Claimed
    <3>5. NoneOvertakes'
      BY <1>1, <2>1, <3>4 DEF NoneOvertakes, Rising, Before, Claimed
    <3> QED
      BY <1>1, <2>1, <3>2, <3>5 DEF SessionTypeOK, QueuesAreTyped
  <2> QED
    BY <1>8, <2>2, <2>3 DEF PollStop
<1>9. CASE PollEnds
  <2>1. UNCHANGED <<commands, correction>> /\ held' = <<>> /\ poller' = "done"
    BY <1>9 DEF PollEnds
  <2>2. Rising(held)' /\ Before(given, held)' /\ Before(commands, held)' /\ Claimed(held)'
    BY <2>1, EmptySeq DEF Rising, Before, Claimed
  <2>3. NoneOvertakes'
    BY <1>1, <2>1, <2>2 DEF NoneOvertakes, Rising, Before, Claimed
  <2>4. held' \in Seq(1 .. Steers)
    BY <2>1
  <2> QED
    BY <1>1, <2>1, <2>3, <2>4 DEF SessionTypeOK, QueuesAreTyped
<1> QED
  BY <1>6, <1>7, <1>8, <1>9 DEF Poll

-----------------------------------------------------------------------------
(* The reader, the operator, and the end of the fence *)

LEMMA ReaderKeeps == SessionInv /\ Reader => SessionInv'
<1> SUFFICES ASSUME SessionInv, Reader PROVE SessionInv'
  OBVIOUS
<1>0. UNCHANGED <<agentVars, pumpVars, loopVars, pollVars, finished, eventsEnd, commands, commandsEnd>>
  BY DEF Reader
<1> USE <1>0 DEF agentVars, pumpVars, loopVars, pollVars
<1>1. SessionTypeOK /\ QueuesAreTyped /\ NumbersGoOn /\ OutcomeIsRecorded
  BY DEF SessionInv
<1>2. /\ recorded \in Seq(Frames) /\ events \in Seq(Frames)
      /\ Len(Stream) = Len(recorded) + Len(events) /\ Len(recorded) \in Nat /\ Len(events) \in Nat
      /\ \A n \in 1 .. Len(events) : Stream[Len(recorded) + n] = events[n]
  BY <1>1, StreamFacts DEF QueuesAreTyped
<1>3. NoneOvertakes'
  BY OrderStays
<1>4. CASE Consume
  <2>1. /\ events' \in Seq(Frames) /\ recorded' \in Seq(Frames) /\ Stream' = Stream
        /\ Len(recorded') = Len(recorded) + 1 /\ recorded'[Len(recorded')] = Head(events)
        /\ \A n \in 1 .. Len(recorded) : recorded'[n] = recorded[n]
        /\ Len(events') = Len(events) - 1
    BY <1>1, <1>4, ConsumeFacts
  <2>2. events # <<>> /\ Len(events) # 0 /\ Head(events) = events[1] /\ Head(events) = Stream[Len(recorded) + 1]
    <3>1. events # <<>>
      BY <1>4 DEF Consume
    <3>2. Len(events) # 0 /\ Head(events) = events[1] /\ 1 \in 1 .. Len(events)
      BY <1>2, <3>1, TailFacts
    <3> QED
      BY <1>2, <3>1, <3>2
  <2>3. outcome \notin Terminals
    BY <1>1, <2>2 DEF OutcomeIsRecorded
  <2>4. outcome' = IF Head(events).type \notin Terminals THEN outcome
                   ELSE IF outcome = "none" THEN Head(events).type ELSE "defect"
    BY <1>4 DEF Consume
  <2>5. outcome = "none"
    BY <1>1, <2>3 DEF Reader, Running, SessionTypeOK
  <2>6. Head(events).type \in Terminals => events' = <<>>
    <3>1. SUFFICES ASSUME Head(events).type \in Terminals PROVE events' = <<>>
      OBVIOUS
    <3>2. Len(recorded) + 1 \in 1 .. Len(Stream)
      BY <1>2, <2>2
    <3>3. Len(recorded) + 1 = Len(Stream)
      BY <1>1, <2>2, <3>1, <3>2 DEF NumbersGoOn
    <3> QED
      BY <1>2, <2>1, <3>3, EmptySeq
  <2>7. \A n \in 1 .. Len(recorded') : n \in 1 .. Len(recorded) \/ n = Len(recorded')
    BY <1>2, <2>1
  <2>8. OutcomeIsRecorded'
    <3>1. \A n \in 1 .. Len(recorded) : recorded'[n].type \notin Terminals
      BY <1>1, <2>1, <2>3 DEF OutcomeIsRecorded
    <3>2. CASE Head(events).type \in Terminals
      <4>1. recorded' # <<>>
        BY <1>2, <2>1, EmptySeq
      <4> QED
        BY <2>1, <2>4, <2>5, <2>6, <3>2, <4>1 DEF OutcomeIsRecorded
    <3>3. CASE Head(events).type \notin Terminals
      BY <2>1, <2>3, <2>4, <2>7, <3>1, <3>3 DEF OutcomeIsRecorded
    <3> QED
      BY <3>2, <3>3
  <2>9. NumbersGoOn'
    BY <1>1, <2>1 DEF NumbersGoOn
  <2>10. SessionTypeOK'
    BY <1>1, <2>4 DEF SessionTypeOK, Broken
  <2>11. QueuesAreTyped'
    BY <1>1, <2>1 DEF QueuesAreTyped
  <2>12. AcksKeepUp' /\ SteersInOrder'
    BY <2>1, AcksStay
  <2> QED
    BY <1>3, <2>8, <2>9, <2>10, <2>11, <2>12 DEF SessionInv
<1>5. CASE ConsumeFails
  <2>1. UNCHANGED <<events, recorded>> /\ outcome' \in {"unrecorded", "defect"}
    BY <1>5 DEF ConsumeFails
  <2>2. outcome \notin Terminals
    BY <1>1, <1>5 DEF ConsumeFails, OutcomeIsRecorded, Terminals
  <2>3. Stream' = Stream
    BY <2>1 DEF Stream
  <2>4. OutcomeIsRecorded' /\ NumbersGoOn'
    <3>1. outcome' \notin Terminals
      BY <2>1 DEF Terminals
    <3> QED
      BY <1>1, <2>1, <2>2, <2>3, <3>1 DEF OutcomeIsRecorded, NumbersGoOn
  <2>5. SessionTypeOK' /\ QueuesAreTyped'
    BY <1>1, <2>1 DEF SessionTypeOK, QueuesAreTyped, Broken
  <2> QED
    BY <1>3, <2>3, <2>4, <2>5, AcksStay DEF SessionInv
<1> QED
  BY <1>4, <1>5 DEF Reader

LEMMA OperatorKeeps == SessionInv /\ (Operator \/ Interrupt) => SessionInv'
<1> SUFFICES ASSUME SessionInv, Operator \/ Interrupt PROVE SessionInv'
  OBVIOUS
<1>0. UNCHANGED <<agentVars, pumpVars, mailVars, loopVars, poller, held, recorded>>
  BY DEF Operator, Interrupt, pollVars
<1> USE <1>0 DEF agentVars, pumpVars, mailVars, loopVars
<1>1. SessionTypeOK /\ QueuesAreTyped /\ NumbersGoOn /\ OutcomeIsRecorded /\ NoneOvertakes
  BY DEF SessionInv
<1>2. Stream' = Stream /\ outcome = "none" /\ outcome' \in {"none", "interrupted"}
  BY DEF Stream, Operator, Interrupt
<1>3. NumbersGoOn' /\ OutcomeIsRecorded'
  <2>1. outcome \notin Terminals /\ outcome' \notin Terminals
    BY <1>2 DEF Terminals
  <2> QED
    BY <1>1, <1>2, <2>1 DEF NumbersGoOn, OutcomeIsRecorded
<1>4. AcksKeepUp' /\ SteersInOrder'
  BY <1>2, AcksStay
<1>5. CASE correction' = correction
  BY <1>1, <1>2, <1>3, <1>4, <1>5, OrderStays DEF SessionInv, SessionTypeOK, QueuesAreTyped, Broken
<1>6. CASE \E i \in 1 .. Steers : /\ correction[i] = "none" /\ \A j \in 1 .. (i - 1) : correction[j] # "none"
                                  /\ correction' = [correction EXCEPT ![i] = "written"]
  <2>1. PICK i \in 1 .. Steers : /\ correction[i] = "none" /\ \A j \in 1 .. (i - 1) : correction[j] # "none"
                                 /\ correction' = [correction EXCEPT ![i] = "written"]
    BY <1>6
  <2>2. /\ correction' \in [1 .. Steers -> {"none", "written", "claimed"}] /\ correction'[i] = "written"
        /\ \A j \in 1 .. Steers : j # i => correction'[j] = correction[j]
    BY <1>1, <2>1 DEF QueuesAreTyped
  <2>3. \A x : correction[x] = "claimed" => correction'[x] = "claimed"
    BY <1>1, <2>1 DEF QueuesAreTyped
  <2>4. Claimed(given)' /\ Claimed(commands)' /\ Claimed(held)'
    BY <1>1, <2>3 DEF NoneOvertakes, Claimed
  <2>5. ASSUME NEW k \in 1 .. Steers, NEW j \in 1 .. Steers, k < j
        PROVE  /\ correction'[j] # "none" => correction'[k] # "none"
               /\ correction'[j] = "claimed" => correction'[k] = "claimed"
    <3>1. CASE j = i
      <4>1. k \in 1 .. (i - 1) /\ k # i
        BY <2>5, <3>1, SessionAssumption
      <4> QED
        BY <2>1, <2>2, <3>1, <4>1
    <3>2. CASE k = i
      <4>1. correction[j] = "none" /\ j # i
        BY <1>1, <2>1, <2>5, <3>2, SessionAssumption DEF NoneOvertakes
      <4> QED
        BY <2>2, <4>1
    <3>3. CASE j # i /\ k # i
      BY <1>1, <2>2, <2>5, <3>3 DEF NoneOvertakes
    <3> QED
      BY <3>1, <3>2, <3>3
  <2>6. NoneOvertakes'
    BY <1>1, <2>4, <2>5 DEF NoneOvertakes, Rising, Before
  <2>7. SessionTypeOK' /\ QueuesAreTyped'
    BY <1>1, <1>2, <2>2 DEF SessionTypeOK, QueuesAreTyped, Broken
  <2> QED
    BY <1>3, <1>4, <2>6, <2>7 DEF SessionInv
<1> QED
  BY <1>5, <1>6 DEF Operator, Interrupt, pollVars

-----------------------------------------------------------------------------

LEMMA SessionStarts == SessionInit => SessionInv
<1> SUFFICES ASSUME SessionInit PROVE SessionInv
  OBVIOUS
<1> USE DEF SessionInit
<1>1. /\ recorded = <<>> /\ events = <<>> /\ given = <<>> /\ commands = <<>> /\ held = <<>>
      /\ Len(recorded) = 0 /\ Len(given) = 0 /\ Len(commands) = 0 /\ Len(held) = 0
  OBVIOUS
<1>2. QueuesAreTyped
  BY SessionAssumption DEF QueuesAreTyped
<1>3. Len(Stream) = 0 /\ Acks = {}
  BY DEF Stream, Acks
<1>4. SessionTypeOK
  BY DEF SessionTypeOK
<1>5. NumbersGoOn /\ OutcomeIsRecorded
  BY <1>1, <1>3 DEF NumbersGoOn, OutcomeIsRecorded, Terminals
<1>6. NoneOvertakes
  BY <1>1 DEF NoneOvertakes, Rising, Before, Claimed
<1>7. AcksKeepUp /\ SteersInOrder
  BY <1>1, <1>3 DEF AcksKeepUp, SteersInOrder, InHand
<1> QED
  BY <1>2, <1>4, <1>5, <1>6, <1>7 DEF SessionInv

LEMMA SessionStays == SessionInv /\ UNCHANGED sessionVars => SessionInv'
<1> SUFFICES ASSUME SessionInv, UNCHANGED sessionVars PROVE SessionInv'
  OBVIOUS
<1> USE DEF sessionVars, agentVars, pumpVars, mailVars, loopVars, pollVars
<1>1. Stream' = Stream
  BY DEF Stream
<1>2. SessionTypeOK' /\ QueuesAreTyped'
  BY DEF SessionInv, SessionTypeOK, QueuesAreTyped
<1> QED
  BY <1>1, <1>2, StreamStays, AcksStay, OrderStays DEF SessionInv

\* Whatever order the fibers run in, what a session records is one numbered stream with
\* at most one end, and it acknowledges the corrections in the order they were given.
THEOREM StreamProved == SessionSpec => []StreamIsWhole
<1>1. SessionInv /\ SessionNext => SessionInv'
  BY AgentKeeps, PumpKeeps, TakeKeeps, ApplyKeeps, PollKeeps, ReaderKeeps, OperatorKeeps
     DEF SessionNext, Obey
<1>2. SessionInv => StreamIsWhole
  <2> SUFFICES ASSUME SessionInv PROVE StreamIsWhole
    OBVIOUS
  <2>1. /\ SessionTypeOK /\ QueuesAreTyped /\ NumbersGoOn /\ OutcomeIsRecorded /\ SteersInOrder
        /\ recorded \in Seq(Frames) /\ events \in Seq(Frames)
    BY DEF SessionInv, QueuesAreTyped
  <2>2. /\ Len(Stream) = Len(recorded) + Len(events) /\ Len(recorded) \in Nat /\ Len(events) \in Nat
        /\ \A n \in 1 .. Len(recorded) : Stream[n] = recorded[n]
    BY <2>1, StreamFacts
  <2>3. DOMAIN recorded = 1 .. Len(recorded) /\ 1 .. Len(recorded) \subseteq 1 .. Len(Stream)
    BY <2>1, <2>2, LenProperties
  <2>4. RecordedIsContiguous
    BY <2>1, <2>2, <2>3 DEF RecordedIsContiguous, NumbersGoOn
  <2>5. ASSUME NEW n \in DOMAIN recorded, recorded[n].type \in Terminals
        PROVE  n = Len(recorded) /\ outcome = recorded[n].type
    <3>1. n = Len(Stream) /\ n \in 1 .. Len(recorded)
      BY <2>1, <2>2, <2>3, <2>5 DEF NumbersGoOn
    <3>2. n = Len(recorded)
      BY <2>2, <3>1
    <3> QED
      BY <2>1, <2>3, <2>5, <3>2 DEF OutcomeIsRecorded
  <2>6. OneTerminal
    BY <2>1, <2>5 DEF OneTerminal, OutcomeIsRecorded
  <2> QED
    BY <2>1, <2>4, <2>6 DEF StreamIsWhole
<1> QED
  BY <1>1, <1>2, SessionStarts, SessionStays, PTL DEF SessionSpec
===============================================================================
