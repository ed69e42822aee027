---------------------------- MODULE MessageSend -----------------------------
(***************************************************************************)
(* Sending into a thread: the send service (api/src/services/threads.ts)     *)
(* looks the nonce and the live run up, decides (core/src/messaging-         *)
(* policy.ts) and writes through the run-creation command                    *)
(* (db/src/run-creation.ts) or the steering command (db/src/messages.ts),    *)
(* while the worker appends answers, claims steers and ends runs and the      *)
(* operator clears the thread.                                               *)
(*                                                                           *)
(* Each lookup is a statement of its own and each command one transaction.   *)
(* A request's text and attachments are one value.                           *)
(***************************************************************************)
EXTENDS Integers, Sequences, FiniteSets, FiniteSetsExt

CONSTANTS
    Threads, Nonces,
    Contents,    \* texts with their attachment ids
    Requests,    \* send calls, retries included
    Replies,     \* nonces of the answers runs record
    MaxThreadClears,   \* bound: how often an operator clears a thread
    None

ASSUME SendAssumption ==
    MaxThreadClears \in Nat /\ None \notin Threads \cup Nonces \cup Contents \cup Replies

VARIABLES
    next,      \* next_message_seq of each thread
    messages,  \* the message rows: id, thread, seq, nonce, content, run
    runs,      \* the run rows in order of creation: thread, nonce, live, source
    tasks,     \* how many task rows exist
    steers,    \* the steering rows: message, run, claimed
    minted,    \* message ids given out
    req,       \* each request: where it stands, what it asked, read and answered
    threadClears  \* clears so far
sendVars == <<next, messages, runs, tasks, steers, minted, req, threadClears>>

NoMessage == 0
Fresh == [pc |-> "new", thread |-> None, nonce |-> None, content |-> None,
          found |-> NoMessage, same |-> FALSE, active |-> 0, action |-> None, message |-> NoMessage, run |-> 0]

SendInit ==
    /\ next = [t \in Threads |-> 0] /\ messages = {} /\ runs = <<>> /\ tasks = 0 /\ steers = {}
    /\ minted = 0 /\ req = [r \in Requests |-> Fresh] /\ threadClears = 0

Row(id) == CHOOSE m \in messages : m.id = id
LiveRuns(t) == {i \in 1 .. Len(runs) : runs[i].thread = t /\ runs[i].live}
ByNonce(t, n) == {m \in messages : m.thread = t /\ m.nonce = n}

Answer(r, action, message, run) ==
    req' = [req EXCEPT ![r].pc = "answered", ![r].action = action, ![r].message = message, ![r].run = run]

----------------------------------------------------------------------------
(* The send service.                                                         *)

\* A client submits, or submits the same request again under its nonce.
Submit(r) ==
    /\ req[r].pc = "new"
    /\ \E t \in Threads, n \in Nonces, c \in Contents :
          req' = [req EXCEPT ![r] = [Fresh EXCEPT !.pc = "nonce", !.thread = t, !.nonce = n, !.content = c]]
    /\ UNCHANGED <<next, messages, runs, tasks, steers, minted, threadClears>>

findByNonce(r) ==
    /\ req[r].pc = "nonce"
    /\ LET rows == ByNonce(req[r].thread, req[r].nonce)
       IN \/ /\ rows = {} /\ req' = [req EXCEPT ![r].pc = "active"]
          \/ \E m \in rows :
                req' = [req EXCEPT ![r].pc = "active", ![r].found = m.id,
                                   ![r].same = (m.content = req[r].content), ![r].run = m.run]
    /\ UNCHANGED <<next, messages, runs, tasks, steers, minted, threadClears>>

\* The newest live run of the thread.
findActiveForThread(r) ==
    /\ req[r].pc = "active"
    /\ req' = [req EXCEPT ![r].pc = "decide", ![r].active = Max(LiveRuns(req[r].thread) \cup {0})]
    /\ UNCHANGED <<next, messages, runs, tasks, steers, minted, threadClears>>

\* decideMessageSend: the nonce first, then the live run.
decideMessageSend(q) ==
    CASE q.found # NoMessage /\ ~q.same -> "refused"
      [] q.found # NoMessage /\ q.same -> "replay"
      [] q.found = NoMessage /\ q.active # 0 -> "steer"
      [] q.found = NoMessage /\ q.active = 0 -> "start_run"

\* A replay and a reused nonce are answered from what was read.
AnswerFromLookup(r) ==
    /\ req[r].pc = "decide"
    /\ LET decision == decideMessageSend(req[r]) IN
       \/ decision = "refused" /\ Answer(r, "refused", NoMessage, 0)
       \/ decision = "replay" /\ Answer(r, "replay", req[r].found, req[r].run)
    /\ UNCHANGED <<next, messages, runs, tasks, steers, minted, threadClears>>

\* findAttachments: an attachment that is gone refuses the send.
AttachmentMissing(r) ==
    /\ req[r].pc = "decide" /\ decideMessageSend(req[r]) \in {"steer", "start_run"}
    /\ Answer(r, "not_found", NoMessage, 0)
    /\ UNCHANGED <<next, messages, runs, tasks, steers, minted, threadClears>>

----------------------------------------------------------------------------
(* The commands.                                                             *)

\* allocateMessageSeq and insertMessage, in the caller's transaction.
Insert(t, n, c, run) ==
    /\ messages' = messages \cup
          {[id |-> minted + 1, thread |-> t, seq |-> next[t], nonce |-> n, content |-> c, run |-> run]}
    /\ next' = [next EXCEPT ![t] = @ + 1]
    /\ minted' = minted + 1

NonceSpent(n) == {i \in 1 .. Len(runs) : runs[i].nonce = n}

\* Mutant: the losing transaction of one nonce commits its task.
createOnceCommitted(r) ==
    LET q == req[r] IN
    /\ q.pc = "decide" /\ decideMessageSend(q) = "start_run"
    /\ tasks' = tasks + 1
    /\ \/ /\ NonceSpent(q.nonce) = {} /\ ByNonce(q.thread, q.nonce) = {}
          /\ runs' = Append(runs, [thread |-> q.thread, nonce |-> q.nonce, live |-> TRUE, source |-> minted + 1])
          /\ Insert(q.thread, q.nonce, q.content, Len(runs) + 1)
          /\ Answer(r, "start_run", minted + 1, Len(runs) + 1)
       \/ /\ NonceSpent(q.nonce) # {}
          /\ req' = [req EXCEPT ![r].pc = "settled"]
          /\ UNCHANGED <<next, messages, runs, minted>>
    /\ UNCHANGED <<steers, threadClears>>

(* createOnce: task, run, message and source link together. A nonce another  *)
(* run spent rolls it back and the winner is read; a nonce a message of the  *)
(* thread spent raises the index's error, which nothing here catches.        *)
createOnce(r) ==
    LET q == req[r] IN
    /\ q.pc = "decide" /\ decideMessageSend(q) = "start_run"
    /\ \/ /\ NonceSpent(q.nonce) = {} /\ ByNonce(q.thread, q.nonce) = {}
          /\ runs' = Append(runs, [thread |-> q.thread, nonce |-> q.nonce, live |-> TRUE, source |-> minted + 1])
          /\ tasks' = tasks + 1
          /\ Insert(q.thread, q.nonce, q.content, Len(runs) + 1)
          /\ Answer(r, "start_run", minted + 1, Len(runs) + 1)
       \/ /\ NonceSpent(q.nonce) # {}
          /\ req' = [req EXCEPT ![r].pc = "settled"]
          /\ UNCHANGED <<next, messages, runs, tasks, minted>>
       \/ /\ NonceSpent(q.nonce) = {} /\ ByNonce(q.thread, q.nonce) # {}
          /\ Answer(r, "error", NoMessage, 0)
          /\ UNCHANGED <<next, messages, runs, tasks, minted>>
    /\ UNCHANGED <<steers, threadClears>>

(* readByNonce, and the service's check that the run it replays belongs to   *)
(* the thread the send addressed.                                            *)
readByNonce(r) ==
    /\ req[r].pc = "settled"
    /\ LET i == CHOOSE i \in NonceSpent(req[r].nonce) : TRUE IN
       \/ runs[i].source = NoMessage /\ Answer(r, "error", NoMessage, 0)
       \/ /\ runs[i].source # NoMessage /\ runs[i].thread # req[r].thread
          /\ Answer(r, "refused", NoMessage, 0)
       \/ /\ runs[i].source # NoMessage /\ runs[i].thread = req[r].thread
          /\ Answer(r, "start_run", runs[i].source, i)
    /\ UNCHANGED <<next, messages, runs, tasks, steers, minted, threadClears>>

\* Mutant: a steer does not ask whether its run is still live.
SteerableAlways(i) == TRUE

Steerable(i) == runs[i].live

(* The steering command: a row bound to a run that is live in the same       *)
(* transaction, the first row of a nonce replayed, a finished run refused.   *)
steer(r) ==
    LET q == req[r] IN
    /\ q.pc = "decide" /\ decideMessageSend(q) = "steer"
    /\ \/ /\ Steerable(q.active) /\ ByNonce(q.thread, q.nonce) = {}
          /\ Insert(q.thread, q.nonce, q.content, q.active)
          /\ steers' = steers \cup {[message |-> minted + 1, run |-> q.active, claimed |-> FALSE]}
          /\ Answer(r, "steer", minted + 1, q.active)
       \/ \E m \in ByNonce(q.thread, q.nonce) :
             /\ Steerable(q.active)
             /\ Answer(r, "steer", m.id, q.active)
             /\ UNCHANGED <<next, messages, steers, minted>>
       \/ /\ ~Steerable(q.active)
          /\ Answer(r, "not_active", NoMessage, 0)
          /\ UNCHANGED <<next, messages, steers, minted>>
    /\ UNCHANGED <<runs, tasks, threadClears>>

----------------------------------------------------------------------------
(* The worker and the operator.                                              *)

\* createAssistantMessageStore: a retried append finds its own row.
appendAssistant(i, n) ==
    /\ i \in 1 .. Len(runs) /\ runs[i].live /\ ByNonce(runs[i].thread, n) = {}
    /\ Insert(runs[i].thread, n, None, i)
    /\ UNCHANGED <<runs, tasks, steers, req, threadClears>>

\* claimSteeringMessages.
claim(i) ==
    /\ i \in 1 .. Len(runs) /\ runs[i].live
    /\ \E s \in steers : s.run = i /\ ~s.claimed
    /\ steers' = {IF s.run = i THEN [s EXCEPT !.claimed = TRUE] ELSE s : s \in steers}
    /\ UNCHANGED <<next, messages, runs, tasks, minted, req, threadClears>>

\* A run reaches a terminal status, as RunLifecycle allows.
EndRun(i) ==
    /\ i \in 1 .. Len(runs) /\ runs[i].live
    /\ runs' = [runs EXCEPT ![i].live = FALSE]
    /\ UNCHANGED <<next, messages, tasks, steers, minted, req, threadClears>>

(* clearThread: the counter and the rows go together; the delete cascades to *)
(* the steering rows and clears the runs' source links.                      *)
clearThread(t) ==
    /\ threadClears < MaxThreadClears /\ threadClears' = threadClears + 1
    /\ next' = [next EXCEPT ![t] = 0]
    /\ messages' = {m \in messages : m.thread # t}
    /\ steers' = {s \in steers : Row(s.message).thread # t}
    /\ runs' = [i \in DOMAIN runs |-> IF runs[i].thread = t THEN [runs[i] EXCEPT !.source = NoMessage] ELSE runs[i]]
    /\ UNCHANGED <<tasks, minted, req>>

SendNext ==
    \/ \E r \in Requests :
          \/ Submit(r) \/ findByNonce(r) \/ findActiveForThread(r) \/ AnswerFromLookup(r)
          \/ AttachmentMissing(r) \/ createOnce(r) \/ readByNonce(r) \/ steer(r)
    \/ \E i \in 1 .. Len(runs) : claim(i) \/ EndRun(i) \/ \E n \in Replies : appendAssistant(i, n)
    \/ \E t \in Threads : clearThread(t)

SendSpec == SendInit /\ [][SendNext]_sendVars

----------------------------------------------------------------------------
(* Rows and requests have the shapes the schema and the service give them.   *)
SendTypeOK ==
    /\ next \in [Threads -> Nat] /\ tasks \in Nat /\ minted \in Nat /\ threadClears \in 0 .. MaxThreadClears
    /\ \A m \in messages : m.id \in 1 .. minted /\ m.thread \in Threads /\ m.run \in 1 .. Len(runs)
    /\ \A s \in steers : s.run \in 1 .. Len(runs) /\ \E m \in messages : m.id = s.message
    /\ \A r \in Requests : req[r].pc \in {"new", "nonce", "active", "decide", "settled", "answered"}

(* Each transcript is numbered from zero without a gap or a duplicate, with  *)
(* sends, steers, answers and clears on the thread at the same time.         *)
TranscriptIsGapless ==
    \A t \in Threads :
        LET rows == {m \in messages : m.thread = t}
        IN {m.seq : m \in rows} = 0 .. (next[t] - 1) /\ Cardinality(rows) = next[t]

(* A submission is all or nothing: every task has its run, a nonce never     *)
(* makes two, and a run's source, where it has one, is its own message.       *)
SubmissionIsWhole ==
    /\ tasks = Len(runs)
    /\ \A i, j \in 1 .. Len(runs) : runs[i].nonce = runs[j].nonce => i = j
    /\ \A i \in 1 .. Len(runs) : runs[i].source # NoMessage =>
          \E m \in messages : m.id = runs[i].source /\ m.thread = runs[i].thread
                              /\ m.nonce = runs[i].nonce /\ m.run = i

(* An accepted send is answered with the thread it addressed: a nonce spent  *)
(* on another thread never returns that thread's message or run.             *)
AnswersOwnThread ==
    \A r \in Requests :
        req[r].pc = "answered" /\ req[r].run # 0 => runs[req[r].run].thread = req[r].thread

(* What concurrent sends and retries leave behind: whole submissions,        *)
(* gapless transcripts and answers from the thread that was asked.           *)
SendsAreSound == SendTypeOK /\ TranscriptIsGapless /\ SubmissionIsWhole /\ AnswersOwnThread

(* A steer is only written into a run that is live, so it never looks        *)
(* applied to a run that had already finished.                               *)
SteersEnterLiveRuns ==
    [][\A s \in steers' : (\A u \in steers : u.message # s.message) => runs[s.run].live]_sendVars

----------------------------------------------------------------------------
(* The inductive strengthening ConversationProofs uses.                      *)

RunRows == [thread : Threads, nonce : Nonces, live : BOOLEAN, source : Nat]
MessageRows ==
    [id : Nat, thread : Threads, seq : Nat, nonce : Nonces \cup Replies,
     content : Contents \cup {None}, run : Nat]
SteerRows == [message : Nat, run : Nat, claimed : BOOLEAN]
Sends ==
    [pc : {"new", "nonce", "active", "decide", "settled", "answered"},
     thread : Threads \cup {None}, nonce : Nonces \cup {None}, content : Contents \cup {None},
     found : Nat, same : BOOLEAN, active : Nat,
     action : {None, "refused", "replay", "not_found", "start_run", "error", "steer", "not_active"},
     message : Nat, run : Nat]

\* Every column of every row.
SendShapes ==
    /\ next \in [Threads -> Nat] /\ tasks \in Nat /\ minted \in Nat /\ threadClears \in 0 .. MaxThreadClears
    /\ runs \in Seq(RunRows) /\ req \in [Requests -> Sends]
    /\ messages \in SUBSET MessageRows /\ IsFiniteSet(messages) /\ steers \in SUBSET SteerRows

\* A message has an id of its own and belongs to a run of its thread; a steer belongs to
\* a message.
RowsAreLinked ==
    /\ \A m \in messages : m.id \in 1 .. minted /\ m.run \in 1 .. Len(runs) /\ runs[m.run].thread = m.thread
    /\ \A m, o \in messages : m.id = o.id => m = o
    /\ \A s \in steers : s.run \in 1 .. Len(runs) /\ \E m \in messages : m.id = s.message

\* What a request read stays about the thread it addressed, however long it waits to
\* decide: runs are never deleted and never change threads.
OfThread(q, rs) ==
    /\ q.pc # "new" => q.thread \in Threads /\ q.nonce \in Nonces
    /\ q.pc = "new" => q.active = 0 /\ q.run = 0
    /\ q.active # 0 => q.active \in 1 .. Len(rs) /\ rs[q.active].thread = q.thread
    /\ q.run # 0 => q.run \in 1 .. Len(rs) /\ rs[q.run].thread = q.thread
    /\ q.pc = "settled" => \E i \in 1 .. Len(rs) : rs[i].nonce = q.nonce
ReadsAreOfThread == \A r \in Requests : OfThread(req[r], runs)

SendInv == SendShapes /\ RowsAreLinked /\ ReadsAreOfThread /\ TranscriptIsGapless /\ SubmissionIsWhole
=============================================================================
