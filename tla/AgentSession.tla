---------------------------- MODULE AgentSession ----------------------------
(***************************************************************************)
(* One live run's session: the agent loop that produces events, the pump    *)
(* that translates and numbers them (adapters/src/pi-run-source.ts and the  *)
(* translator of pi-events.ts), the fiber that obeys operator commands, the *)
(* poller that brings them from the database (effect/src/run-commands.ts)   *)
(* and the consumer that records the stream and reports how it ended.       *)
(*                                                                          *)
(* The fibers share one thread: an action is the code between two awaits.   *)
(***************************************************************************)
EXTENDS Integers, Sequences, FiniteSets

CONSTANTS
    Steers,     \* how many corrections the operator may write
    MaxDeltas   \* bound: tokens the agent may stream

ASSUME SessionAssumption == Steers \in Nat /\ MaxDeltas \in Nat

VARIABLES
    agent,      \* the agent loop: new, running or done
    deltas,     \* tokens it streamed
    aborted,    \* whether its abort was called
    source,     \* its events the pump has not taken
    closed,     \* whether that queue has ended
    pump,       \* the pump: next, translate or done
    taken,      \* the event it took
    sessionSeq, \* the translator's next position
    finished,   \* the session's own end mark
    events,     \* the event mailbox
    eventsEnd,  \* open, ended or failed
    commands,   \* the command mailbox
    commandsEnd,\* whether it has ended
    loop,       \* the command loop: take, control or done
    command,    \* the command it is obeying
    poller,     \* claim, offer, stop or done
    held,       \* claimed corrections on their way to the mailbox
    correction, \* each correction's row: none, written or claimed
    given,      \* corrections handed to the agent, in order
    stop,       \* the run's stop_requested_at mark
    recorded,   \* the events appended to the thread, in order
    outcome     \* what consumeRunSession reported, or why it could not
agentVars == <<agent, deltas, aborted, source, closed>>
pumpVars == <<pump, taken, sessionSeq>>
mailVars == <<events, eventsEnd, commands, commandsEnd, finished>>
loopVars == <<loop, command, given>>
pollVars == <<poller, held, correction, stop>>
sessionVars == <<agentVars, pumpVars, mailVars, loopVars, pollVars, recorded, outcome>>

Terminals == {"run.completed", "run.failed", "run.cancelled"}
Broken == {"interrupted", "unrecorded", "defect"}
Running == outcome \notin Broken
Frame(type, id) == [seq |-> sessionSeq, type |-> type, steer |-> id]

SessionInit ==
    /\ agent = "new" /\ deltas = 0 /\ aborted = FALSE /\ source = <<>> /\ closed = FALSE
    /\ pump = "next" /\ taken = "none" /\ sessionSeq = 1
    /\ finished = FALSE /\ events = <<>> /\ eventsEnd = "open"
    /\ commands = <<>> /\ commandsEnd = FALSE
    /\ loop = "take" /\ command = 0 /\ given = <<>>
    /\ poller = "claim" /\ held = <<>> /\ correction = [i \in 1 .. Steers |-> "none"] /\ stop = FALSE
    /\ recorded = <<>> /\ outcome = "none"

-----------------------------------------------------------------------------
(* The agent loop behind createPiAgentSource: its queue drops what follows its end *)

Push(event) == source' = IF closed THEN source ELSE Append(source, event)

AgentStarts ==
    /\ agent = "new" /\ agent' = "running" /\ Push("agent_start")
    /\ UNCHANGED <<deltas, aborted, closed>>
AgentStreams ==
    /\ agent = "running" /\ ~aborted /\ deltas < MaxDeltas /\ deltas' = deltas + 1
    /\ Push("text_delta") /\ UNCHANGED <<agent, aborted, closed>>
\* agent_end carries the last turn's stop reason, and ends the queue behind itself.
AgentEnds ==
    /\ agent = "running" /\ agent' = "done"
    /\ \/ ~aborted /\ (Push("stop") \/ Push("error"))
       \/ aborted /\ Push("aborted")
    /\ closed' = TRUE /\ UNCHANGED <<deltas, aborted>>
\* The prompt settles without its terminal event, or a frame does not parse.
AgentBreaks ==
    /\ agent = "running" /\ agent' = "done"
    /\ (Push("malformed") /\ UNCHANGED closed) \/ (closed' = TRUE /\ UNCHANGED source)
    /\ UNCHANGED <<deltas, aborted>>
Agent ==
    /\ Running /\ (AgentStarts \/ AgentStreams \/ AgentEnds \/ AgentBreaks)
    /\ UNCHANGED <<pumpVars, mailVars, loopVars, pollVars, recorded, outcome>>

-----------------------------------------------------------------------------
(* The session *)

Offer(event) == events' = IF eventsEnd = "open" THEN Append(events, event) ELSE events
CloseSource == closed' = TRUE /\ aborted' = TRUE /\ UNCHANGED <<agent, deltas, source>>
Finish ==
    IF finished THEN UNCHANGED <<finished, eventsEnd, commandsEnd, agentVars>>
    ELSE /\ finished' = TRUE /\ eventsEnd' = "ended" /\ commandsEnd' = TRUE /\ CloseSource
\* handleCause: a defect fails the stream for its reader, once.
Fail ==
    /\ UNCHANGED <<events, agentVars>>
    /\ IF finished THEN UNCHANGED <<finished, eventsEnd, commandsEnd>>
       ELSE finished' = TRUE /\ eventsEnd' = "failed" /\ commandsEnd' = TRUE

\* The pump asks for the next event, unless the session has finished.
PumpNext ==
    /\ pump = "next"
    /\ \/ /\ finished /\ pump' = "done"
          /\ UNCHANGED <<taken, source, finished, events, eventsEnd, commandsEnd>>
       \/ /\ ~finished /\ source # <<>>
          /\ pump' = "translate" /\ taken' = Head(source) /\ source' = Tail(source)
          /\ UNCHANGED <<finished, events, eventsEnd, commandsEnd>>
       \/ /\ ~finished /\ source = <<>> /\ closed
          /\ pump' = "done" /\ Fail /\ UNCHANGED taken
    /\ UNCHANGED <<sessionSeq, agent, deltas, aborted, closed, commands>>

Terminal(reason) ==
    CASE reason = "stop" -> "run.completed" [] reason = "error" -> "run.failed"
      [] reason = "aborted" -> "run.cancelled"

\* Mutant: an agent_end that leaves the session open.
PumpTranslateOpen ==
    /\ pump = "translate" /\ pump' = "next" /\ taken' = "none"
    /\ sessionSeq' = sessionSeq + 1
    /\ Offer(Frame(CASE taken = "agent_start" -> "run.started" [] taken = "text_delta" -> "token.delta"
                     [] OTHER -> Terminal(IF taken = "malformed" THEN "error" ELSE taken), 0))
    /\ UNCHANGED <<finished, eventsEnd, commandsEnd, agentVars, commands>>
\* translate and offer: a terminal event finishes the session in the same turn.
PumpTranslate ==
    /\ pump = "translate" /\ taken' = "none" /\ UNCHANGED commands
    /\ \/ /\ taken = "agent_start" /\ Offer(Frame("run.started", 0))
          /\ sessionSeq' = sessionSeq + 1 /\ pump' = "next"
          /\ UNCHANGED <<finished, eventsEnd, commandsEnd, agentVars>>
       \/ /\ taken = "text_delta" /\ Offer(Frame("token.delta", 0))
          /\ sessionSeq' = sessionSeq + 1 /\ pump' = "next"
          /\ UNCHANGED <<finished, eventsEnd, commandsEnd, agentVars>>
       \/ /\ taken \in {"stop", "error", "aborted"} /\ Offer(Frame(Terminal(taken), 0))
          /\ sessionSeq' = sessionSeq + 1 /\ pump' = "done" /\ Finish
       \/ /\ taken = "malformed" /\ pump' = "done" /\ Fail /\ UNCHANGED sessionSeq

Pump ==
    /\ Running /\ (PumpNext \/ PumpTranslate)
    /\ UNCHANGED <<loopVars, pollVars, recorded, outcome>>

\* The command loop takes a command and calls the agent's control: 0 is a stop.
CommandTake ==
    /\ loop = "take" /\ commands # <<>>
    /\ IF finished THEN loop' = "done" /\ UNCHANGED <<command, given, aborted>>
       ELSE /\ loop' = "control" /\ command' = Head(commands)
            /\ given' = IF Head(commands) = 0 THEN given ELSE Append(given, Head(commands))
            /\ aborted' = (aborted \/ Head(commands) = 0)
    /\ commands' = Tail(commands)
    /\ UNCHANGED <<agent, deltas, source, closed, sessionSeq, finished, events, eventsEnd, commandsEnd>>

\* The control returned: a correction is acknowledged, a stop cancels the session
\* unless it finished meanwhile.
CommandApply ==
    /\ loop = "control" /\ UNCHANGED <<commands, command, given>>
    /\ \/ /\ command # 0 /\ loop' = "take"
          /\ Offer(Frame("run.steered", command)) /\ sessionSeq' = sessionSeq + 1
          /\ UNCHANGED <<finished, eventsEnd, commandsEnd, agentVars>>
       \/ /\ command = 0 /\ loop' = "done"
          /\ IF finished THEN UNCHANGED <<events, sessionSeq>>
             ELSE Offer(Frame("run.cancelled", 0)) /\ sessionSeq' = sessionSeq + 1
          /\ Finish

Obey ==
    /\ Running /\ (CommandTake \/ CommandApply)
    /\ UNCHANGED <<pump, taken, pollVars, recorded, outcome>>

-----------------------------------------------------------------------------
(* pumpRunCommands *)

Claimable == {i \in 1 .. Steers : correction[i] = "written"}
InOrder(S) == [n \in 1 .. Cardinality(S) |-> CHOOSE i \in S : Cardinality({j \in S : j <= i}) = n]

\* claimSteers marks the rows in the statement that returns them; an answer the
\* database never delivered is read as no corrections.
PollClaim ==
    /\ poller = "claim" /\ ~commandsEnd
    /\ correction' = [i \in 1 .. Steers |-> IF i \in Claimable THEN "claimed" ELSE correction[i]]
    /\ held' \in {InOrder(Claimable), <<>>} /\ poller' = "offer"
    /\ UNCHANGED commands

PollOffer ==
    /\ poller = "offer" /\ ~commandsEnd
    /\ commands' = commands \o held /\ held' = <<>> /\ poller' = "stop" /\ UNCHANGED correction

\* Mutant: a poller that never reads the stop mark.
PollStopUnread ==
    /\ poller = "stop" /\ ~commandsEnd /\ poller' = "claim" /\ UNCHANGED <<held, correction, commands>>
\* stopRequested ends the poller's work; a failed read is a mark not seen this time.
PollStop ==
    /\ poller = "stop" /\ ~commandsEnd
    /\ IF stop THEN commands' = Append(commands, 0) /\ poller' = "done"
       ELSE poller' = "claim" /\ UNCHANGED commands
    /\ UNCHANGED <<held, correction>>

\* The mailbox ended: the race interrupts the poller wherever it is.
PollEnds ==
    /\ commandsEnd /\ poller # "done" /\ poller' = "done" /\ held' = <<>>
    /\ UNCHANGED <<correction, commands>>

Poll ==
    /\ Running /\ (PollClaim \/ PollOffer \/ PollStop \/ PollEnds) /\ UNCHANGED stop
    /\ UNCHANGED <<agentVars, pumpVars, loopVars, finished, events, eventsEnd, commandsEnd, recorded, outcome>>

-----------------------------------------------------------------------------
(* consumeRunSession, the operator, and the end of the fence *)

\* Each event is recorded before its outcome counts; a second terminal is a defect.
Consume ==
    /\ events # <<>> /\ events' = Tail(events) /\ recorded' = Append(recorded, Head(events))
    /\ outcome' = IF Head(events).type \notin Terminals THEN outcome
                  ELSE IF outcome = "none" THEN Head(events).type ELSE "defect"
\* The append was refused, or a drained stream has no terminal event.
ConsumeFails ==
    \/ events # <<>> /\ outcome' = "unrecorded" /\ UNCHANGED <<events, recorded>>
    \/ /\ events = <<>> /\ eventsEnd # "open" /\ outcome = "none" /\ outcome' = "defect"
       /\ UNCHANGED <<events, recorded>>
Reader ==
    /\ Running /\ (Consume \/ ConsumeFails)
    /\ UNCHANGED <<agentVars, pumpVars, loopVars, pollVars, finished, eventsEnd, commands, commandsEnd>>

\* The steer's transaction and the stop mark, while the run is active.
Operator ==
    /\ outcome = "none"
    /\ \/ /\ \E i \in 1 .. Steers : /\ correction[i] = "none" /\ \A j \in 1 .. (i - 1) : correction[j] # "none"
                                    /\ correction' = [correction EXCEPT ![i] = "written"]
          /\ UNCHANGED stop
       \/ ~stop /\ stop' = TRUE /\ UNCHANGED correction
    /\ UNCHANGED <<agentVars, pumpVars, mailVars, loopVars, poller, held, recorded, outcome>>

\* The fence is lost or the worker dies: nothing more is recorded.
Interrupt ==
    /\ outcome = "none" /\ outcome' = "interrupted"
    /\ UNCHANGED <<agentVars, pumpVars, mailVars, loopVars, pollVars, recorded>>

SessionNext == Agent \/ Pump \/ Obey \/ Poll \/ Reader \/ Operator \/ Interrupt
SessionSpec == SessionInit /\ [][SessionNext]_sessionVars

-----------------------------------------------------------------------------
(* Properties *)

\* Every fiber and queue keeps its type, and a finished session accepts no command.
SessionTypeOK ==
    /\ agent \in {"new", "running", "done"} /\ pump \in {"next", "translate", "done"}
    /\ loop \in {"take", "control", "done"} /\ poller \in {"claim", "offer", "stop", "done"}
    /\ eventsEnd \in {"open", "ended", "failed"} /\ sessionSeq \in Nat
    /\ \A i \in 1 .. Steers : correction[i] \in {"none", "written", "claimed"}
    /\ outcome \in {"none"} \cup Terminals \cup Broken
    /\ commandsEnd <=> finished
    /\ finished <=> eventsEnd # "open"

\* Whatever order a stop, the agent's own end and a defect come in, the recorded stream
\* has at most one terminal event, nothing follows it, and the outcome is that event.
OneTerminal ==
    /\ \A n \in DOMAIN recorded : recorded[n].type \in Terminals =>
         n = Len(recorded) /\ outcome \in {recorded[n].type, "unrecorded"}
    /\ outcome \in Terminals =>
         recorded # <<>> /\ recorded[Len(recorded)].type = outcome /\ events = <<>>

\* Two fibers number events, and a finished session still numbers some it then drops:
\* what is recorded has no gap.
RecordedIsContiguous == \A n \in DOMAIN recorded : recorded[n].seq = n

\* Corrections are acknowledged once each, in the order the operator wrote them, and
\* only after the agent was given them: who reads an acknowledgement has read those of
\* every correction given before it.
Stream == recorded \o events
Acks == {n \in 1 .. Len(Stream) : Stream[n].type = "run.steered"}
Acked(id, n) == \E i \in Acks : i < n /\ Stream[i].steer = id
SteersInOrder ==
    /\ \A m, n \in 1 .. Len(given) : m < n => given[m] < given[n]
    /\ \A i, n \in Acks : i < n => Stream[i].steer < Stream[n].steer
    /\ \A n \in Acks : \E m \in 1 .. Len(given) :
         Stream[n].steer = given[m] /\ \A k \in 1 .. (m - 1) : Acked(given[k], n)

\* A session records one end, nothing after it and no gap before it, whichever of stop,
\* end, defect and interrupt wins and although two fibers number events; and the agent is
\* given the operator's corrections once each, in the order written.
StreamIsWhole == SessionTypeOK /\ OneTerminal /\ RecordedIsContiguous /\ SteersInOrder

\* A stop request ends a session that the agent has not ended itself: the operator
\* never waits for a model that keeps talking.
StopIsObeyed == stop ~> (outcome # "none")

-----------------------------------------------------------------------------
(* The inductive strengthening of StreamIsWhole *)

Frames ==
    [seq : Nat, steer : 0 .. Steers,
     type : Terminals \cup {"run.started", "token.delta", "run.steered"}]
QueuesAreTyped ==
    /\ recorded \in Seq(Frames) /\ events \in Seq(Frames)
    /\ source \in Seq({"agent_start", "text_delta", "stop", "error", "aborted", "malformed"})
    /\ given \in Seq(1 .. Steers) /\ commands \in Seq(0 .. Steers) /\ held \in Seq(1 .. Steers)
    /\ command \in 0 .. Steers
    /\ correction \in [1 .. Steers -> {"none", "written", "claimed"}]

\* While the mailbox is open the numbers go on where the stream ends; a terminal event is
\* the stream's last and has closed the mailbox.
NumbersGoOn ==
    /\ \A n \in 1 .. Len(Stream) : Stream[n].seq = n
    /\ eventsEnd = "open" => sessionSeq = Len(Stream) + 1
    /\ \A n \in 1 .. Len(Stream) : Stream[n].type \in Terminals => n = Len(Stream) /\ finished
OutcomeIsRecorded ==
    /\ outcome \in Terminals =>
         recorded # <<>> /\ recorded[Len(recorded)].type = outcome /\ events = <<>>
    /\ outcome \notin Terminals => \A n \in 1 .. Len(recorded) : recorded[n].type \notin Terminals

\* Corrections on their way from the rows to the agent never overtake each other.
Before(s, t) ==
    \A m \in 1 .. Len(s), n \in 1 .. Len(t) : s[m] # 0 /\ t[n] # 0 => s[m] < t[n]
Rising(s) == \A m, n \in 1 .. Len(s) : m < n /\ s[m] # 0 /\ s[n] # 0 => s[m] < s[n]
Claimed(s) == \A n \in 1 .. Len(s) : s[n] # 0 => correction[s[n]] = "claimed"
NoneOvertakes ==
    /\ Rising(given) /\ Rising(commands) /\ Rising(held)
    /\ Before(given, commands) /\ Before(given, held) /\ Before(commands, held)
    /\ Claimed(given) /\ Claimed(commands) /\ Claimed(held)
    /\ \A i, j \in 1 .. Steers : i < j =>
         /\ correction[j] # "none" => correction[i] # "none"
         /\ correction[j] = "claimed" => correction[i] = "claimed"

\* While the mailbox is open every correction given is acknowledged but the one in hand.
IsAcked(id) == \E i \in Acks : Stream[i].steer = id
InHand == loop = "control" /\ command # 0
AcksKeepUp ==
    /\ InHand => /\ given # <<>> /\ command = given[Len(given)]
                 /\ \A n \in Acks : Stream[n].steer < command
    /\ eventsEnd = "open" => \A k \in 1 .. Len(given) :
         (InHand /\ k = Len(given)) \/ IsAcked(given[k])

SessionInv ==
    /\ SessionTypeOK /\ QueuesAreTyped /\ NumbersGoOn /\ OutcomeIsRecorded
    /\ NoneOvertakes /\ AcksKeepUp /\ SteersInOrder
=============================================================================
