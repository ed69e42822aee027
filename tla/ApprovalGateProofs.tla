------------------------- MODULE ApprovalGateProofs -------------------------
(***************************************************************************)
(* Machine-checked proofs about ApprovalGate, for every number of           *)
(* executions and operators and every timeout and clock skew.               *)
(***************************************************************************)
EXTENDS ApprovalGate, TLAPS

USE GateAssumption DEF Procs, Decisions, Rows, Votes

-----------------------------------------------------------------------------
(* Type correctness *)

LEMMA GateTypeInit == Init => TypeOK
    BY DEF Init, TypeOK, Steps, Answers

LEMMA GateTypeStep == TypeOK /\ [Next]_vars => TypeOK'
<1> SUFFICES ASSUME TypeOK, [Next]_vars PROVE TypeOK'
    OBVIOUS
<1> USE DEF TypeOK, Steps, Answers, Goto, Answer
<1>1. ASSUME NEW w \in Waiters, Wait(w) PROVE TypeOK'
    <2>1. CASE Open(w) BY <2>1 DEF Open, HostClock, row
    <2>2. CASE Reopen(w) BY <2>2 DEF Reopen
    <2>3. CASE Poll(w) BY <2>3 DEF Poll
    <2>4. CASE ResolveTimeout(w) BY <2>4 DEF ResolveTimeout, TimeOutRow, Expired
    <2>5. CASE Reread(w) BY <2>5 DEF Reread
    <2> QED BY <1>1, <2>1, <2>2, <2>3, <2>4, <2>5 DEF Wait
<1>2. ASSUME NEW v \in Voters, Vote(v) PROVE TypeOK'
    <2>1. CASE Decide(v) BY <2>1 DEF Decide
    <2>2. CASE Find(v) BY <2>2 DEF Find
    <2>3. CASE Expire(v) BY <2>3 DEF Expire, TimeOutRow, Expired
    <2>4. CASE Refind(v) BY <2>4 DEF Refind
    <2> QED BY <1>2, <2>1, <2>2, <2>3, <2>4 DEF Vote
<1>3. CASE DeleteRun \/ Tick BY <1>3 DEF DeleteRun, Tick
<1>4. ASSUME NEW w \in Waiters, Stop(w) PROVE TypeOK' BY <1>4 DEF Stop
<1>5. CASE UNCHANGED vars BY <1>5 DEF vars
<1> QED BY <1>1, <1>2, <1>3, <1>4, <1>5 DEF Next

\* The row, the clocks and the handlers keep their types.
THEOREM GateTypeCorrect == Spec => []TypeOK
    BY GateTypeInit, GateTypeStep, PTL DEF Spec

-----------------------------------------------------------------------------
(* One decision *)

LEMMA GateInit == Init => GateInv
    BY DEF Init, GateInv, OneDecision, OneVoteApplies, VotesAreAnswered, NeverEarly, Expired

\* The four ways a step touches the gate.  Nothing is decided or answered: the row
\* stays, time may pass, and a vote moves on only past a row that is due or decided.
LEMMA GateRests ==
    ASSUME TypeOK, GateInv, status' = status, expiresAt' = expiresAt, now' >= now, now' \in Nat,
           answer' = answer, applied' = applied, vote' = vote,
           \A v \in Voters : pc'[v] \in {"find", "expire"} =>
               pc[v] \in {"find", "expire"} \/ status \in Decisions \cup {"gone"} \/ Expired,
           \A v \in Voters : pc'[v] = "refind" =>
               pc[v] = "refind" \/ status \in Decisions \cup {"gone"}
    PROVE GateInv'
<1>1. Expired => Expired' BY DEF Expired, TypeOK
<1> QED BY <1>1 DEF GateInv, OneDecision, OneVoteApplies, VotesAreAnswered, NeverEarly, TypeOK

\* Somebody is told what the row already says.
LEMMA GateAnswers ==
    ASSUME TypeOK, GateInv, NEW p \in Procs, NEW a \in Answers,
           answer' = [answer EXCEPT ![p] = a], pc' = [pc EXCEPT ![p] = "answered"],
           a \in {status, "not_found"}, p \in Voters => a # "pending",
           UNCHANGED <<status, expiresAt, now, applied, vote>>
    PROVE GateInv'
<1>1. \A q \in Procs : answer'[q] \in Decisions => status \in {answer'[q], "gone"}
    BY DEF GateInv, TypeOK
<1>2. \A q \in Procs : answer'[q] = answer[q] \/ answer'[q] = status \/ answer'[q] = "not_found"
    BY DEF TypeOK
<1>3. OneDecision'
    BY <1>2 DEF GateInv, OneDecision
<1>4. OneVoteApplies'
    BY <1>2 DEF GateInv, OneVoteApplies
<1>5. VotesAreAnswered' BY DEF GateInv, VotesAreAnswered, TypeOK
<1>6. \A v \in Voters : pc'[v] \in {"find", "expire", "refind"} => pc'[v] = pc[v]
    BY DEF TypeOK
<1> QED BY <1>1, <1>3, <1>4, <1>5, <1>6 DEF GateInv, NeverEarly, Expired

\* The deadline wins: the row was pending and due.
LEMMA GateTimesOut ==
    ASSUME TypeOK, GateInv, NEW p \in Procs, TimeOutRow,
           answer' = [answer EXCEPT ![p] = "timed_out"], pc' = [pc EXCEPT ![p] = "answered"],
           UNCHANGED <<expiresAt, now, applied, vote>>
    PROVE GateInv'
<1>1. status = "pending" /\ expiresAt <= now /\ status' = "timed_out" /\ applied = {}
    BY DEF TimeOutRow, Expired, GateInv
<1>2. \A q \in Procs : answer[q] \notin Decisions
    BY <1>1 DEF GateInv
<1>3. \A q \in Procs : answer'[q] = answer[q] \/ answer'[q] = "timed_out"
    BY DEF TypeOK
<1>4. OneDecision' BY <1>2, <1>3 DEF OneDecision
<1>5. OneVoteApplies' BY <1>1 DEF OneVoteApplies
<1>6. VotesAreAnswered' BY <1>3 DEF GateInv, VotesAreAnswered
<1>7. NeverEarly' BY <1>1 DEF NeverEarly
<1> QED BY <1>1, <1>2, <1>3, <1>4, <1>5, <1>6, <1>7 DEF GateInv

\* A vote wins: the row was pending and the vote is the only one applied.
LEMMA GateDecides ==
    ASSUME TypeOK, GateInv, NEW v \in Voters, status = "pending", status' = vote[v],
           applied' = applied \cup {v}, answer' = [answer EXCEPT ![v] = vote[v]],
           pc' = [pc EXCEPT ![v] = "answered"], UNCHANGED <<expiresAt, now, vote>>
    PROVE GateInv'
<1>1. applied' = {v} /\ vote[v] \in Votes BY DEF GateInv, TypeOK
<1>2. \A q \in Procs : answer[q] \notin Decisions BY DEF GateInv
<1>3. \A q \in Procs : answer'[q] = answer[q] \/ answer'[q] = vote[v] BY DEF TypeOK
<1>4. OneDecision' BY <1>2, <1>3 DEF OneDecision
<1>5. OneVoteApplies' BY <1>1, <1>2, <1>3 DEF OneVoteApplies
<1>6. VotesAreAnswered' BY <1>1, <1>3 DEF GateInv, VotesAreAnswered
<1>7. NeverEarly' BY <1>1 DEF NeverEarly
<1> QED BY <1>1, <1>2, <1>3, <1>4, <1>5, <1>6, <1>7 DEF GateInv

LEMMA GateStep == TypeOK /\ GateInv /\ [Next]_vars => GateInv'
<1> SUFFICES ASSUME TypeOK, GateInv, [Next]_vars PROVE GateInv'
    OBVIOUS
<1> USE DEF Goto, Answer
<1>0. /\ pc \in [Procs -> Steps] /\ now \in Nat /\ status \in Rows
      /\ Waiters \cap Voters = {}
    BY DEF TypeOK
<1>1. ASSUME NEW w \in Waiters, Wait(w) PROVE GateInv'
    <2>1. CASE Open(w)
        <3>1. CASE status = "absent"
            <4>1. status' = "pending" /\ UNCHANGED <<now, answer, applied, vote>>
                BY <2>1, <3>1 DEF Open
            <4>2. \A v \in Voters : pc'[v] = pc[v] BY <1>0, <2>1, <3>1 DEF Open
            <4>3. \A v \in Voters : pc[v] \notin {"find", "expire", "refind"}
                BY <3>1 DEF GateInv, Expired
            <4> QED BY <3>1, <4>1, <4>2, <4>3
                    DEF GateInv, OneDecision, OneVoteApplies, VotesAreAnswered, NeverEarly
        <3>2. CASE status # "absent" BY <1>0, <2>1, <3>2, GateRests DEF Open, row
        <3> QED BY <3>1, <3>2
    <2>2. CASE Reopen(w) BY <1>0, <2>2, GateRests DEF Reopen
    <2>3. CASE Poll(w)
        <3>1. CASE status \in Decisions BY <2>3, <3>1, GateAnswers DEF Poll, Answers
        <3>2. CASE status \notin Decisions BY <1>0, <2>3, <3>2, GateRests DEF Poll
        <3> QED BY <3>1, <3>2
    <2>4. CASE ResolveTimeout(w)
        <3>1. CASE Expired BY <2>4, <3>1, GateTimesOut DEF ResolveTimeout
        <3>2. CASE ~Expired BY <1>0, <2>4, <3>2, GateRests DEF ResolveTimeout, TimeOutRow
        <3> QED BY <3>1, <3>2
    <2>5. CASE Reread(w)
        <3>1. CASE status \in Decisions BY <2>5, <3>1, GateAnswers DEF Reread, Answers
        <3>2. CASE status \notin Decisions BY <1>0, <2>5, <3>2, GateRests DEF Reread
        <3> QED BY <3>1, <3>2
    <2> QED BY <1>1, <2>1, <2>2, <2>3, <2>4, <2>5 DEF Wait
<1>2. ASSUME NEW v \in Voters, Vote(v) PROVE GateInv'
    <2>1. CASE Decide(v)
        <3>1. CASE status = "pending" /\ expiresAt > now
            BY <2>1, <3>1, GateDecides DEF Decide
        <3>2. CASE ~(status = "pending" /\ expiresAt > now)
            <4>1. status \in Decisions \cup {"gone"} \/ Expired
                BY <1>0, <2>1, <3>2 DEF Decide, Expired, TypeOK
            <4> QED BY <1>0, <2>1, <3>2, <4>1, GateRests DEF Decide
        <3> QED BY <3>1, <3>2
    <2>2. CASE Find(v)
        <3>1. CASE status = "pending" BY <1>0, <2>2, <3>1, GateRests DEF Find
        <3>2. CASE status # "pending" BY <2>2, <3>2, GateAnswers DEF Find, Answers
        <3> QED BY <3>1, <3>2
    <2>3. CASE Expire(v)
        <3>1. CASE Expired BY <2>3, <3>1, GateTimesOut DEF Expire
        <3>2. CASE ~Expired
            <4>1. status \in Decisions \cup {"gone"} BY <2>3, <3>2 DEF Expire, GateInv
            <4> QED BY <1>0, <2>3, <3>2, <4>1, GateRests DEF Expire, TimeOutRow
        <3> QED BY <3>1, <3>2
    <2>4. CASE Refind(v)
        <3>1. status \in Decisions \cup {"gone"} BY <2>4 DEF Refind, GateInv
        <3> QED BY <2>4, <3>1, GateAnswers DEF Refind, Answers
    <2> QED BY <1>2, <2>1, <2>2, <2>3, <2>4 DEF Vote
<1>3. CASE DeleteRun
    BY <1>3 DEF DeleteRun, GateInv, OneDecision, OneVoteApplies, VotesAreAnswered, NeverEarly
<1>4. CASE Tick BY <1>0, <1>4, GateRests DEF Tick
<1>5. ASSUME NEW w \in Waiters, Stop(w) PROVE GateInv'
    BY <1>0, <1>5, GateRests DEF Stop
<1>6. CASE UNCHANGED vars BY <1>0, <1>6, GateRests DEF vars
<1> QED BY <1>1, <1>2, <1>3, <1>4, <1>5, <1>6 DEF Next

LEMMA GateAlways == Spec => []GateInv
    BY GateInit, GateStep, GateTypeCorrect, PTL DEF Spec

\* Executions and operators are all told one and the same decision.
THEOREM OneDecisionForAll == Spec => []OneDecision
<1>1. GateInv => OneDecision BY DEF GateInv
<1> QED BY <1>1, GateAlways, PTL

\* At most one vote decides, and nobody is told anything else.
THEOREM VotesApplyOnce == Spec => []OneVoteApplies
<1>1. GateInv => OneVoteApplies BY DEF GateInv
<1> QED BY <1>1, GateAlways, PTL

\* The API's answer to a vote never carries an undecided row.
THEOREM VotesGetDecisions == Spec => []VotesAreAnswered
<1>1. GateInv => VotesAreAnswered BY DEF GateInv
<1> QED BY <1>1, GateAlways, PTL

\* Executions and operators can rely on what the gate told them.
THEOREM VotesProved == Spec => []VotesAreSound
<1>1. OneDecision /\ OneVoteApplies /\ VotesAreAnswered => VotesAreSound
    BY DEF VotesAreSound
<1> QED BY <1>1, OneDecisionForAll, VotesApplyOnce, VotesGetDecisions, PTL

\* No clock skew of a waiting host denies a gate before its deadline.
THEOREM DeadlinesAreKept == Spec => []NeverEarly
<1>1. GateInv => NeverEarly BY DEF GateInv
<1> QED BY <1>1, GateAlways, PTL

\* A decision and a deadline, once written, are never written again.
THEOREM DecisionsAreFinal == Spec => RowIsFinal
<1> DEFINE Kept == /\ status \in Decisions => status' \in {status, "gone"}
                   /\ status # "absent" => expiresAt' = expiresAt
<1>1. TypeOK /\ [Next]_vars => Kept
    BY DEF Next, Wait, Vote, Open, Reopen, Poll, ResolveTimeout, Reread, Decide, Find, Expire,
           Refind, Stop, DeleteRun, Tick, TimeOutRow, Expired, vars, row
<1> QED BY <1>1, GateTypeCorrect, PTL DEF Spec, RowIsFinal
=============================================================================
