----------------------------- MODULE RunNotices -----------------------------
(***************************************************************************)
(* Run liveness and the notices it causes: the worker's progress tracker    *)
(* and the heartbeat that stamps it on the run row (core/src/run-liveness), *)
(* the watchdogs that look for silent runs and for dead workers             *)
(* (jobs/lease-watchdog.ts over db/src/run-liveness.ts), and the delivery   *)
(* of the notice (run-notifications.ts, effect/src/notification-delivery).  *)
(*                                                                          *)
(* Instants are kept as ages, counted in ticks and saturating just past the *)
(* largest limit they are compared with, and so are the notice counters;    *)
(* the last episode stands for all later ones.                              *)
(***************************************************************************)
EXTENDS Integers, FiniteSets

CONSTANTS
    Dogs,           \* overlapping watchdog passes
    Threshold,      \* RUN_STALL_THRESHOLD_SECONDS
    LeaseTtl,       \* RUN_LEASE_TTL_SECONDS
    MaxAttempts,    \* delivery attempts per notice
    MaxEpisodes,    \* bound: stall episodes that are told apart
    WorkNotes       \* whether the run's work hands its events to the tracker

ASSUME NoticesAssumption ==
    /\ Threshold \in Nat /\ LeaseTtl \in Nat \ {0} /\ MaxAttempts \in Nat \ {0}
    /\ MaxEpisodes \in Nat \ {0} /\ WorkNotes \in BOOLEAN /\ "executor" \notin Dogs

VARIABLES
    status,         \* run.status
    leaseLeft,      \* ticks until lease_expires_at
    progressAge,    \* age of last_progress_at
    step,           \* current_step
    stalled,        \* stalled_at is set
    stop,           \* stop_requested_at is set
    notified,       \* notified_at is set
    worker,         \* up, beating (a beat is on its way) or gone
    hung,           \* the agent will say nothing more
    tracker,        \* the RunProgress closure
    beat,           \* the snapshot on its way
    eventAge,       \* age of the agent's last event
    covered,        \* that event precedes the last snapshot taken
    reported,       \* and that snapshot's beat has been written
    job,            \* what each producer is doing
    episode,        \* the stall episode the run is in
    series,         \* delivery series begun per episode, and for the end
    messages        \* messages the operator received of each
runRow == <<status, leaseLeft, progressAge, step, stalled, stop, notified>>
work == <<worker, hung, tracker, beat, eventAge, covered, reported>>
notice == <<job, episode, series, messages>>
noticesVars == <<runRow, work, notice>>

Producers == Dogs \cup {"executor"}
End == 0
Subjects == 0 .. MaxEpisodes
\* A run at work on a tool reads as a thinking one.
RUN_STEP_KINDS == {"starting", "thinking", "waiting"}
Idle == [phase |-> "idle", about |-> End, tries |-> 0]
NoBeat == [progressed |-> FALSE, step |-> "none", idle |-> 0]
Older(age, limit) == IF age > limit THEN age ELSE age + 1

NoticesInit ==
    /\ status = "running" /\ leaseLeft = LeaseTtl /\ progressAge = 0 /\ step = "starting"
    /\ stalled = FALSE /\ stop = FALSE /\ notified = FALSE
    /\ worker = "up" /\ hung = FALSE /\ eventAge = 0 /\ covered = TRUE /\ reported = TRUE
    /\ tracker = [progressed |-> FALSE, step |-> "starting"] /\ beat = NoBeat
    /\ job = [p \in Producers |-> Idle] /\ episode = 1
    /\ series = [s \in Subjects |-> 0] /\ messages = [s \in Subjects |-> 0]

-----------------------------------------------------------------------------
(* The worker *)

\* RunProgress.note, for a work that calls it: the step the event stands for.
note(kind) ==
    tracker' = IF WorkNotes THEN [progressed |-> TRUE, step |-> kind] ELSE tracker
Emit ==
    /\ worker # "gone" /\ ~hung /\ status = "running"
    /\ \E kind \in RUN_STEP_KINDS \ {"starting"} : note(kind)
    /\ eventAge' = 0 /\ covered' = FALSE /\ reported' = FALSE
    /\ UNCHANGED <<runRow, worker, hung, beat, notice>>
Hang == worker # "gone" /\ ~hung /\ hung' = TRUE /\ UNCHANGED <<runRow, worker, tracker, beat, eventAge, covered, reported, notice>>

\* Mutant: a beat that counts as progress itself.
SnapshotAlways ==
    /\ worker = "up" /\ worker' = "beating"
    /\ beat' = [progressed |-> TRUE, step |-> tracker.step, idle |-> 0]
    /\ tracker' = [tracker EXCEPT !.progressed = FALSE] /\ covered' = TRUE
    /\ UNCHANGED <<runRow, hung, eventAge, reported, notice>>
\* heartbeatEffect takes the snapshot, which consumes the progressed flag; the idle time
\* counts from the last event and is used with that flag only.
Snapshot ==
    /\ worker = "up" /\ worker' = "beating"
    /\ beat' = [progressed |-> tracker.progressed, step |-> tracker.step, idle |-> eventAge]
    /\ tracker' = [tracker EXCEPT !.progressed = FALSE]
    /\ covered' = TRUE
    /\ UNCHANGED <<runRow, hung, eventAge, reported, notice>>

\* Mutant: a renewal that stamps the step and not the progress.
HeartbeatStepOnly ==
    /\ worker = "beating" /\ status = "running" /\ leaseLeft > 0
    /\ leaseLeft' = LeaseTtl /\ step' = beat.step /\ worker' = "up"
    /\ reported' = (reported \/ covered)
    /\ beat' = NoBeat
    /\ UNCHANGED <<progressAge, stalled, episode, status, stop, notified, hung, tracker, eventAge, covered, job, series, messages>>
\* heartbeatRun: one statement renews the lease, stamps the progress and clears the mark.
Heartbeat ==
    /\ worker = "beating" /\ status = "running" /\ leaseLeft > 0
    /\ leaseLeft' = LeaseTtl /\ step' = beat.step /\ worker' = "up"
    /\ IF beat.progressed
       THEN /\ progressAge' = beat.idle /\ stalled' = FALSE
            /\ episode' = IF stalled /\ episode < MaxEpisodes THEN episode + 1 ELSE episode
       ELSE UNCHANGED <<progressAge, stalled, episode>>
    /\ reported' = (reported \/ covered)
    /\ beat' = NoBeat
    /\ UNCHANGED <<status, stop, notified, hung, tracker, eventAge, covered, job, series, messages>>

\* The process and its memory are gone.
Gone == worker' = "gone" /\ tracker' = [progressed |-> FALSE, step |-> "starting"] /\ beat' = NoBeat
\* A refused or failed beat is a lost lease: the work is interrupted.
LoseLease ==
    /\ worker = "beating" /\ Gone
    /\ UNCHANGED <<runRow, hung, eventAge, covered, reported, notice>>
Die ==
    /\ worker # "gone" /\ Gone
    /\ UNCHANGED <<runRow, hung, eventAge, covered, reported, notice>>

\* The fenced settlement, then the executor's notice of it.
Settle ==
    /\ worker # "gone" /\ ~hung /\ status = "running" /\ leaseLeft > 0
    /\ \E s \in {"completed", "failed", "cancelled"} : status' = s
    /\ step' = "none" /\ stalled' = FALSE /\ leaseLeft' = 0 /\ Gone
    /\ job' = [job EXCEPT !["executor"] = [@ EXCEPT !.phase = "claim", !.about = End]]
    /\ UNCHANGED <<progressAge, stop, notified, hung, eventAge, covered, reported, episode, series, messages>>

RequestStop ==
    /\ status = "running" /\ ~stop /\ stop' = TRUE
    /\ UNCHANGED <<status, leaseLeft, progressAge, step, stalled, notified, work, notice>>

-----------------------------------------------------------------------------
(* The watchdog *)

\* What findStalledRuns selects and markRunStalled asks again.
Stalls ==
    /\ status = "running" /\ leaseLeft > 0 /\ ~stop /\ ~stalled
    /\ step # "waiting" /\ progressAge > Threshold

\* assessRunLiveness, as the console and the notice read the row.
assessRunLiveness ==
    IF status # "running" THEN "none"
    ELSE IF stop THEN "stopping"
    ELSE IF step = "waiting" THEN "waiting"
    ELSE IF progressAge > Threshold THEN "stuck"
    ELSE step

Scan(w) ==
    /\ job[w].phase = "idle"
    /\ \/ Stalls /\ job' = [job EXCEPT ![w] = [@ EXCEPT !.phase = "mark", !.about = episode]]
       \/ /\ status = "running" /\ leaseLeft = 0
          /\ job' = [job EXCEPT ![w] = [@ EXCEPT !.phase = "reclaim", !.about = End]]
    /\ UNCHANGED <<runRow, work, episode, series, messages>>

\* Mutant: a mark that does not ask whether another pass has set it.
MarkStalledAgain(w) ==
    /\ job[w].phase = "mark" /\ status = "running" /\ leaseLeft > 0 /\ ~stop
    /\ step # "waiting" /\ progressAge > Threshold /\ stalled' = TRUE
    /\ job' = [job EXCEPT ![w] = [@ EXCEPT !.phase = "eligible", !.about = episode]]
    /\ UNCHANGED <<status, leaseLeft, progressAge, step, stop, notified, work, episode, series, messages>>
\* recordStall: the mark is set while the facts still hold, by one watchdog.
MarkStalled(w) ==
    /\ job[w].phase = "mark"
    /\ IF Stalls
       THEN stalled' = TRUE /\ job' = [job EXCEPT ![w] = [@ EXCEPT !.phase = "eligible", !.about = episode]]
       ELSE job' = [job EXCEPT ![w] = Idle] /\ UNCHANGED stalled
    /\ UNCHANGED <<status, leaseLeft, progressAge, step, stop, notified, work, episode, series, messages>>

\* reclaimCandidate of a run with nothing to resume: it is failed, and told as timed out.
TimeOutRun(w) ==
    /\ job[w].phase = "reclaim"
    /\ IF status = "running" /\ leaseLeft = 0
       THEN /\ status' = "failed" /\ step' = "none" /\ stalled' = FALSE
            /\ job' = [job EXCEPT ![w] = [@ EXCEPT !.phase = "claim"]]
       ELSE job' = [job EXCEPT ![w] = Idle] /\ UNCHANGED <<status, step, stalled>>
    /\ UNCHANGED <<leaseLeft, progressAge, stop, notified, work, episode, series, messages>>

-----------------------------------------------------------------------------
(* The notice *)

\* notifySettledRun: a cancelled run is not announced, any other claims its one notice.
Claim(p) ==
    /\ job[p].phase = "claim"
    /\ IF status \in {"completed", "failed"} /\ ~notified
       THEN notified' = TRUE /\ job' = [job EXCEPT ![p].phase = "eligible"]
       ELSE job' = [job EXCEPT ![p] = Idle] /\ UNCHANGED notified
    /\ UNCHANGED <<status, leaseLeft, progressAge, step, stalled, stop, work, episode, series, messages>>

\* eligibility: a switched-off kind, or a user outside the space, is not told.
CheckEligible(p) ==
    /\ job[p].phase = "eligible"
    /\ \/ /\ job' = [job EXCEPT ![p].phase = "send"]
          /\ series' = [series EXCEPT ![job[p].about] = Older(@, 1)]
       \/ job' = [job EXCEPT ![p] = Idle] /\ UNCHANGED series
    /\ UNCHANGED <<runRow, work, episode, messages>>

Told(p) == messages' = [messages EXCEPT ![job[p].about] = Older(@, MaxAttempts)]
\* One attempt: accepted; refused for good or by a defect; refused for now; or timed out,
\* and then the provider may have accepted it.
Send(p) ==
    /\ job[p].phase = "send"
    /\ \/ Told(p) /\ job' = [job EXCEPT ![p] = Idle]
       \/ UNCHANGED messages /\ job' = [job EXCEPT ![p] = Idle]
       \/ /\ Told(p) \/ UNCHANGED messages
          /\ job' = [job EXCEPT ![p] = IF job[p].tries + 1 >= MaxAttempts THEN Idle
                                       ELSE [job[p] EXCEPT !.tries = @ + 1]]
    /\ UNCHANGED <<runRow, work, episode, series>>

\* A watchdog or executor dies with its notice.
Abandon(p) ==
    /\ job[p].phase # "idle" /\ job' = [job EXCEPT ![p] = Idle]
    /\ UNCHANGED <<runRow, work, episode, series, messages>>

Tick ==
    /\ leaseLeft' = IF leaseLeft = 0 THEN 0 ELSE leaseLeft - 1
    /\ progressAge' = Older(progressAge, Threshold)
    /\ eventAge' = Older(eventAge, Threshold)
    /\ UNCHANGED <<status, step, stalled, stop, notified, worker, hung, tracker, beat, covered, reported, notice>>

Watch(w) == Scan(w) \/ MarkStalled(w) \/ TimeOutRun(w)
Notify(p) == Claim(p) \/ CheckEligible(p) \/ Send(p)
NoticesNext ==
    \/ Emit \/ Hang \/ Snapshot \/ Heartbeat \/ LoseLease \/ Die \/ Settle \/ RequestStop \/ Tick
    \/ \E w \in Dogs : Watch(w)
    \/ \E p \in Producers : Notify(p) \/ Abandon(p)
NoticesSpec == NoticesInit /\ [][NoticesNext]_noticesVars
-----------------------------------------------------------------------------
(* Properties *)

\* Every field keeps its type; a mark, a step and a lease belong to a run that is running.
NoticesTypeOK ==
    /\ status \in {"running", "completed", "failed", "cancelled"} /\ leaseLeft \in 0 .. LeaseTtl
    /\ progressAge \in 0 .. Threshold + 1 /\ eventAge \in 0 .. Threshold + 1
    /\ worker \in {"up", "beating", "gone"} /\ step \in RUN_STEP_KINDS \cup {"none"}
    /\ \A p \in Producers : job[p].phase \in {"idle", "mark", "reclaim", "claim", "eligible", "send"}
    /\ (step # "none") <=> (status = "running")
    /\ stalled => status = "running"

\* A stall is silence: when a watchdog marks a run, every event of the agent that a
\* written heartbeat could have carried is older than the threshold, whichever beats and
\* passes overlapped (createRunProgress, heartbeatRun, markRunStalled).
StallIsSilence == [][~stalled /\ stalled' => ~reported \/ eventAge > Threshold]_noticesVars

\* Overlapping watchdog passes begin at most one delivery per stall episode, and the
\* executor and the watchdogs at most one for the run's end.
OneSeriesPerEpisode == \A s \in Subjects \ {MaxEpisodes} : series[s] <= 1

\* A notice reaches the operator at most once per attempt, and never for a cancelled run.
MessagesAreBounded ==
    /\ \A s \in Subjects \ {MaxEpisodes} : messages[s] <= MaxAttempts * series[s]
    /\ status = "cancelled" => messages[End] = 0

\* The scan's rows are the ones the assessment calls stuck, but for the episodes
\* already marked and the leases that have run out.
ScanAgrees == Stalls <=> assessRunLiveness = "stuck" /\ ~stalled /\ leaseLeft > 0

\* The watchdogs' view is one: a stall is announced in one bounded series, by a scan
\* that finds exactly what the assessment calls stuck.
NoticesAreSound ==
    NoticesTypeOK /\ OneSeriesPerEpisode /\ MessagesAreBounded /\ ScanAgrees

\* An agent that falls silent under a worker that stays up is found: the run is marked,
\* or it ends, unless it waits for an approval or was asked to stop.
HangIsSeen ==
    hung /\ worker # "gone" /\ status = "running" /\ tracker.step # "waiting" ~> stalled \/ stop \/ status # "running"

\* A mark does not outlive the silence: once the tracker has progress to report, the mark
\* goes with the next beat.
RecoveryClearsTheMark ==
    stalled /\ tracker.progressed ~> ~stalled \/ worker = "gone"

-----------------------------------------------------------------------------
(* The inductive strengthening OperationsProofs uses. *)

Works ==
    [phase : {"idle", "mark", "reclaim", "claim", "eligible", "send"}, about : Subjects,
     tries : 0 .. MaxAttempts - 1]
Beats == [progressed : BOOLEAN, step : RUN_STEP_KINDS \cup {"none"}, idle : 0 .. Threshold + 1]
RowShapes ==
    /\ status \in {"running", "completed", "failed", "cancelled"} /\ leaseLeft \in 0 .. LeaseTtl
    /\ progressAge \in 0 .. Threshold + 1 /\ step \in RUN_STEP_KINDS \cup {"none"}
    /\ stalled \in BOOLEAN /\ stop \in BOOLEAN /\ notified \in BOOLEAN
    /\ (step # "none") <=> (status = "running")
    /\ stalled => status = "running"
WorkShapes ==
    /\ worker \in {"up", "beating", "gone"} /\ hung \in BOOLEAN /\ eventAge \in 0 .. Threshold + 1
    /\ tracker \in [progressed : BOOLEAN, step : RUN_STEP_KINDS] /\ beat \in Beats
    /\ covered \in BOOLEAN /\ reported \in BOOLEAN
    /\ worker = "beating" => beat.step # "none"
NoticeShapes ==
    /\ job \in [Producers -> Works] /\ episode \in 1 .. MaxEpisodes
    /\ series \in [Subjects -> 0 .. 2] /\ messages \in [Subjects -> 0 .. MaxAttempts + 1]

\* Of a subject one producer at most is about to tell, and nothing was told before;
\* nobody tells of an episode before its mark, or of the end before its claim.
Tells(p, s) == job[p].phase \in {"eligible", "send"} /\ job[p].about = s
Unborn(s) == IF s = End THEN ~notified ELSE s > episode \/ (s = episode /\ ~stalled /\ status = "running")
OneTeller(s) ==
    /\ \A p, q \in Producers : Tells(p, s) /\ Tells(q, s) => p = q
    /\ \A p \in Producers : Tells(p, s) =>
          IF job[p].phase = "eligible" THEN series[s] = 0 ELSE series[s] = 1 /\ messages[s] <= job[p].tries
    /\ series[s] <= 1 /\ messages[s] <= MaxAttempts * series[s]
    /\ Unborn(s) => series[s] = 0 /\ \A p \in Producers : ~Tells(p, s)
ClaimsAreOfTheEnd ==
    /\ \A p \in Producers : job[p].phase \in {"reclaim", "claim"} => job[p].about = End
    /\ status \in {"running", "cancelled"} => ~notified
NoticesInv ==
    /\ RowShapes /\ WorkShapes /\ NoticeShapes /\ ClaimsAreOfTheEnd
    /\ \A s \in Subjects \ {MaxEpisodes} : OneTeller(s)

\* Of a work that notes its events: an event is in the tracker, then in the beat under
\* way, then on the row, which from then on is no older than the event.
ProgressArrives ==
    /\ reported => covered /\ progressAge <= eventAge
    /\ worker = "beating" /\ covered => beat.idle <= eventAge
    /\ worker = "beating" /\ covered /\ ~reported => beat.progressed
    /\ worker = "up" /\ ~reported => tracker.progressed
    /\ worker = "beating" /\ ~covered => tracker.progressed
=============================================================================
