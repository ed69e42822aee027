---------------------------- MODULE MCAlgorithms ----------------------------
(* The two algorithms that are pure functions of their input, over every     *)
(* small input: the reducer that folds a thread's events, and the schedule    *)
(* that turns a cron expression into instants.  A behaviour exercises the one *)
(* its focus names; the other has no input.                                  *)
EXTENDS EventFold, RoutineSchedule, TLC

VARIABLE focus
vars == <<focus, foldVars, scheduleVars>>

\* Every log of four events of one run, and every log of three events of two.
MCLogs == {[runs |-> {"r1"}, length |-> 4], [runs |-> {"r1", "r2"}, length |-> 3]}

\* A day of three two-minute hours, a week of three days and months of three and two
\* days, with zones that spring forward and fall back by minutes, an hour and a day.
MCDaysInMonth == <<3, 2>>
Every == {Star(1)}
MCTexts ==
    [minute : {Every, {One(1)}}, hour : {Every, {One(1)}, {Span(0, 2, 2)}},
     dom : {Every, {One(3)}}, month : {Every, {One(2)}}, dow : {Every, {One(2)}, {Span(0, 3, 1)}, {One(3)}}]
    \cup [minute : {Every, {Star(2), One(1)}, {Stepped(1, 2)}, {Star(0)}}, hour : {Every, {Span(2, 1, 1)}, {}},
          dom : {Every}, month : {Every, {One(3)}}, dow : {Every, {One(4)}}]
Zone(at, old, new) == [at |-> at, before |-> old, after |-> new]
MCZones ==
    {Zone(40, 0, 0), Zone(40, -4, 0), Zone(40, 0, 4), Zone(40, 4, 0), Zone(40, 0, -4), Zone(38, 4, 2),
     Zone(36, 0, 4), Zone(40, 8, 4), Zone(40, -4, 8),
     Zone(40, -6, 6)}
MCOrigins == 26 .. 46
NoThread ==
    /\ log = <<>> /\ snapshot = createThreadSnapshot /\ lastSeq = 0 /\ pending = {}
    /\ refused = "no" /\ received = {}
NoPreview ==
    cron = Invalid /\ zone = Zone(40, 0, 0) /\ origin = 26 /\ after = 26 /\ fired = <<>> /\ answer = "refused"

Init ==
    \/ focus = "fold" /\ FoldInit /\ NoPreview
    \/ focus = "schedule" /\ ScheduleInit /\ NoThread

Next ==
    /\ UNCHANGED focus
    /\ \/ focus = "fold" /\ FoldNext /\ UNCHANGED scheduleVars
       \/ focus = "schedule" /\ ScheduleNext /\ UNCHANGED foldVars

Spec == Init /\ [][Next]_vars
=============================================================================
