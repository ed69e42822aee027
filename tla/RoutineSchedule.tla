-------------------------- MODULE RoutineSchedule --------------------------
(***************************************************************************)
(* When a routine fires (core/src/routine-schedule.ts): a five-field cron   *)
(* expression and a zone become instants, and the preview of                *)
(* db/src/routines.ts walks them.                                           *)
(*                                                                          *)
(* Time is in half minutes, so an instant may lie inside a minute, and the  *)
(* calendar is scaled down: its sizes are constants. A zone is the instant  *)
(* at which its offset changes and the offsets before and after.            *)
(***************************************************************************)
EXTENDS Integers, Sequences, FiniteSets, FiniteSetsExt

CONSTANTS
    MinutesPerHour, HoursPerDay, DaysPerWeek,
    DaysInMonth,     \* the length of each month, in order
    Texts,           \* cron expressions: one set of parts per field
    Zones,           \* [at, before, after]
    Origins,         \* instants a search may start from
    HorizonDays,     \* MAX_FIRE_HORIZON_DAYS
    MaxShift,        \* MAX_WALL_CLOCK_SHIFT_MINUTES
    PreviewCount     \* fire times one preview asks for

ASSUME CalendarAssumption ==
    /\ {MinutesPerHour, HoursPerDay, DaysPerWeek, PreviewCount} \subseteq Nat \ {0}
    /\ DaysInMonth \in Seq(Nat \ {0}) /\ DaysInMonth # <<>>
    /\ HorizonDays \in Nat /\ MaxShift \in Nat

VARIABLES
    cron,    \* the parsed expression, or Invalid
    zone,    \* the routine's zone
    origin,  \* the clock the preview started from
    after,   \* where the next search starts
    fired,   \* the fire times found so far, in order
    answer   \* searching, done or unreachable
scheduleVars == <<cron, zone, origin, after, fired, answer>>

Minute == 2
Hour == Minute * MinutesPerHour
Day == Hour * HoursPerDay
Invalid == [minutes |-> {}, hours |-> {}, daysOfMonth |-> {}, months |-> {}, daysOfWeek |-> {}]
Unreachable == -1000

----------------------------------------------------------------------------
(* Parsing: a part is a wildcard, a range or a single value, and a step.    *)

Star(step) == [kind |-> "star", from |-> 0, to |-> 0, step |-> step]
Span(from, to, step) == [kind |-> "span", from |-> from, to |-> to, step |-> step]
One(value) == [kind |-> "one", from |-> value, to |-> value, step |-> 0]
\* `7/10` is written as a single value with a step
Stepped(value, step) == [One(value) EXCEPT !.step = step]

Stride(from, to, step) == {v \in from .. to : (v - from) % step = 0}

PartValid(p, lo, hi) ==
    \/ p.kind = "star" /\ p.step >= 1
    \/ p.kind = "span" /\ p.step >= 1 /\ lo <= p.from /\ p.from <= p.to /\ p.to <= hi
    \/ p.kind = "one" /\ p.step = 0 /\ lo <= p.from /\ p.from <= hi

parsePart(p, lo, hi) ==
    CASE p.kind = "star" -> Stride(lo, hi, p.step)
      [] p.kind = "span" -> Stride(p.from, p.to, p.step)
      [] p.kind = "one" -> {p.from}

FieldValid(parts, lo, hi) == parts # {} /\ \A p \in parts : PartValid(p, lo, hi)

parseField(parts, lo, hi) == UNION {parsePart(p, lo, hi) : p \in parts}

Months == Len(DaysInMonth)
LongestMonth == Max({DaysInMonth[i] : i \in 1 .. Months})

\* The value after the last weekday is the first weekday again.
Weekdays(parts) == {v % DaysPerWeek : v \in parseField(parts, 0, DaysPerWeek)}

parseRoutineCron(text) ==
    IF /\ FieldValid(text.minute, 0, MinutesPerHour - 1) /\ FieldValid(text.hour, 0, HoursPerDay - 1)
       /\ FieldValid(text.dom, 1, LongestMonth) /\ FieldValid(text.month, 1, Months)
       /\ FieldValid(text.dow, 0, DaysPerWeek)
    THEN [minutes |-> parseField(text.minute, 0, MinutesPerHour - 1),
          hours |-> parseField(text.hour, 0, HoursPerDay - 1),
          daysOfMonth |-> parseField(text.dom, 1, LongestMonth),
          months |-> parseField(text.month, 1, Months),
          daysOfWeek |-> Weekdays(text.dow)]
    ELSE Invalid

----------------------------------------------------------------------------
(* The calendar (JavaScript's Date, in UTC) and the zone (Intl).            *)

DaysBefore[i \in 1 .. Months] == IF i = 1 THEN 0 ELSE DaysBefore[i - 1] + DaysInMonth[i - 1]
YearLength == DaysBefore[Months] + DaysInMonth[Months]
MonthOf(d) == CHOOSE i \in 1 .. Months :
    DaysBefore[i] <= d % YearLength /\ d % YearLength < DaysBefore[i] + DaysInMonth[i]
DayOf(d) == (d % YearLength) - DaysBefore[MonthOf(d)] + 1
WeekdayOf(d) == d % DaysPerWeek

wallClockAt(z, t) == t + (IF t < z.at THEN z.before ELSE z.after)
offsetAt(z, t) == wallClockAt(z, t) - t

----------------------------------------------------------------------------
(* The search.                                                              *)

dayMatches(c, d) ==
    LET byMonth == DayOf(d) \in c.daysOfMonth
        byWeek == WeekdayOf(d) \in c.daysOfWeek
        anyMonth == Cardinality(c.daysOfMonth) = LongestMonth
        anyWeek == Cardinality(c.daysOfWeek) = DaysPerWeek
    IN \/ anyMonth /\ anyWeek
       \/ anyMonth /\ ~anyWeek /\ byWeek
       \/ anyWeek /\ ~anyMonth /\ byMonth
       \/ ~anyMonth /\ ~anyWeek /\ (byMonth \/ byWeek)

\* Mutant: the walk starts from the offset in force the day before only.
resolveWallClockBefore(z, wall) ==
    LET steps == {k \in 0 .. MaxShift : wallClockAt(z, wall - offsetAt(z, wall - Day) + k * Minute) >= wall}
    IN IF steps = {} THEN Unreachable ELSE wall - offsetAt(z, wall - Day) + Min(steps) * Minute

(* The walk: from the earlier of the two instants the offsets of the day    *)
(* before and the day after give, minute by minute, until the local clock   *)
(* reaches the wall time.                                                   *)
resolveWallClock(z, wall) ==
    LET candidate == Min({wall - offsetAt(z, wall - Day), wall - offsetAt(z, wall + Day)})
        steps == {k \in 0 .. MaxShift : wallClockAt(z, candidate + k * Minute) >= wall}
    IN IF steps = {} THEN Unreachable ELSE candidate + Min(steps) * Minute

\* The wall-clock minutes of the schedule on one calendar day.
Slots(c, d) ==
    IF MonthOf(d) \in c.months /\ dayMatches(c, d)
    THEN {d * Day + h * Hour + n * Minute : h \in c.hours, n \in c.minutes} ELSE {}

startWall(z, t) == (wallClockAt(z, t) \div Minute) * Minute + Minute

nextRoutineFire(c, z, t) ==
    LET start == startWall(z, t)
        walls == {w \in UNION {Slots(c, (start \div Day) + k) : k \in 0 .. HorizonDays} :
                    w >= start /\ resolveWallClock(z, w) > t}
    IN IF walls = {} THEN Unreachable ELSE resolveWallClock(z, Min(walls))

----------------------------------------------------------------------------
ScheduleInit ==
    /\ \E text \in Texts : cron = parseRoutineCron(text)
    /\ zone \in Zones /\ origin \in Origins /\ after = origin /\ fired = <<>>
    /\ answer = IF cron = Invalid THEN "refused" ELSE "searching"

\* previewRoutineSchedule: each search starts where the last one ended.
Preview ==
    /\ answer = "searching"
    /\ LET next == nextRoutineFire(cron, zone, after)
       IN \/ /\ next = Unreachable
             /\ answer' = "unreachable"
             /\ UNCHANGED <<after, fired>>
          \/ /\ next # Unreachable
             /\ after' = next /\ fired' = Append(fired, next)
             /\ answer' = IF Len(fired) + 1 = PreviewCount THEN "done" ELSE "searching"
    /\ UNCHANGED <<cron, zone, origin>>

ScheduleNext == Preview

----------------------------------------------------------------------------
(* The state variables hold what the code's values can be.                  *)
ScheduleTypeOK ==
    /\ cron = Invalid \/ (cron.minutes \subseteq 0 .. MinutesPerHour - 1 /\ cron.minutes # {}
                          /\ cron.hours \subseteq 0 .. HoursPerDay - 1 /\ cron.hours # {}
                          /\ cron.daysOfMonth \subseteq 1 .. LongestMonth /\ cron.daysOfMonth # {}
                          /\ cron.months \subseteq 1 .. Months /\ cron.months # {}
                          /\ cron.daysOfWeek \subseteq 0 .. DaysPerWeek - 1 /\ cron.daysOfWeek # {})
    /\ zone \in Zones /\ origin \in Origins /\ after \in Int /\ fired \in Seq(Int)
    /\ answer \in {"refused", "searching", "done", "unreachable"}

\* The instant a zone's clock first shows a wall time or passes it.
Reaches(w) ==
    LET instants == {t \in (w - 2 * Day) .. (w + 2 * Day) : wallClockAt(zone, t) >= w}
    IN Min({t \in instants : \A u \in instants : u >= t})

(* Each local day's matching wall-clock minutes, by cron's own day rule: a  *)
(* field that covers its range constrains nothing, two fields that          *)
(* constrain combine with OR.                                               *)
WallTimes(from, to) ==
    {w \in from .. to :
        LET d == w \div Day IN
        /\ w % Minute = 0
        /\ (w % Hour) \div Minute \in cron.minutes /\ (w % Day) \div Hour \in cron.hours
        /\ MonthOf(d) \in cron.months
        /\ LET full == {f \in {"month", "week"} :
                           \/ f = "month" /\ cron.daysOfMonth = 1 .. LongestMonth
                           \/ f = "week" /\ cron.daysOfWeek = 0 .. DaysPerWeek - 1}
           IN \/ Cardinality(full) = 2
              \/ "month" \notin full /\ DayOf(d) \in cron.daysOfMonth
              \/ "week" \notin full /\ WeekdayOf(d) \in cron.daysOfWeek}

(* Every matching wall-clock minute fires exactly once: when the local      *)
(* clock first reaches it, or, where a spring-forward skips it, at the       *)
(* moment the clock passes it; the second pass of a fall-back fires nothing *)
(* again and nothing between the start and the last fire is left out.       *)
EveryWallTimeOnce ==
    cron # Invalid /\ fired # <<>> =>
        {fired[i] : i \in 1 .. Len(fired)} =
            {Reaches(w) : w \in {v \in WallTimes(origin - 2 * Day, after + 2 * Day) :
                                   origin < Reaches(v) /\ Reaches(v) <= after}}

(* The fire times of a preview are strictly increasing instants after the   *)
(* clock it started from, so no slot is settled twice.                      *)
StrictlyLater ==
    \A i \in 1 .. Len(fired) : fired[i] > (IF i = 1 THEN origin ELSE fired[i - 1])

(* A schedule is called unreachable only when no matching wall time lies in *)
(* the searched horizon.                                                    *)
UnreachableHasNoFire ==
    answer = "unreachable" =>
        {w \in WallTimes(after, after + (HorizonDays - 1) * Day) : Reaches(w) > after} = {}

(* The search is exact: every matching local minute once, in order, and      *)
(* "unreachable" only where there is none.                                   *)
ScheduleIsExact ==
    ScheduleTypeOK /\ StrictlyLater /\ EveryWallTimeOnce /\ UnreachableHasNoFire
=============================================================================
