------------------------ MODULE AttendanceCalculation ------------------------
(***************************************************************************)
(* What a day of punches is worth: calculateAttendanceDay, which every     *)
(* report and the employee's own page call with the rows of the day and    *)
(* the time of the call.  It keeps nothing: a day is computed again each   *)
(* time it is looked at.                                                   *)
(***************************************************************************)
EXTENDS AttendanceDay

CONSTANTS
    Modes,          \* the work mode of each day
    ExpectedDaily,  \* expectedDailyMinutes
    StartUnit,      \* the employee's assigned start and the grace period
    EndOfWork,      \* defaultEndTime
    LunchPenalty,   \* deducted for a lunch never recorded: two hours
    LunchWaiver     \* approved lunch use from which nothing is deducted: one hour

WorkModes == {"WEEKDAY", "FULL_WORKING_DAY", "HALF_WORKING_DAY", "PAID_DAY_OFF"}

CalendarDays == {DayOf(t) : t \in Instants}

ASSUME CalculationAssumption ==
    /\ Modes \in [CalendarDays -> WorkModes]
    /\ {ExpectedDaily, StartUnit, EndOfWork, LunchPenalty, LunchWaiver} \subseteq Nat

-----------------------------------------------------------------------------
(* The timeline: rows are the events of the window that begins at start *)

Units(rows, type) == {LocalUnit(e.time) : e \in {x \in rows : x.type = type}}

Has(rows, type) == Units(rows, type) # {}

First(rows, type) == Min(Units(rows, type))

\* Mutant: a day without a check-out runs on into the next one.
EndUnitUnclamped(start, rows, now) ==
    IF Has(rows, "CHECK_OUT") THEN First(rows, "CHECK_OUT") ELSE LocalUnit(now)

\* calculationEndMinute, clamped to the end of the window.
EndUnit(start, rows, now) ==
    IF Has(rows, "CHECK_OUT") THEN First(rows, "CHECK_OUT")
    ELSE LocalUnit(IF start + DayLength < now THEN start + DayLength ELSE now)

\* minutesBetweenLocal
Elapsed(a, b) == IF b > a THEN b - a ELSE 0

\* Mutant: events after the check-out still count.
WithinShiftOpenEnded(unit, start, end) == start <= unit

WithinShift(unit, start, end) == start <= unit /\ unit <= end

CountEvent(e, day) ==
    LET unit == LocalUnit(e.time)
        span == Elapsed(day.cursor, unit)
    IN  CASE e.type = "LUNCH_OUT" /\ day.working ->
                [day EXCEPT !.worked = @ + span, !.cursor = unit, !.working = FALSE]
          [] e.type = "LUNCH_IN" /\ ~day.working ->
                [day EXCEPT !.break = @ + span, !.cursor = unit, !.working = TRUE,
                            !.lunch = TRUE]
          [] OTHER -> day

Before(e, f) ==
    \/ LocalUnit(e.time) < LocalUnit(f.time)
    \/ /\ LocalUnit(e.time) = LocalUnit(f.time)
       /\ e.time < f.time

\* The row met after all the others.
LastOf(rows) == CHOOSE e \in rows : \A f \in rows : ~Before(e, f)

Morning(start) ==
    [cursor |-> start, working |-> TRUE, worked |-> 0, break |-> 0, lunch |-> FALSE]

\* What the loop has counted when it has met these rows, in that order.
DayAfter(counted, start) ==
    MapThenFoldSet(CountEvent, Morning(start), LAMBDA e : e, LastOf, counted)

\* Worked and break time from the check-in to end, whether the employee is at
\* work then, and whether a lunch was completed.
Timeline(rows, end) ==
    LET start == First(rows, "CHECK_IN")
        day   == DayAfter({e \in rows : WithinShift(LocalUnit(e.time), start, end)}, start)
        rest  == Elapsed(day.cursor, end)
    IN  IF day.working THEN [day EXCEPT !.worked = @ + rest]
        ELSE [day EXCEPT !.break = @ + rest]

-----------------------------------------------------------------------------
(* Schedule, credit and status *)

\* attendanceScheduleForDate; half a day is rounded up.
Expected(d) ==
    CASE Modes[d] = "PAID_DAY_OFF" -> 0
      [] Modes[d] = "HALF_WORKING_DAY" -> (ExpectedDaily + 1) \div 2
      [] OTHER -> ExpectedDaily

\* The day of a window is the date on which it begins.
WorkdayEnded(start, now) ==
    \/ DayOf(now) > DayOf(start)
    \/ /\ DayOf(now) = DayOf(start)
       /\ LocalUnit(now) >= EndOfWork

\* Checked in, never out, and the day's work is over.
Missed(start, rows, now) ==
    /\ Modes[DayOf(start)] # "PAID_DAY_OFF"
    /\ Has(rows, "CHECK_IN") /\ ~Has(rows, "CHECK_OUT")
    /\ WorkdayEnded(start, now)

\* Checked out without a lunch: the deduction an approved use may waive.
LunchSkipped(start, rows) ==
    /\ Modes[DayOf(start)] # "PAID_DAY_OFF"
    /\ Has(rows, "CHECK_IN") /\ Has(rows, "CHECK_OUT")
    /\ LunchEnabled
    /\ ~Timeline(rows, First(rows, "CHECK_OUT")).lunch

LunchDue(use) == IF use >= LunchWaiver THEN 0 ELSE Elapsed(use, LunchPenalty)

\* Mutant: a return from lunch does not end the break.
LatestIgnoresReturn(rows) ==
    CASE Has(rows, "CHECK_OUT") -> "CHECK_OUT"
      [] ~Has(rows, "CHECK_OUT") /\ Has(rows, "LUNCH_OUT") -> "LUNCH_OUT"
      [] OTHER -> "CHECK_IN"

\* latestType: the first check-out, lunch and return decide.
LatestType(rows) ==
    CASE Has(rows, "CHECK_OUT") -> "CHECK_OUT"
      [] /\ ~Has(rows, "CHECK_OUT")
         /\ Has(rows, "LUNCH_OUT")
         /\ ~Has(rows, "LUNCH_IN") \/ First(rows, "LUNCH_OUT") > First(rows, "LUNCH_IN")
            -> "LUNCH_OUT"
      [] OTHER -> "CHECK_IN"

LateBy(d, rows) ==
    IF Modes[d] = "PAID_DAY_OFF" THEN 0 ELSE Elapsed(StartUnit, First(rows, "CHECK_IN"))

Status(d, rows) ==
    IF LateBy(d, rows) > 0 THEN "LATE"
    ELSE CASE LatestType(rows) = "LUNCH_OUT" -> "ON_BREAK"
           [] LatestType(rows) = "CHECK_OUT" -> "COMPLETED"
           [] OTHER -> "IN_PROGRESS"

NotStarted(d) ==
    [raw |-> 0, worked |-> 0, break |-> 0, penalty |-> 0, overtime |-> 0,
     missing |-> Expected(d), late |-> 0,
     status |-> IF Modes[d] = "PAID_DAY_OFF" THEN "PAID_DAY_OFF" ELSE "NOT_STARTED"]

\* use: minutes of lunch an approved special request gave up.
calculateAttendanceDay(start, handed, now, use) ==
    LET rows    == Within(handed, start)
        d       == DayOf(start)
        day     == Timeline(rows, EndUnit(start, rows, now))
        half    == Expected(d) \div 2
        missed  == Missed(start, rows, now)
        penalty == CASE missed -> Expected(d) - half
                     [] LunchSkipped(start, rows) -> Min({LunchDue(use), day.worked})
                     [] OTHER -> 0
        worked  == IF missed THEN half ELSE day.worked - penalty
        off     == Modes[d] = "PAID_DAY_OFF"
    IN  IF ~Has(rows, "CHECK_IN") THEN NotStarted(d)
        ELSE [raw |-> day.worked, worked |-> worked, break |-> day.break,
              penalty |-> penalty,
              overtime |-> IF off THEN 0 ELSE Elapsed(Expected(d), worked),
              missing |-> IF off THEN 0 ELSE Elapsed(worked, Expected(d)),
              late |-> LateBy(d, rows), status |-> Status(d, rows)]

-----------------------------------------------------------------------------
(* The pages that show a date *)

\* The pages call calculateAttendanceDay and add to its result for remote employees
\* and from the lateness report, which is left out here.
\* HR's daily list queries the window and knows what lunch was given up; HR's report
\* of a range groups by date and does not.  The employee's day and history pages
\* differ in the same way, and both take the default start.
Pages == {"buildDaily", "report"}

Shown(page, d, now, approved) ==
    IF page = "buildDaily"
    THEN calculateAttendanceDay(DateStart(d), events, now, approved)
    ELSE calculateAttendanceDay(DateStart(d), {e \in events : DayOf(e.time) = d}, now, 0)

-----------------------------------------------------------------------------
(* Properties *)

DaysSeen == {DayOf(t) : t \in 0 .. MaxClock}

Rows(d) == Within(events, DateStart(d))

\* Worked and break time add up to the time from check-in to check-out (or to
\* now), also for a timeline whose punches were written out of order.
WorkedAndBreakFillTheDay ==
    \A d \in DaysSeen : Has(Rows(d), "CHECK_IN") =>
        LET end == EndUnit(DateStart(d), Rows(d), clock)
            day == Timeline(Rows(d), end)
        IN  day.worked + day.break = Elapsed(First(Rows(d), "CHECK_IN"), end)

\* The status and the totals read the timeline in two ways.  While a day with
\* one lunch is open they agree: whoever has left for it since checking in is on
\* break exactly when no work is being counted.
OnBreakIsNotWorking ==
    \A d \in DaysSeen :
        LET rows == Rows(d)
        IN  /\ ~AllowMultipleLunchBreaks
            /\ Has(rows, "CHECK_IN") /\ ~Has(rows, "CHECK_OUT")
            /\ \A unit \in Units(rows, "LUNCH_OUT") : unit > First(rows, "CHECK_IN")
            => (LatestType(rows) = "LUNCH_OUT"
                  <=> ~Timeline(rows, EndUnit(DateStart(d), rows, clock)).working)

\* A day that was checked out, or is over, is settled: looked at later, on another
\* page, it has the same hours, lateness and status unless a punch changes, and the
\* same penalty and credit unless the page does not know that a lunch the employee
\* never recorded had been given up.
SettledDayIsFinal ==
    [][\A d \in DaysSeen, approved \in 0 .. LunchWaiver :
          /\ clock' # clock /\ UNCHANGED <<events, call>>
          /\ Has(Rows(d), "CHECK_OUT") \/ DayOf(clock) > d
          => LET before == Shown("buildDaily", d, clock, approved)
                 after  == Shown("buildDaily", d, clock', approved)
                 other  == Shown("report", d, clock', approved)
             IN  /\ after = before
                 /\ approved = 0 \/ ~LunchSkipped(DateStart(d), Rows(d)) => other = before
                 /\ other.raw = before.raw /\ other.break = before.break
                 /\ other.late = before.late /\ other.status = before.status]_vars
=============================================================================
