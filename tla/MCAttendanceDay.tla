--------------------------- MODULE MCAttendanceDay ---------------------------
EXTENDS AttendanceCalculation, TLC

CONSTANTS web, phone

\* FLEXIBLE lunch but for the last unit of the day.
MCLunchWindow == 1 .. DayLength - 2

\* One unit ahead of UTC, and UTC itself.
MCEast == [t \in Instants |-> 1]
MCUtc == [t \in Instants |-> 0]

\* A working day, then a half one.
MCModes == [d \in CalendarDays |-> IF d = 0 THEN "WEEKDAY" ELSE "HALF_WORKING_DAY"]

MCSymmetry == Permutations(Calls)
=============================================================================
