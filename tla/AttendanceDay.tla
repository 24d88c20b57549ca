---------------------------- MODULE AttendanceDay ----------------------------
(***************************************************************************)
(* One employee's attendance: the check-in, lunch and check-out punches of *)
(* several tabs, phones and the Telegram bot, serialised on the employee's *)
(* user row.                                                               *)
(*                                                                         *)
(* A call reads the clock when it arrives and takes the row lock later, so *)
(* punches are written in an order that need not be the order of their     *)
(* timestamps.  Which punches are today's is decided by a window of 24     *)
(* hours that utils/timezone.ts computes from the printed wall time.       *)
(* Settings and location are fixed and allow the punch; the 15-second      *)
(* duplicate window is left out, as a punch equal to the latest one is     *)
(* refused just before it whatever the time.                               *)
(***************************************************************************)
EXTENDS Integers, FiniteSetsExt, SequencesExt

CONSTANTS
    Calls,           \* concurrent requests of the employee
    NoCall,          \* nobody holds the user row
    DayLength,       \* time units of a business day
    MaxClock,        \* bound: last instant a request may arrive at
    LunchBreak,      \* requiredLunchBreakMinutes
    Cooldown,        \* POST_CHECKOUT_COOLDOWN_MS
    LunchEnabled,    \* settings.lunchBreakEnabled
    LunchWindow,     \* units of the day in which lunch may start
    AllowMultipleLunchBreaks,
    MidnightUnit,    \* what Intl prints for the hour of midnight: 0 or 24
    Zone             \* settings.timezone: its offset from UTC at each instant

\* Those of which the calculation of a window may ask the time of day.
Instants == -4 * DayLength .. MaxClock + 4 * DayLength

ASSUME AttendanceAssumption ==
    /\ NoCall \notin Calls
    /\ DayLength \in Nat \ {0} /\ MaxClock \in Nat
    /\ LunchBreak \in Nat /\ Cooldown \in Nat
    /\ LunchEnabled \in BOOLEAN /\ AllowMultipleLunchBreaks \in BOOLEAN
    /\ LunchWindow \subseteq 0 .. DayLength
    /\ MidnightUnit \in {0, DayLength}
    /\ Zone \in [Instants -> 1 - DayLength .. DayLength - 1]

VARIABLES
    events,  \* the AttendanceEvent rows, no two at one instant
    call,    \* the requests: what they ask, their now, the rows they read
    holder,  \* the call holding the user row FOR UPDATE
    clock

vars == <<events, call, holder, clock>>

Punches == {"CHECK_IN", "LUNCH_OUT", "LUNCH_IN", "CHECK_OUT"}

Revert == "REVERT"  \* revertLastEvent

EventType == [type : Punches, time : 0 .. MaxClock]

Idle == [pc |-> "idle", asks |-> Revert, now |-> 0, seen |-> {}]

CallType == [pc : {"idle", "begun", "locked"}, asks : Punches \cup {Revert},
             now : 0 .. MaxClock, seen : SUBSET EventType]

Init ==
    /\ events = {}
    /\ call = [c \in Calls |-> Idle]
    /\ holder = NoCall
    /\ clock = 0

-----------------------------------------------------------------------------
(* Time of day *)

Wall(t) == t + Zone[t]

\* localDateKey
DayOf(t) == Wall(t) \div DayLength

\* Intl.DateTimeFormat with hour12 false.
LocalUnit(t) == IF Wall(t) % DayLength = 0 THEN MidnightUnit ELSE Wall(t) % DayLength

\* getTimeZoneOffsetMinutes: what is printed, read as if it were UTC.
OffsetAt(t) == DayOf(t) * DayLength + LocalUnit(t) - t

\* businessDateStartUtc: the offset is that of the date's midnight in UTC.
DateStart(d) == d * DayLength - OffsetAt(d * DayLength)

\* The window of a query: 24 hours from a start.
Within(rows, start) == {e \in rows : start <= e.time /\ e.time < start + DayLength}

\* From startOfBusinessDayUtc to endOfBusinessDayUtc.
OnDay(rows, t) == Within(rows, DateStart(DayOf(t)))

-----------------------------------------------------------------------------
(* The rules of a punch *)

Latest(rows) == CHOOSE e \in rows : \A f \in rows : f.time <= e.time

\* Mutant: whoever is back from lunch may leave for another.
NextAllowedLunches(existing) ==
    LET latest == Latest(existing).type
        lunch  == IF LunchEnabled THEN {"LUNCH_OUT"} ELSE {}
    IN  IF existing = {} THEN {"CHECK_IN"}
        ELSE CASE latest \in {"CHECK_IN", "LUNCH_IN"} -> lunch \cup {"CHECK_OUT"}
               [] latest = "LUNCH_OUT" -> {"LUNCH_IN"}
               [] OTHER -> {}

NextAllowed(existing) ==
    LET latest == Latest(existing).type
        again  == AllowMultipleLunchBreaks \/ \A e \in existing : e.type # "LUNCH_OUT"
        lunch  == IF LunchEnabled THEN {"LUNCH_OUT"} ELSE {}
    IN  IF existing = {} THEN {"CHECK_IN"}
        ELSE CASE latest = "CHECK_IN" -> lunch \cup {"CHECK_OUT"}
               [] latest = "LUNCH_OUT" -> {"LUNCH_IN"}
               [] latest = "LUNCH_IN" -> (IF again THEN lunch ELSE {}) \cup {"CHECK_OUT"}
               [] OTHER -> {}

\* Mutant: the remaining time is rounded down to nothing.
CoolingRoundedDown(since, now, length) == length > 0 /\ now + 1 < since + length

Cooling(since, now, length) == length > 0 /\ now < since + length

\* The last check-out of any day before now, if it is too recent.
CheckInCooling(rows, now) ==
    LET before == {e \in rows : e.type = "CHECK_OUT" /\ e.time < now}
    IN  before # {} /\ Cooling(Latest(before).time, now, Cooldown)

Accepted(type, now, rows) ==
    LET existing == OnDay(rows, now)
    IN  /\ type \in NextAllowed(existing)
        /\ type = "CHECK_IN" => ~CheckInCooling(rows, now)
        /\ type = "LUNCH_IN" => ~Cooling(Latest(existing).time, now, LunchBreak)
        /\ type = "LUNCH_OUT" => LocalUnit(now) \in LunchWindow

-----------------------------------------------------------------------------
(* createEvent and revertLastEvent *)

\* now = new Date(), before the transaction; no two calls share an instant.
Begin(c) ==
    /\ call[c].pc = "idle"
    /\ clock < MaxClock
    /\ \E asks \in Punches \cup {Revert} :
          /\ ~LunchEnabled => asks \notin {"LUNCH_OUT", "LUNCH_IN"}
          /\ call' = [call EXCEPT ![c] = [Idle EXCEPT !.pc = "begun", !.asks = asks, !.now = clock]]
    /\ clock' = clock + 1
    /\ UNCHANGED <<events, holder>>

\* Mutant: the user row is read without FOR UPDATE.
LockUnguarded(c) ==
    /\ call[c].pc = "begun"
    /\ holder' = c
    /\ call' = [call EXCEPT ![c].pc = "locked", ![c].seen = events]
    /\ UNCHANGED <<events, clock>>

\* The row lock is granted and the events are read under it.
Lock(c) ==
    /\ call[c].pc = "begun"
    /\ holder = NoCall
    /\ holder' = c
    /\ call' = [call EXCEPT ![c].pc = "locked", ![c].seen = events]
    /\ UNCHANGED <<events, clock>>

Ends(c) ==
    /\ call' = [call EXCEPT ![c] = Idle]
    /\ holder' = IF holder = c THEN NoCall ELSE holder

\* The event is inserted, or the punch refused, and the transaction ends.
Record(c) ==
    LET q == call[c]
    IN  /\ q.pc = "locked"
        /\ q.asks # Revert
        /\ events' = events \cup
             IF Accepted(q.asks, q.now, q.seen) THEN {[type |-> q.asks, time |-> q.now]} ELSE {}
        /\ Ends(c)
        /\ UNCHANGED clock

\* The latest event of the day goes; refused on a day without one.
RevertLastEvent(c) ==
    LET q     == call[c]
        today == OnDay(q.seen, q.now)
    IN  /\ q.pc = "locked"
        /\ q.asks = Revert
        /\ events' = events \ (IF today = {} THEN {} ELSE {Latest(today)})
        /\ Ends(c)
        /\ UNCHANGED clock

\* A connection or the process is lost: the transaction rolls back.
Rollback(c) ==
    /\ call[c].pc # "idle"
    /\ Ends(c)
    /\ UNCHANGED <<events, clock>>

\* Time passes without a request.
Tick ==
    /\ clock < MaxClock
    /\ clock' = clock + 1
    /\ UNCHANGED <<events, call, holder>>

Next ==
    \/ Tick
    \/ \E c \in Calls : \/ Begin(c) \/ Lock(c) \/ Record(c)
                        \/ RevertLastEvent(c) \/ Rollback(c)

Spec == Init /\ [][Next]_vars

-----------------------------------------------------------------------------
(* Properties *)

TypeOK ==
    /\ events \subseteq EventType
    /\ call \in [Calls -> CallType]
    /\ holder \in Calls \cup {NoCall}
    /\ clock \in 0 .. MaxClock
    /\ \A c \in Calls : call[c].pc = "locked" <=> holder = c

\* The punches of one date on the wall calendar.
SameDate(rows, t) == {e \in rows : DayOf(e.time) = DayOf(t)}

\* Two tabs, a double click or a revert in between never leave a day with two
\* check-ins.
OneCheckInPerDay ==
    \A e, f \in events :
        e.type = "CHECK_IN" /\ f.type = "CHECK_IN" /\ DayOf(e.time) = DayOf(f.time) => e = f

\* Whatever is reverted or arrives late, every recorded return from lunch has a
\* departure on its day that lies the mandatory break before it, if there is one.
LunchBreakServed ==
    \A e \in events : e.type = "LUNCH_IN" /\ LunchBreak > 0 =>
        \E f \in SameDate(events, e.time) :
            f.type = "LUNCH_OUT" /\ f.time + LunchBreak <= e.time

\* "Prevent final checkout while employee is on lunch": in a day's timeline no
\* check-out directly follows a departure for lunch.
NoCheckoutOnLunch ==
    \A out \in events : out.type = "CHECK_OUT" =>
        LET before == {e \in SameDate(events, out.time) : e.time < out.time}
        IN  before # {} => Latest(before).type # "LUNCH_OUT"

\* Where a second lunch is not allowed, at most one departure of a day lies after
\* its check-in, whatever is reverted, retried or arrives late.
OneLunchPerDay ==
    ~AllowMultipleLunchBreaks =>
        \A in, e, f \in events :
            /\ in.type = "CHECK_IN" /\ e.type = "LUNCH_OUT" /\ f.type = "LUNCH_OUT"
            /\ DayOf(e.time) = DayOf(in.time) /\ DayOf(f.time) = DayOf(in.time)
            /\ e.time > in.time /\ f.time > in.time
            => e = f

\* However many requests wait for the row lock, come late or are lost, the events
\* change as if each punch and each revert happened at once, judged by the punches
\* of its date on the wall calendar.
Date == [t \in 0 .. MaxClock |-> DayOf(t)]
Book == INSTANCE AttendanceBook WITH book <- events
ImplementsBook == Book!Spec

-----------------------------------------------------------------------------
(* What the days rest on *)

\* The window computed for an instant holds the instants of its date.
WindowIsDay ==
    \A s, t \in 0 .. MaxClock :
        DateStart(DayOf(t)) <= s /\ s < DateStart(DayOf(t)) + DayLength
            <=> DayOf(s) = DayOf(t)

\* The clocks never change, and the zone is not UTC on a runtime that prints the
\* hour of midnight as 24.
PlainZone ==
    /\ \A s, t \in Instants : Zone[s] = Zone[t]
    /\ MidnightUnit = 0 \/ Zone[0] # 0
=============================================================================
