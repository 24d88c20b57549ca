------------------------- MODULE AttendanceDayProofs -------------------------
(***************************************************************************)
(* Theorems of AttendanceDay, for any number of concurrent requests, any   *)
(* length of day, lunch break and cooldown.  What is said of dates holds   *)
(* where the computed windows are the dates; they are in a plain zone.     *)
(***************************************************************************)
EXTENDS AttendanceDay, WellFoundedInduction, TLAPS

USE AttendanceAssumption

\* What the call holding the row lock has read is what is still stored.
SeenIsStored == \A c \in Calls : call[c].pc = "locked" => call[c].seen = events

Inv == TypeOK /\ SeenIsStored

-----------------------------------------------------------------------------
(* Dates and windows *)

LEMMA Times ==
    ASSUME NEW a \in Int, NEW b \in Int, a <= b
    PROVE  a * DayLength <= b * DayLength
OBVIOUS

\* A day is the multiples of its length between its two midnights.
LEMMA DayBounds ==
    ASSUME NEW w \in Int, NEW d \in Int
    PROVE  /\ w \div DayLength \in Int
           /\ w % DayLength \in 0 .. DayLength - 1
           /\ w = (w \div DayLength) * DayLength + (w % DayLength)
           /\ w \div DayLength = d <=> d * DayLength <= w /\ w < d * DayLength + DayLength
<1> DEFINE q == w \div DayLength
           r == w % DayLength
<1>1. q \in Int /\ r \in 0 .. DayLength - 1 /\ w = q * DayLength + r
  OBVIOUS
<1>2. q * DayLength <= w /\ w < q * DayLength + DayLength
  BY <1>1
<1> HIDE DEF q, r
<1>3. ASSUME q < d PROVE ~ (d * DayLength <= w)
  <2>1. (q + 1) * DayLength <= d * DayLength
    BY <1>1, <1>3, Times
  <2>2. (q + 1) * DayLength = q * DayLength + DayLength
    BY <1>1
  <2> QED BY <1>1, <1>2, <2>1, <2>2
<1>4. ASSUME d < q PROVE ~ (w < d * DayLength + DayLength)
  <2>1. (d + 1) * DayLength <= q * DayLength
    BY <1>1, <1>4, Times
  <2>2. (d + 1) * DayLength = d * DayLength + DayLength
    OBVIOUS
  <2> QED BY <1>1, <1>2, <2>1, <2>2
<1>5. q = d <=> d * DayLength <= w /\ w < d * DayLength + DayLength
  BY <1>1, <1>2, <1>3, <1>4
<1> QED BY <1>1, <1>5 DEF q, r

LEMMA ClockTypes ==
    ASSUME NEW t \in 0 .. MaxClock
    PROVE  t \in Instants /\ Zone[t] \in Int /\ Wall(t) \in Int /\ DayOf(t) \in Int
<1>1. t \in Instants /\ Zone[t] \in Int
  BY DEF Instants
<1>2. Wall(t) \in Int
  BY <1>1 DEF Wall
<1> QED BY <1>1, <1>2, DayBounds DEF DayOf

\* In a plain zone the window of a date begins at its midnight.
LEMMA PlainStart ==
    ASSUME PlainZone, NEW t \in 0 .. MaxClock
    PROVE  DateStart(DayOf(t)) = DayOf(t) * DayLength - Zone[t]
<1> DEFINE d == DayOf(t)
           m == d * DayLength
           z == Zone[t]
<1>1. /\ d \in Int /\ m \in Int /\ z \in Int
      /\ 0 - DayLength < z /\ z < DayLength
      /\ m <= t + z /\ t + z < m + DayLength
  <2>1. t \in Instants /\ Wall(t) \in Int /\ d \in Int
    BY ClockTypes
  <2>2. z \in 1 - DayLength .. DayLength - 1
    BY <2>1
  <2>3. m <= Wall(t) /\ Wall(t) < m + DayLength
    BY <2>1, DayBounds DEF DayOf
  <2> QED BY <2>1, <2>2, <2>3 DEF Wall
<1> HIDE DEF d, z
<1>2. m \in Instants /\ 0 \in Instants /\ t \in Instants
  <2> HIDE DEF m
  <2> QED BY <1>1, ClockTypes DEF Instants
<1>3. Zone[m] = z /\ Zone[0] = z
  BY <1>2 DEF PlainZone, z
<1>4. Wall(m) = m + z /\ Wall(m) \in Int
  BY <1>1, <1>3 DEF Wall
<1>5. /\ DayOf(m) \in Int /\ Wall(m) % DayLength \in Int
      /\ DayOf(m) * DayLength + (Wall(m) % DayLength) = m + z
  <2> HIDE DEF m
  <2>1. PICK w \in Int : w = Wall(m)
    BY <1>4
  <2>2. /\ w \div DayLength \in Int /\ w % DayLength \in Int
        /\ w = (w \div DayLength) * DayLength + (w % DayLength)
    BY DayBounds
  <2> QED BY <1>4, <2>1, <2>2 DEF DayOf
<1>6. LocalUnit(m) = Wall(m) % DayLength
  <2>1. CASE z = 0
    <3>1. MidnightUnit = 0
      BY <1>3, <2>1 DEF PlainZone
    <3> QED BY <3>1 DEF LocalUnit
  <2>2. CASE z # 0
    <3>1. SUFFICES ASSUME Wall(m) % DayLength = 0 PROVE FALSE
      BY DEF LocalUnit
    <3> DEFINE q == DayOf(m)
    <3>2. q \in Int /\ q * DayLength = d * DayLength + z
      BY <1>1, <1>5, <3>1
    <3> HIDE DEF q
    <3>3. (q - d) * DayLength = z
      BY <1>1, <3>2
    <3>4. CASE q - d >= 1
      <4>1. 1 * DayLength <= (q - d) * DayLength
        BY <1>1, <3>2, <3>4, Times
      <4> QED BY <1>1, <3>3, <4>1
    <3>5. CASE q - d <= -1
      <4>1. (q - d) * DayLength <= (-1) * DayLength
        BY <1>1, <3>2, <3>5, Times
      <4> QED BY <1>1, <3>3, <4>1
    <3>6. CASE q = d
      BY <1>1, <2>2, <3>2, <3>6
    <3> QED BY <1>1, <3>2, <3>4, <3>5, <3>6
  <2> QED BY <2>1, <2>2
<1>7. OffsetAt(m) = z
  BY <1>1, <1>5, <1>6 DEF OffsetAt
<1> QED BY <1>7 DEF DateStart, d, z

\* Where the clocks never change and the zone is not UTC on a runtime that prints
\* the hour of midnight as 24, the window computed for an instant is its date.
THEOREM PlainZoneHasDays == PlainZone => WindowIsDay
<1> SUFFICES ASSUME PlainZone, NEW s \in 0 .. MaxClock, NEW t \in 0 .. MaxClock
             PROVE  DateStart(DayOf(t)) <= s /\ s < DateStart(DayOf(t)) + DayLength
                      <=> DayOf(s) = DayOf(t)
  BY DEF WindowIsDay
<1>1. DateStart(DayOf(t)) = DayOf(t) * DayLength - Zone[t]
  BY PlainStart
<1>2. Zone[s] = Zone[t] /\ Zone[t] \in Int /\ Wall(s) \in Int /\ DayOf(t) \in Int
  BY ClockTypes DEF PlainZone
<1>3. DayOf(s) = DayOf(t) <=>
        DayOf(t) * DayLength <= Wall(s) /\ Wall(s) < DayOf(t) * DayLength + DayLength
  BY <1>2, DayBounds DEF DayOf
<1>4. Wall(s) = s + Zone[t]
  BY <1>2 DEF Wall
<1> DEFINE m == DayOf(t) * DayLength
<1>5. m \in Int
  BY <1>2
<1> HIDE DEF m
<1> QED BY <1>1, <1>2, <1>3, <1>4, <1>5 DEF m

\* Then the rows of a window are those of the date.
LEMMA WindowHoldsTheDay ==
    ASSUME WindowIsDay, NEW rows \in SUBSET EventType, NEW t \in 0 .. MaxClock
    PROVE  OnDay(rows, t) = SameDate(rows, t)
<1>1. \A e \in rows : e.time \in 0 .. MaxClock
  BY DEF EventType
<1> QED BY <1>1, Zenon DEF WindowIsDay, OnDay, SameDate, Within

-----------------------------------------------------------------------------
(* The rules of a punch *)

\* Among the rows of a day there is a latest one.
LEMMA LatestIsLast ==
    ASSUME NEW rows \in SUBSET EventType, rows # {}
    PROVE  Latest(rows) \in rows /\ \A f \in rows : f.time <= Latest(rows).time
<1> DEFINE left == {MaxClock - e.time : e \in rows}
<1>1. left \in SUBSET Nat /\ left # {}
  BY DEF EventType
<1>2. PICK m \in left : \A n \in left : ~ (<<n, m>> \in OpToRel(<, Nat))
  BY <1>1, WFMin, NatLessThanWellFounded
<1>3. \A n \in left : ~ (n < m)
  BY <1>1, <1>2 DEF OpToRel
<1>4. PICK e \in rows : m = MaxClock - e.time
  OBVIOUS
<1>5. \A f \in rows : f.time <= e.time
  <2> SUFFICES ASSUME NEW f \in rows PROVE f.time <= e.time
    OBVIOUS
  <2>1. e.time \in 0 .. MaxClock /\ f.time \in 0 .. MaxClock
    BY DEF EventType
  <2>2. ~ (MaxClock - f.time < MaxClock - e.time)
    BY <1>3, <1>4
  <2> QED BY <2>1, <2>2
<1> HIDE DEF left
<1> QED BY <1>5 DEF Latest

\* Only an empty day takes a check-in.
LEMMA CheckInComesFirst ==
    ASSUME NEW rows, "CHECK_IN" \in NextAllowed(rows)
    PROVE  rows = {}
<1> DEFINE latest == Latest(rows).type
<1> HIDE DEF latest
<1>1. SUFFICES ASSUME rows # {} PROVE FALSE
  OBVIOUS
<1> QED BY <1>1 DEF NextAllowed, latest

\* A return from lunch directly follows a departure.
LEMMA LunchInFollowsOut ==
    ASSUME NEW rows, "LUNCH_IN" \in NextAllowed(rows)
    PROVE  rows # {} /\ Latest(rows).type = "LUNCH_OUT"
<1>1. rows # {}
  BY DEF NextAllowed
<1>2. SUFFICES ASSUME Latest(rows).type # "LUNCH_OUT" PROVE FALSE
  BY <1>1
<1>3. CASE Latest(rows).type = "CHECK_IN"
  BY <1>1, <1>3 DEF NextAllowed
<1>4. CASE Latest(rows).type = "LUNCH_IN"
  BY <1>1, <1>4 DEF NextAllowed
<1>5. CASE Latest(rows).type \notin {"CHECK_IN", "LUNCH_IN"}
  BY <1>1, <1>2, <1>5 DEF NextAllowed
<1> QED BY <1>3, <1>4, <1>5

-----------------------------------------------------------------------------
(* The invariant *)

LEMMA InitInv == Init => Inv
BY DEF Init, Inv, TypeOK, SeenIsStored, Idle, CallType, Revert

\* The end of a transaction, whatever it did to the events.
LEMMA EndsInv ==
    ASSUME Inv, NEW c \in Calls, Ends(c), events' \subseteq EventType, clock' = clock,
           call[c].pc = "locked" \/ events' = events
    PROVE  Inv'
<1>1. Idle \in CallType /\ Idle.pc = "idle"
  BY DEF Idle, CallType, Revert
<1>2. /\ call' = [call EXCEPT ![c] = Idle]
      /\ call'[c] = Idle
      /\ \A k \in Calls : k # c => call'[k] = call[k]
  BY DEF Ends, Inv, TypeOK
<1>3. \A k \in Calls : k # c /\ call[k].pc = "locked" => call[c].pc # "locked"
  BY DEF Inv, TypeOK
<1>4. TypeOK'
  BY <1>1, <1>2 DEF Ends, Inv, TypeOK
<1>5. SeenIsStored'
  BY <1>1, <1>2, <1>3 DEF Inv, SeenIsStored
<1> QED BY <1>4, <1>5 DEF Inv

LEMMA BeginInv == ASSUME Inv, NEW c \in Calls, Begin(c) PROVE Inv'
<1>1. PICK asks \in Punches \cup {Revert} :
        call[c].pc = "idle" /\ call' = [call EXCEPT ![c] = [Idle EXCEPT !.pc = "begun", !.asks = asks, !.now = clock]]
  BY DEF Begin
<1> DEFINE new == [Idle EXCEPT !.pc = "begun", !.asks = asks, !.now = clock]
<1>2. new \in CallType /\ new.pc = "begun"
  BY DEF Idle, CallType, Inv, TypeOK
<1>3. call[c].pc = "idle" /\ holder' = holder /\ events' = events
      /\ clock' \in 0 .. MaxClock /\ call' = [call EXCEPT ![c] = new]
  <2>1. clock \in 0 .. MaxClock /\ clock < MaxClock /\ clock' = clock + 1
    BY DEF Begin, Inv, TypeOK
  <2>2. clock' \in 0 .. MaxClock
    BY <2>1
  <2> QED BY <1>1, <2>2 DEF Begin
<1> HIDE DEF new
<1>4. /\ call'[c] = new
      /\ \A k \in Calls : k # c => call'[k] = call[k]
  BY <1>3 DEF Inv, TypeOK
<1>5. TypeOK'
  BY <1>2, <1>3, <1>4 DEF Inv, TypeOK
<1>6. SeenIsStored'
  BY <1>2, <1>3, <1>4 DEF Inv, SeenIsStored
<1> QED BY <1>5, <1>6 DEF Inv

LEMMA LockInv == ASSUME Inv, NEW c \in Calls, Lock(c) PROVE Inv'
<1> DEFINE new == [call[c] EXCEPT !.pc = "locked", !.seen = events]
<1>1. new \in CallType /\ new.pc = "locked" /\ new.seen = events
  BY DEF CallType, Inv, TypeOK
<1>2. holder = NoCall /\ holder' = c /\ events' = events /\ clock' = clock
      /\ call' = [call EXCEPT ![c] = new]
  BY DEF Lock, Inv, TypeOK
<1> HIDE DEF new
<1>3. /\ call'[c] = new
      /\ \A k \in Calls : k # c => call'[k] = call[k] /\ call[k].pc # "locked"
  BY <1>2 DEF Inv, TypeOK
<1>4. TypeOK'
  BY <1>1, <1>2, <1>3 DEF Inv, TypeOK
<1>5. SeenIsStored'
  BY <1>1, <1>2, <1>3 DEF Inv, SeenIsStored
<1> QED BY <1>4, <1>5 DEF Inv

\* What a transaction reads under the row lock and what it writes.
LEMMA Recorded ==
    ASSUME Inv, NEW c \in Calls, Record(c), NEW q, q = call[c]
    PROVE  /\ q \in CallType /\ q.pc = "locked" /\ q.asks # Revert
           /\ [type |-> q.asks, time |-> q.now] \in EventType
           /\ events' = events \cup IF Accepted(q.asks, q.now, events)
                                    THEN {[type |-> q.asks, time |-> q.now]} ELSE {}
           /\ Ends(c) /\ clock' = clock
<1>1. q \in CallType
  BY DEF Inv, TypeOK
<1>2. q.pc = "locked" /\ q.asks # Revert /\ q.seen = events
  BY DEF Record, Inv, SeenIsStored
<1>3. [type |-> q.asks, time |-> q.now] \in EventType
  BY <1>1, <1>2 DEF CallType, EventType
<1> QED BY <1>1, <1>2, <1>3 DEF Record

LEMMA Reverted ==
    ASSUME Inv, NEW c \in Calls, RevertLastEvent(c), NEW q, q = call[c]
    PROVE  /\ q \in CallType /\ q.pc = "locked"
           /\ events' = events \ (IF OnDay(events, q.now) = {} THEN {}
                                  ELSE {Latest(OnDay(events, q.now))})
           /\ events' \subseteq events /\ events \subseteq EventType
           /\ Ends(c) /\ clock' = clock
BY DEF RevertLastEvent, Inv, TypeOK, SeenIsStored

LEMMA RecordInv == ASSUME Inv, NEW c \in Calls, Record(c) PROVE Inv'
<1>1. PICK q : q = call[c]
  OBVIOUS
<1>2. events' \subseteq EventType /\ clock' = clock /\ Ends(c) /\ call[c].pc = "locked"
  BY <1>1, Recorded DEF Inv, TypeOK
<1> QED BY <1>2, EndsInv

LEMMA RevertInv == ASSUME Inv, NEW c \in Calls, RevertLastEvent(c) PROVE Inv'
<1>1. PICK q : q = call[c]
  OBVIOUS
<1>2. events' \subseteq EventType /\ clock' = clock /\ Ends(c) /\ call[c].pc = "locked"
  BY <1>1, Reverted
<1> QED BY <1>2, EndsInv

LEMMA NextInv == Inv /\ [Next]_vars => Inv'
<1> SUFFICES ASSUME Inv, [Next]_vars PROVE Inv'
  OBVIOUS
<1>1. CASE Tick
  BY <1>1 DEF Tick, Inv, TypeOK, SeenIsStored
<1>2. ASSUME NEW c \in Calls, Rollback(c) PROVE Inv'
  BY <1>2, EndsInv DEF Rollback, Inv, TypeOK
<1>3. CASE UNCHANGED vars
  BY <1>3 DEF vars, Inv, TypeOK, SeenIsStored
<1> QED BY <1>1, <1>2, <1>3, BeginInv, LockInv, RecordInv, RevertInv DEF Next

THEOREM InvHolds == Spec => []Inv
BY InitInv, NextInv, PTL DEF Spec

\* Events, requests and the row lock have their types, and the row lock is held
\* by the one request that is past it, whatever the windows are.
THEOREM TypeCorrect == Spec => []TypeOK
<1>1. Inv => TypeOK
  BY DEF Inv
<1> QED BY <1>1, InvHolds, PTL

-----------------------------------------------------------------------------
(* Check-ins and breaks of a date *)

DayInv == OneCheckInPerDay /\ LunchBreakServed

LEMMA RecordDay ==
    ASSUME WindowIsDay, Inv, DayInv, NEW c \in Calls, Record(c)
    PROVE  DayInv'
<1>0. PICK q : q = call[c]
  OBVIOUS
<1> DEFINE punch == [type |-> q.asks, time |-> q.now]
<1>1. /\ q.now \in 0 .. MaxClock /\ punch \in EventType
      /\ events' = events \cup IF Accepted(q.asks, q.now, events) THEN {punch} ELSE {}
  BY <1>0, Recorded DEF CallType
<1>2. events \in SUBSET EventType
  BY DEF Inv, TypeOK
<1>3. CASE ~ Accepted(q.asks, q.now, events)
  <2>1. events' = events
    BY <1>1, <1>3
  <2> QED BY <2>1 DEF DayInv, OneCheckInPerDay, LunchBreakServed, SameDate
<1>4. CASE Accepted(q.asks, q.now, events)
  <2> DEFINE today == SameDate(events, q.now)
  <2>0. today = OnDay(events, q.now) /\ today \in SUBSET EventType
    BY <1>1, <1>2, WindowHoldsTheDay DEF SameDate
  <2>1. events' = events \cup {punch}
    BY <1>1, <1>4
  <2>2. OneCheckInPerDay'
    <3>1. q.asks = "CHECK_IN" => today = {}
      BY <1>4, <2>0, CheckInComesFirst DEF Accepted
    <3>2. \A e \in events : q.asks = "CHECK_IN" => DayOf(e.time) # DayOf(q.now)
      BY <3>1 DEF SameDate
    <3> QED BY <2>1, <3>2 DEF DayInv, OneCheckInPerDay
  <2>3. LunchBreakServed'
    <3>1. SUFFICES ASSUME NEW e \in events', e.type = "LUNCH_IN", LunchBreak > 0
                   PROVE  \E f \in SameDate(events, e.time) :
                            f.type = "LUNCH_OUT" /\ f.time + LunchBreak <= e.time
      BY <2>1 DEF LunchBreakServed, SameDate
    <3>2. CASE e \in events
      BY <3>1, <3>2 DEF DayInv, LunchBreakServed
    <3>3. CASE e = punch
      <4> HIDE DEF today
      <4>1. "LUNCH_IN" \in NextAllowed(today) /\ ~ Cooling(Latest(today).time, q.now, LunchBreak)
        BY <1>4, <2>0, <3>1, <3>3 DEF Accepted
      <4>2. today # {} /\ Latest(today).type = "LUNCH_OUT"
        BY <4>1, LunchInFollowsOut
      <4>3. Latest(today) \in today
        BY <2>0, <4>2, LatestIsLast
      <4>4. Latest(today).time \in Nat /\ q.now \in Nat
        BY <1>1, <2>0, <4>3 DEF EventType
      <4>5. Latest(today).time + LunchBreak <= q.now
        BY <3>1, <4>1, <4>4 DEF Cooling
      <4> QED BY <3>3, <4>2, <4>3, <4>5 DEF today
    <3> QED BY <2>1, <3>2, <3>3
  <2> QED BY <2>2, <2>3 DEF DayInv
<1> QED BY <1>3, <1>4

LEMMA RevertDay ==
    ASSUME WindowIsDay, Inv, DayInv, NEW c \in Calls, RevertLastEvent(c)
    PROVE  DayInv'
<1>0. PICK q : q = call[c]
  OBVIOUS
<1> DEFINE today == SameDate(events, q.now)
<1>1. /\ events' = events \ (IF today = {} THEN {} ELSE {Latest(today)})
      /\ events' \subseteq events /\ events \subseteq EventType
      /\ today \in SUBSET EventType
  <2>1. q.now \in 0 .. MaxClock /\ events \in SUBSET EventType
    BY <1>0, Reverted DEF CallType
  <2>2. OnDay(events, q.now) = today /\ today \in SUBSET EventType
    BY <2>1, WindowHoldsTheDay DEF SameDate
  <2> QED BY <1>0, <2>1, <2>2, Reverted
<1>2. OneCheckInPerDay'
  BY <1>1 DEF DayInv, OneCheckInPerDay
<1>3. LunchBreakServed'
  <2>1. SUFFICES ASSUME NEW e \in events', e.type = "LUNCH_IN", LunchBreak > 0
                 PROVE  \E f \in SameDate(events', e.time) :
                          f.type = "LUNCH_OUT" /\ f.time + LunchBreak <= e.time
    BY DEF LunchBreakServed, SameDate
  <2>2. PICK f \in SameDate(events, e.time) : f.type = "LUNCH_OUT" /\ f.time + LunchBreak <= e.time
    BY <1>1, <2>1 DEF DayInv, LunchBreakServed
  <2>3. f \in events /\ DayOf(f.time) = DayOf(e.time) /\ f.time < e.time
    <3>1. f \in events /\ DayOf(f.time) = DayOf(e.time)
      BY <2>2 DEF SameDate
    <3>2. f.time \in Nat /\ e.time \in Nat
      BY <1>1, <3>1 DEF EventType
    <3> QED BY <2>1, <2>2, <3>1, <3>2
  <2>4. f \in events'
    <3>1. SUFFICES ASSUME today # {}, f = Latest(today) PROVE FALSE
      BY <1>1, <2>3
    <3>2. f \in today /\ \A g \in today : g.time <= f.time
      BY <1>1, <3>1, LatestIsLast
    <3>3. e \in today
      BY <1>1, <2>3, <3>2 DEF SameDate
    <3>4. f.time \in Nat /\ e.time \in Nat
      BY <1>1, <3>2, <3>3 DEF EventType
    <3> QED BY <2>3, <3>2, <3>3, <3>4
  <2> QED BY <2>2, <2>3, <2>4 DEF SameDate
<1> QED BY <1>2, <1>3 DEF DayInv

LEMMA DayInvHolds == ASSUME WindowIsDay PROVE Spec => []DayInv
<1>1. Init => DayInv
  BY DEF Init, DayInv, OneCheckInPerDay, LunchBreakServed
<1>2. Inv /\ DayInv /\ [Next]_vars => DayInv'
  <2> SUFFICES ASSUME Inv, DayInv, [Next]_vars PROVE DayInv'
    OBVIOUS
  <2>1. ASSUME events' = events PROVE DayInv'
    BY <2>1 DEF DayInv, OneCheckInPerDay, LunchBreakServed, SameDate
  <2>2. CASE Tick \/ UNCHANGED vars
    BY <2>1, <2>2 DEF Tick, vars
  <2>3. ASSUME NEW c \in Calls, Begin(c) \/ Lock(c) \/ Rollback(c) PROVE DayInv'
    BY <2>1, <2>3 DEF Begin, Lock, Rollback
  <2> QED BY <2>2, <2>3, RecordDay, RevertDay DEF Next
<1> QED BY <1>1, <1>2, InvHolds, PTL DEF Spec

\* Any number of tabs, double clicks and reverts never give a day two check-ins,
\* where the windows are the dates: the row lock makes what a request read still
\* true when it writes.
THEOREM OneCheckInPerDayHolds == ASSUME WindowIsDay PROVE Spec => []OneCheckInPerDay
<1>1. DayInv => OneCheckInPerDay
  BY DEF DayInv
<1>2. Spec => []DayInv
  BY DayInvHolds
<1> QED BY <1>1, <1>2, PTL

\* A recorded return from lunch has its departure a full break earlier on its
\* date, even though requests read their clock before they wait for the row lock.
THEOREM LunchBreakServedHolds == ASSUME WindowIsDay PROVE Spec => []LunchBreakServed
<1>1. DayInv => LunchBreakServed
  BY DEF DayInv
<1>2. Spec => []DayInv
  BY DayInvHolds
<1> QED BY <1>1, <1>2, PTL

-----------------------------------------------------------------------------
(* Lunches of a day *)

\* What was recorded or is under way happened already.
PastOnly ==
    /\ \A e \in events : e.time < clock
    /\ \A c \in Calls : call[c].pc # "idle" => call[c].now < clock

LunchInWindow == \A e \in events : e.type = "LUNCH_OUT" => LocalUnit(e.time) \in LunchWindow

LunchInv == PastOnly /\ LunchInWindow /\ OneLunchPerDay

\* After a check-in or a return comes the departure for lunch, after a return only
\* if the day has none or may have several.
LEMMA LunchOutFollows ==
    ASSUME NEW rows, "LUNCH_OUT" \in NextAllowed(rows)
    PROVE  /\ rows # {}
           /\ \/ Latest(rows).type = "CHECK_IN"
              \/ AllowMultipleLunchBreaks
              \/ \A e \in rows : e.type # "LUNCH_OUT"
<1> DEFINE latest == Latest(rows).type
           again  == AllowMultipleLunchBreaks \/ \A e \in rows : e.type # "LUNCH_OUT"
<1> HIDE DEF latest
<1>1. rows # {}
  BY DEF NextAllowed
<1>2. SUFFICES ASSUME latest # "CHECK_IN", ~ again PROVE FALSE
  BY <1>1 DEF latest
<1>3. CASE latest = "LUNCH_OUT"
  BY <1>1, <1>3 DEF NextAllowed, latest
<1>4. CASE latest = "LUNCH_IN"
  <2>1. NextAllowed(rows) = {} \cup {"CHECK_OUT"}
    BY <1>1, <1>2, <1>4, Zenon DEF NextAllowed, latest
  <2> QED BY <2>1
<1>5. CASE latest \notin {"LUNCH_OUT", "LUNCH_IN"}
  BY <1>1, <1>2, <1>5 DEF NextAllowed, latest
<1> QED BY <1>3, <1>4, <1>5

\* Rows that go change nothing of it.
LEMMA LunchKept ==
    ASSUME LunchInv, clock \in Nat, clock' \in Nat, clock <= clock',
           TypeOK, events' \subseteq events,
           \A c \in Calls : call'[c].pc # "idle" => call'[c].now < clock'
    PROVE  LunchInv'
<1>1. \A e \in events : e.time \in Nat
  BY DEF TypeOK, EventType
<1>2. PastOnly'
  BY <1>1 DEF LunchInv, PastOnly
<1>3. LunchInWindow'
  BY DEF LunchInv, LunchInWindow
<1>4. OneLunchPerDay'
  BY DEF LunchInv, OneLunchPerDay
<1> QED BY <1>2, <1>3, <1>4 DEF LunchInv

LEMMA RecordLunch ==
    ASSUME WindowIsDay, Inv, DayInv, LunchInv, NEW c \in Calls, Record(c)
    PROVE  LunchInv'
<1>0. PICK q : q = call[c]
  OBVIOUS
<1> DEFINE punch == [type |-> q.asks, time |-> q.now]
<1>1. /\ q \in CallType /\ q.pc = "locked"
      /\ events' = events \cup IF Accepted(q.asks, q.now, events) THEN {punch} ELSE {}
      /\ call' = [call EXCEPT ![c] = Idle] /\ clock' = clock
  BY <1>0, Recorded DEF Ends
<1>2. \A k \in Calls : call'[k].pc # "idle" => call'[k].now < clock'
  <2>1. \A k \in Calls : call'[k] = Idle \/ call'[k] = call[k]
    BY <1>1 DEF Inv, TypeOK
  <2>2. Idle.pc = "idle"
    BY DEF Idle
  <2> QED BY <1>1, <2>1, <2>2 DEF LunchInv, PastOnly
<1>3. clock \in Nat /\ clock' \in Nat /\ clock <= clock'
  BY <1>1 DEF Inv, TypeOK
<1>4. CASE ~ Accepted(q.asks, q.now, events)
  <2>1. events' = events
    BY <1>1, <1>4
  <2> QED BY <1>2, <1>3, <2>1, LunchKept DEF Inv
<1>5. CASE Accepted(q.asks, q.now, events)
  <2> DEFINE today == SameDate(events, q.now)
  <2>0. today = OnDay(events, q.now) /\ today \in SUBSET EventType
    <3>1. q.now \in 0 .. MaxClock /\ events \in SUBSET EventType
      BY <1>1 DEF CallType, Inv, TypeOK
    <3> QED BY <3>1, WindowHoldsTheDay DEF SameDate
  <2>1. events' = events \cup {punch}
    BY <1>1, <1>5
  <2>2. q.now < clock /\ q.now \in Nat
    BY <1>0, <1>1 DEF LunchInv, PastOnly, CallType
  <2>3. PastOnly'
    BY <1>1, <1>2, <2>1, <2>2 DEF LunchInv, PastOnly
  <2>4. LunchInWindow'
    <3>1. q.asks = "LUNCH_OUT" => LocalUnit(q.now) \in LunchWindow
      BY <1>5 DEF Accepted
    <3> QED BY <2>1, <3>1 DEF LunchInv, LunchInWindow
  <2>5. ASSUME q.asks = "CHECK_IN" PROVE \A e \in events : DayOf(e.time) # DayOf(q.now)
    <3>1. today = {}
      BY <1>5, <2>0, <2>5, CheckInComesFirst DEF Accepted
    <3> QED BY <3>1 DEF SameDate
  <2>6. ASSUME q.asks = "LUNCH_OUT", ~ AllowMultipleLunchBreaks,
               NEW in \in events, NEW f \in events,
               in.type = "CHECK_IN", f.type = "LUNCH_OUT",
               DayOf(in.time) = DayOf(q.now), DayOf(f.time) = DayOf(q.now)
        PROVE  ~ (f.time > in.time)
    <3>1. today \in SUBSET EventType /\ in \in today /\ f \in today
      BY <2>0, <2>6 DEF SameDate
    <3>2. "LUNCH_OUT" \in NextAllowed(today)
      BY <1>5, <2>0, <2>6 DEF Accepted
    <3>3. Latest(today).type = "CHECK_IN"
      BY <2>6, <3>1, <3>2, LunchOutFollows
    <3>4. Latest(today) \in today /\ f.time <= Latest(today).time
      BY <3>1, LatestIsLast
    <3>5. Latest(today) = in
      BY <2>6, <3>3, <3>4 DEF SameDate, DayInv, OneCheckInPerDay
    <3>6. f.time \in Nat /\ in.time \in Nat
      BY <3>1 DEF EventType
    <3> QED BY <3>4, <3>5, <3>6
  <2>7. OneLunchPerDay'
    <3> SUFFICES ASSUME ~ AllowMultipleLunchBreaks,
                        NEW in \in events', NEW e \in events', NEW f \in events',
                        in.type = "CHECK_IN", e.type = "LUNCH_OUT", f.type = "LUNCH_OUT",
                        DayOf(e.time) = DayOf(in.time), DayOf(f.time) = DayOf(in.time),
                        e.time > in.time, f.time > in.time
                 PROVE  e = f
      BY DEF OneLunchPerDay
    <3>1. CASE in = punch
      <4>1. e # punch /\ f # punch
        BY <3>1
      <4>2. e \in events
        BY <2>1, <4>1
      <4> QED BY <2>5, <3>1, <4>2
    <3>2. CASE in # punch
      <4>1. in \in events
        BY <2>1, <3>2
      <4>2. CASE e = punch /\ f # punch
        <5>1. f \in events
          BY <2>1, <4>2
        <5> QED BY <2>6, <4>1, <4>2, <5>1
      <4>3. CASE f = punch /\ e # punch
        <5>1. e \in events
          BY <2>1, <4>3
        <5> QED BY <2>6, <4>1, <4>3, <5>1
      <4>4. CASE e # punch /\ f # punch
        <5>1. e \in events /\ f \in events
          BY <2>1, <4>4
        <5> QED BY <4>1, <5>1 DEF LunchInv, OneLunchPerDay
      <4>5. CASE e = punch /\ f = punch
        BY <4>5
      <4> QED BY <4>2, <4>3, <4>4, <4>5
    <3> QED BY <3>1, <3>2
  <2> QED BY <2>3, <2>4, <2>7 DEF LunchInv
<1> QED BY <1>4, <1>5

LEMMA LunchNext ==
    ASSUME WindowIsDay
    PROVE  Inv /\ DayInv /\ LunchInv /\ [Next]_vars => LunchInv'
<1> SUFFICES ASSUME Inv, DayInv, LunchInv, [Next]_vars PROVE LunchInv'
  OBVIOUS
<1>0. TypeOK /\ clock \in Nat /\ call \in [Calls -> CallType]
  BY DEF Inv, TypeOK
<1>1. CASE Tick
  <2>1. clock' = clock + 1 /\ events' = events /\ call' = call
    BY <1>1 DEF Tick
  <2>2. \A c \in Calls : call'[c].pc # "idle" => call'[c].now < clock'
    BY <1>0, <2>1 DEF LunchInv, PastOnly, CallType
  <2> QED BY <1>0, <2>1, <2>2, LunchKept
<1>2. ASSUME NEW c \in Calls, Begin(c) PROVE LunchInv'
  <2>1. PICK asks : call' = [call EXCEPT ![c] = [Idle EXCEPT !.pc = "begun", !.asks = asks, !.now = clock]]
    BY <1>2 DEF Begin
  <2> DEFINE new == [Idle EXCEPT !.pc = "begun", !.asks = asks, !.now = clock]
  <2>2. new.now = clock
    BY DEF Idle
  <2>3. clock' = clock + 1 /\ events' = events
    BY <1>2 DEF Begin
  <2>4. call' = [call EXCEPT ![c] = new]
    BY <2>1
  <2> HIDE DEF new
  <2>5. \A k \in Calls : call'[k] = new \/ call'[k] = call[k]
    BY <1>0, <2>4
  <2>6. \A k \in Calls : call'[k].pc # "idle" => call'[k].now < clock'
    BY <1>0, <2>2, <2>3, <2>5 DEF LunchInv, PastOnly, CallType
  <2> QED BY <1>0, <2>3, <2>6, LunchKept
<1>3. ASSUME NEW c \in Calls, Lock(c) PROVE LunchInv'
  <2> DEFINE new == [call[c] EXCEPT !.pc = "locked", !.seen = events]
  <2>1. new.now = call[c].now /\ call[c].pc = "begun"
    BY <1>0, <1>3 DEF Lock, CallType
  <2>2. call' = [call EXCEPT ![c] = new] /\ clock' = clock /\ events' = events
    BY <1>0, <1>3 DEF Lock
  <2> HIDE DEF new
  <2>3. \A k \in Calls : k # c => call'[k] = call[k]
    BY <1>0, <2>2
  <2>4. call'[c] = new
    BY <1>0, <2>2
  <2>5. \A k \in Calls : call'[k].pc # "idle" => call'[k].now < clock'
    BY <2>1, <2>2, <2>3, <2>4 DEF LunchInv, PastOnly
  <2> QED BY <1>0, <2>2, <2>5, LunchKept
<1>4. ASSUME NEW c \in Calls, Ends(c), clock' = clock, events' \subseteq events PROVE LunchInv'
  <2>1. \A k \in Calls : call'[k] = Idle \/ call'[k] = call[k]
    BY <1>0, <1>4 DEF Ends
  <2>2. Idle.pc = "idle"
    BY DEF Idle
  <2>3. \A k \in Calls : call'[k].pc # "idle" => call'[k].now < clock'
    BY <1>4, <2>1, <2>2 DEF LunchInv, PastOnly
  <2> QED BY <1>0, <1>4, <2>3, LunchKept
<1>5. ASSUME NEW c \in Calls, RevertLastEvent(c) PROVE LunchInv'
  BY <1>4, <1>5 DEF RevertLastEvent
<1>6. ASSUME NEW c \in Calls, Rollback(c) PROVE LunchInv'
  BY <1>4, <1>6 DEF Rollback
<1>7. CASE UNCHANGED vars
  <2>1. events' = events /\ call' = call /\ clock' = clock
    BY <1>7 DEF vars
  <2> QED BY <1>0, <2>1, LunchKept DEF LunchInv, PastOnly
<1> QED BY <1>1, <1>2, <1>3, <1>5, <1>6, <1>7, RecordLunch DEF Next

LEMMA LunchInvHolds == ASSUME WindowIsDay PROVE Spec => []LunchInv
<1>1. Init => LunchInv
  BY DEF Init, LunchInv, PastOnly, LunchInWindow, OneLunchPerDay, Idle
<1>2. Inv /\ DayInv /\ LunchInv /\ [Next]_vars => LunchInv'
  BY LunchNext
<1>3. Spec => []DayInv
  BY DayInvHolds
<1> QED BY <1>1, <1>2, <1>3, InvHolds, PTL DEF Spec

\* Where the windows are the dates and a second lunch is not allowed, a date has
\* at most one departure after its check-in, also when the request was sent before
\* the check-in was written.
THEOREM OneLunchPerDayHolds == ASSUME WindowIsDay PROVE Spec => []OneLunchPerDay
<1>1. LunchInv => OneLunchPerDay
  BY DEF LunchInv
<1>2. Spec => []LunchInv
  BY LunchInvHolds
<1> QED BY <1>1, <1>2, PTL

-----------------------------------------------------------------------------
(* AttendanceDay implements AttendanceBook *)

\* What a punch allowed by its day follows.
LEMMA AllowedFollows ==
    ASSUME NEW rows, rows # {}, NEW type \in NextAllowed(rows)
    PROVE  /\ <<Latest(rows).type, type>> \in Book!Follows
           /\ type \in Punches
<1> DEFINE latest == Latest(rows).type
<1> HIDE DEF latest
<1>1. CASE latest = "CHECK_IN"
  <2>1. type \in {"LUNCH_OUT", "CHECK_OUT"}
    BY <1>1 DEF NextAllowed, latest
  <2> QED BY <1>1, <2>1 DEF latest, Book!Follows, Punches
<1>2. CASE latest = "LUNCH_OUT"
  <2>1. type = "LUNCH_IN"
    BY <1>2 DEF NextAllowed, latest
  <2> QED BY <1>2, <2>1 DEF latest, Book!Follows, Punches
<1>3. CASE latest = "LUNCH_IN"
  <2>1. type \in {"LUNCH_OUT", "CHECK_OUT"}
    BY <1>3 DEF NextAllowed, latest
  <2> QED BY <1>3, <2>1 DEF latest, Book!Follows, Punches
<1>4. CASE latest \notin {"CHECK_IN", "LUNCH_OUT", "LUNCH_IN"}
  BY <1>4 DEF NextAllowed, latest
<1> QED BY <1>1, <1>2, <1>3, <1>4

\* The book's days are the dates.
LEMMA BooksDay ==
    ASSUME NEW e \in EventType
    PROVE  Book!Day(e) = DayOf(e.time)
<1>1. e.time \in 0 .. MaxClock
  BY DEF EventType
<1> QED BY <1>1, Zenon DEF Book!Day, Date

\* The last row of a day is the book's last entry of it.
LEMMA LatestIsBooksLast ==
    ASSUME TypeOK, NEW t \in 0 .. MaxClock, SameDate(events, t) # {}
    PROVE  /\ Latest(SameDate(events, t)) \in events
           /\ DayOf(Latest(SameDate(events, t)).time) = DayOf(t)
           /\ Book!IsLast(Latest(SameDate(events, t)))
<1>1. SameDate(events, t) \in SUBSET EventType
  BY DEF SameDate, TypeOK
<1>2. PICK last : last = Latest(SameDate(events, t))
  OBVIOUS
<1>3. last \in SameDate(events, t) /\ \A f \in SameDate(events, t) : f.time <= last.time
  BY <1>1, <1>2, LatestIsLast
<1>4. last \in events /\ DayOf(last.time) = DayOf(t)
  BY <1>3 DEF SameDate
<1>5. \A f \in events : Book!Day(f) = DayOf(f.time)
  BY BooksDay DEF TypeOK
<1>6. Book!IsLast(last)
  BY <1>3, <1>4, <1>5 DEF SameDate, Book!IsLast
<1> QED BY <1>2, <1>4, <1>6

\* An accepted punch is an entry the book takes.
LEMMA RecordImplements ==
    ASSUME WindowIsDay, Inv, NEW c \in Calls, Record(c)
    PROVE  [Book!Next]_events
<1>0. PICK q : q = call[c]
  OBVIOUS
<1>1. PICK punch : punch = [type |-> q.asks, time |-> q.now]
  OBVIOUS
<1>2. /\ q \in CallType /\ punch \in EventType
      /\ events' = events \cup IF Accepted(q.asks, q.now, events) THEN {punch} ELSE {}
  BY <1>0, <1>1, Recorded
<1>3. /\ punch.type = q.asks /\ punch.time = q.now /\ punch \in Book!Entry
      /\ q.now \in 0 .. MaxClock /\ Book!Day(punch) = DayOf(q.now)
  BY <1>1, <1>2, BooksDay DEF CallType, EventType, Punches, Book!Entry
<1> DEFINE today == SameDate(events, q.now)
<1>6. /\ OnDay(events, q.now) = today
      /\ \A f \in events : Book!Day(f) = DayOf(f.time)
  BY <1>3, WindowHoldsTheDay, BooksDay DEF Inv, TypeOK
<1>4. CASE ~ Accepted(q.asks, q.now, events) \/ punch \in events
  BY <1>2, <1>4
<1>5. CASE Accepted(q.asks, q.now, events) /\ punch \notin events
  <2>1. events' = events \cup {punch} /\ punch \in events' \ events
    BY <1>2, <1>5
  <2>2. q.asks \in NextAllowed(today)
    BY <1>5, <1>6 DEF Accepted
  <2>3. CASE today = {}
    <3>1. q.asks = "CHECK_IN"
      BY <2>2, <2>3 DEF NextAllowed
    <3>2. \A f \in events : Book!Day(f) # Book!Day(punch)
      BY <1>3, <1>6, <2>3 DEF SameDate
    <3>3. Book!Open(punch)
      BY <1>3, <2>1, <3>1, <3>2 DEF Book!Open
    <3> QED BY <1>3, <2>1, <3>3 DEF Book!Next
  <2>4. CASE today # {}
    <3>1. PICK last : last = Latest(today)
      OBVIOUS
    <3>2. last \in events /\ DayOf(last.time) = DayOf(q.now) /\ Book!IsLast(last)
      BY <1>3, <2>4, <3>1, LatestIsBooksLast DEF Inv
    <3>3. <<last.type, punch.type>> \in Book!Follows
      BY <1>3, <2>2, <2>4, <3>1, AllowedFollows
    <3>4. punch.type = "LUNCH_IN" /\ LunchBreak > 0 => last.time + LunchBreak <= punch.time
      <4>1. punch.type = "LUNCH_IN" => ~ Cooling(last.time, q.now, LunchBreak)
        BY <1>3, <1>5, <1>6, <3>1 DEF Accepted
      <4>2. last.time \in Nat /\ q.now \in Nat
        BY <1>3, <3>2 DEF Inv, TypeOK, EventType
      <4> QED BY <1>3, <4>1, <4>2 DEF Cooling
    <3>5. Book!Enter(last, punch)
      BY <1>3, <1>6, <2>1, <3>2, <3>3, <3>4 DEF Book!Enter
    <3> QED BY <1>3, <2>1, <3>2, <3>5 DEF Book!Next
  <2> QED BY <2>3, <2>4
<1> QED BY <1>4, <1>5

\* A revert takes the day's last entry back.
LEMMA RevertImplements ==
    ASSUME WindowIsDay, Inv, NEW c \in Calls, RevertLastEvent(c)
    PROVE  [Book!Next]_events
<1>1. PICK q : q = call[c]
  OBVIOUS
<1> DEFINE today == SameDate(events, q.now)
<1>2. /\ q.now \in 0 .. MaxClock
      /\ events' = events \ (IF today = {} THEN {} ELSE {Latest(today)})
  <2>1. q.now \in 0 .. MaxClock /\ events \in SUBSET EventType
    BY <1>1, Reverted DEF CallType
  <2>2. OnDay(events, q.now) = today
    BY <2>1, WindowHoldsTheDay
  <2> QED BY <1>1, <2>1, <2>2, Reverted
<1>3. CASE today = {}
  BY <1>2, <1>3
<1>4. CASE today # {}
  <2>1. PICK last : last = Latest(today)
    OBVIOUS
  <2>2. last \in events /\ Book!IsLast(last)
    BY <1>2, <1>4, <2>1, LatestIsBooksLast DEF Inv
  <2>3. events' = events \ {last}
    BY <1>2, <1>4, <2>1
  <2>4. last \in events \ events' /\ Book!TakeBack(last)
    BY <2>2, <2>3 DEF Book!TakeBack
  <2> QED BY <2>4 DEF Book!Next
<1> QED BY <1>3, <1>4

\* Where the windows are the dates: whatever requests arrive late, wait for the
\* row lock or are lost, the events change as if every punch was judged by the
\* entries of its date, and every revert took back the last of them.
THEOREM ImplementsBookHolds == ASSUME WindowIsDay PROVE Spec => ImplementsBook
<1>1. Init => Book!Init
  BY DEF Init, Book!Init
<1>2. Inv /\ [Next]_vars => [Book!Next]_events
  <2> SUFFICES ASSUME Inv, [Next]_vars PROVE [Book!Next]_events
    OBVIOUS
  <2>1. CASE Tick \/ UNCHANGED vars
    BY <2>1 DEF Tick, vars
  <2>2. ASSUME NEW c \in Calls, Begin(c) \/ Lock(c) \/ Rollback(c) PROVE [Book!Next]_events
    BY <2>2 DEF Begin, Lock, Rollback
  <2> QED BY <2>1, <2>2, RecordImplements, RevertImplements DEF Next
<1> QED BY <1>1, <1>2, InvHolds, PTL DEF Spec, ImplementsBook, Book!Spec

-----------------------------------------------------------------------------
(* What AttendanceBook promises *)

BookInv == events \subseteq EventType /\ OneCheckInPerDay /\ LunchBreakServed

\* An entry that keeps the rules keeps them for the book.
LEMMA EntryKeeps ==
    ASSUME BookInv, NEW e \in EventType, events' = events \cup {e},
           e.type = "CHECK_IN" => \A f \in events : DayOf(f.time) # DayOf(e.time),
           e.type = "LUNCH_IN" /\ LunchBreak > 0 =>
              \E f \in SameDate(events, e.time) : f.type = "LUNCH_OUT" /\ f.time + LunchBreak <= e.time
    PROVE  BookInv'
<1>1. events' \subseteq EventType
  BY DEF BookInv
<1>2. OneCheckInPerDay'
  BY DEF BookInv, OneCheckInPerDay
<1>3. LunchBreakServed'
  <2>1. \A x : SameDate(events, x) \subseteq SameDate(events', x)
    BY DEF SameDate
  <2> QED BY <2>1 DEF BookInv, LunchBreakServed
<1> QED BY <1>1, <1>2, <1>3 DEF BookInv

LEMMA BookNext == BookInv /\ [Book!Next]_events => BookInv'
<1> SUFFICES ASSUME BookInv, [Book!Next]_events PROVE BookInv'
  OBVIOUS
<1>0. \A e : e \in Book!Entry <=> e \in EventType
  BY DEF Book!Entry, EventType, Punches
<1>1. CASE UNCHANGED events
  BY <1>1 DEF BookInv, OneCheckInPerDay, LunchBreakServed, SameDate
<1>5. \A e \in EventType : Book!Day(e) = DayOf(e.time)
  BY BooksDay
<1>6. events \subseteq EventType
  BY DEF BookInv
<1>2. ASSUME NEW e \in EventType, Book!Open(e) PROVE BookInv'
  BY <1>2, <1>5, <1>6, EntryKeeps DEF Book!Open
<1>3. ASSUME NEW e \in EventType, NEW last \in events, Book!Enter(last, e) PROVE BookInv'
  <2>1. events' = events \cup {e} /\ DayOf(last.time) = DayOf(e.time)
    BY <1>3, <1>5, <1>6 DEF Book!Enter
  <2>2. e.type # "CHECK_IN" /\ (e.type = "LUNCH_IN" => last.type = "LUNCH_OUT")
    BY <1>3 DEF Book!Enter, Book!Follows
  <2>3. e.type = "LUNCH_IN" /\ LunchBreak > 0 => last.time + LunchBreak <= e.time
    BY <1>3 DEF Book!Enter
  <2> QED BY <2>1, <2>2, <2>3, EntryKeeps DEF SameDate
<1>4. ASSUME NEW last \in events, Book!TakeBack(last) PROVE BookInv'
  <2>1. /\ events' = events \ {last} /\ events' \subseteq EventType
        /\ \A f \in events : DayOf(f.time) = DayOf(last.time) => f.time <= last.time
    BY <1>4, <1>5, <1>6 DEF Book!TakeBack, Book!IsLast
  <2>2. OneCheckInPerDay'
    BY <2>1 DEF BookInv, OneCheckInPerDay
  <2>3. LunchBreakServed'
    <3> SUFFICES ASSUME NEW e \in events', e.type = "LUNCH_IN", LunchBreak > 0
                 PROVE  \E f \in SameDate(events', e.time) :
                          f.type = "LUNCH_OUT" /\ f.time + LunchBreak <= e.time
      BY DEF LunchBreakServed, SameDate
    <3>1. PICK f \in SameDate(events, e.time) : f.type = "LUNCH_OUT" /\ f.time + LunchBreak <= e.time
      BY <2>1 DEF BookInv, LunchBreakServed
    <3>2. f \in events /\ DayOf(f.time) = DayOf(e.time) /\ f.time \in Nat /\ e.time \in Nat
      BY <2>1, <3>1 DEF BookInv, SameDate, EventType
    <3>3. f.time < e.time
      BY <3>1, <3>2
    <3>4. f # last
      BY <2>1, <3>2, <3>3
    <3> QED BY <2>1, <3>1, <3>2, <3>4 DEF SameDate
  <2> QED BY <2>1, <2>2, <2>3 DEF BookInv
<1> QED BY <1>0, <1>1, <1>2, <1>3, <1>4 DEF Book!Next

\* The promise is enough: whoever writes the events by the rules of the book,
\* with or without row locks and in any zone, gives no date two check-ins and serves
\* every break.
THEOREM BookSuffices == ImplementsBook => [](OneCheckInPerDay /\ LunchBreakServed)
<1>1. Book!Init => BookInv
  BY DEF Book!Init, BookInv, OneCheckInPerDay, LunchBreakServed
<1>2. BookInv => OneCheckInPerDay /\ LunchBreakServed
  BY DEF BookInv
<1> QED BY <1>1, <1>2, BookNext, PTL DEF ImplementsBook, Book!Spec
=============================================================================
