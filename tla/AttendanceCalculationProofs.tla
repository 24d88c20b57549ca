--------------------- MODULE AttendanceCalculationProofs ---------------------
(***************************************************************************)
(* Theorems of AttendanceCalculation, for every schedule and every setting.*)
(***************************************************************************)
EXTENDS AttendanceCalculation, AttendanceDayProofs, FiniteSetTheorems

USE AttendanceAssumption

-----------------------------------------------------------------------------
(* Units and windows *)

LEMMA LocalUnitType ==
    ASSUME NEW t \in Instants
    PROVE  LocalUnit(t) \in 0 .. DayLength
<1>1. t \in Int /\ Zone[t] \in Int
  BY DEF Instants
<1>2. PICK w \in Int : w = Wall(t)
  BY <1>1 DEF Wall
<1>3. w % DayLength \in 0 .. DayLength - 1
  BY <1>2, DayBounds
<1> QED BY <1>2, <1>3 DEF LocalUnit

LEMMA UnitOfRow ==
    ASSUME NEW e \in EventType
    PROVE  /\ e.time \in 0 .. MaxClock /\ e.time \in Nat /\ e.time <= MaxClock
           /\ LocalUnit(e.time) \in Nat /\ LocalUnit(e.time) <= DayLength
<1>1. e.time \in 0 .. MaxClock
  BY DEF EventType
<1>2. e.time \in Instants
  BY <1>1, ClockTypes
<1>3. LocalUnit(e.time) \in 0 .. DayLength
  BY <1>2, LocalUnitType
<1> QED BY <1>1, <1>3

\* Whatever the zone, a window begins and ends among the instants it knows.
LEMMA StartType ==
    ASSUME NEW t \in 0 .. MaxClock
    PROVE  /\ DateStart(DayOf(t)) \in Instants
           /\ DateStart(DayOf(t)) + DayLength \in Instants
<1> DEFINE d == DayOf(t)
           m == d * DayLength
<1>1. /\ d \in Int /\ m \in Int
      /\ t - 2 * DayLength < m /\ m < t + DayLength
  <2>1. t \in Instants /\ Wall(t) \in Int /\ d \in Int
    BY ClockTypes
  <2>2. Zone[t] \in 1 - DayLength .. DayLength - 1 /\ Wall(t) = t + Zone[t]
    BY <2>1 DEF Wall
  <2>3. m <= Wall(t) /\ Wall(t) < m + DayLength
    BY <2>1, DayBounds DEF DayOf
  <2>4. m \in Int
    BY <2>1
  <2> HIDE DEF m
  <2> QED BY <2>1, <2>2, <2>3, <2>4
<1> HIDE DEF d, m
<1>2. m \in Instants
  BY <1>1 DEF Instants
<1>3. PICK w \in Int : w = Wall(m)
  BY <1>1, <1>2 DEF Wall
<1>4. PICK k \in Int, r \in 0 .. DayLength - 1 :
        k = (w \div DayLength) * DayLength /\ r = w % DayLength /\ w = k + r
  <2>1. /\ w \div DayLength \in Int /\ w % DayLength \in 0 .. DayLength - 1
        /\ w = (w \div DayLength) * DayLength + (w % DayLength)
    BY DayBounds
  <2>2. (w \div DayLength) * DayLength \in Int
    BY <2>1
  <2> QED BY <2>1, <2>2
<1>5. Zone[m] \in 1 - DayLength .. DayLength - 1 /\ w = m + Zone[m]
  BY <1>2, <1>3 DEF Wall
<1>6. LocalUnit(m) = r \/ LocalUnit(m) = r + DayLength
  <2>1. Wall(m) % DayLength = r
    BY <1>3, <1>4
  <2>2. LocalUnit(m) = IF r = 0 THEN MidnightUnit ELSE r
    BY <2>1 DEF LocalUnit
  <2> HIDE DEF LocalUnit
  <2>3. r \in Int /\ (MidnightUnit = 0 \/ MidnightUnit = DayLength)
    BY <1>4
  <2> QED BY <2>2, <2>3
<1> DEFINE o == OffsetAt(m)
<1>7. o = Zone[m] \/ o = Zone[m] + DayLength
  <2>1. OffsetAt(m) = k + LocalUnit(m) - m
    BY <1>3, <1>4 DEF OffsetAt, DayOf
  <2>2. w = k + r /\ w = m + Zone[m] /\ r \in Int /\ Zone[m] \in Int
    BY <1>4, <1>5
  <2>3. CASE LocalUnit(m) = r
    BY <1>1, <2>1, <2>2, <2>3
  <2>4. CASE LocalUnit(m) = r + DayLength
    BY <1>1, <2>1, <2>2, <2>4
  <2> QED BY <1>6, <2>3, <2>4
<1>8. DateStart(DayOf(t)) = m - o
  BY DEF DateStart, d, m
<1> HIDE DEF o
<1>9. /\ o \in Int /\ 0 - DayLength < o /\ o < 2 * DayLength
  BY <1>5, <1>7
<1>10. /\ m - o \in Instants /\ (m - o) + DayLength \in Instants
  BY <1>1, <1>9 DEF Instants
<1> QED BY <1>8, <1>10

\* In a plain zone the window of a date is as long as the date and lies on it.
LEMMA PlainWindow ==
    ASSUME PlainZone, NEW t \in 0 .. MaxClock
    PROVE  /\ DayOf(DateStart(DayOf(t))) = DayOf(t)
           /\ MidnightUnit = DayLength => LocalUnit(DateStart(DayOf(t)) + DayLength) = DayLength
           /\ \A s \in 0 .. MaxClock :
                 DayOf(s) > DayOf(t) <=> DateStart(DayOf(t)) + DayLength <= s
<1> DEFINE d == DayOf(t)
           z == Zone[t]
           m == d * DayLength
           start == DateStart(DayOf(t))
<1>1. start = m - z /\ start \in Instants /\ start + DayLength \in Instants
  BY PlainStart, StartType
<1>2. d \in Int /\ z \in Int /\ m \in Int
  <2>1. d \in Int /\ z \in Int
    BY ClockTypes
  <2> QED BY <2>1
<1>3. Zone[start] = z /\ Zone[start + DayLength] = z /\ \A s \in 0 .. MaxClock : Zone[s] = z
  <2>1. \A s \in 0 .. MaxClock : s \in Instants
    BY ClockTypes
  <2> QED BY <1>1, <2>1 DEF PlainZone
<1> HIDE DEF start, d, z
<1>4. (d + 1) * DayLength = m + DayLength
  BY <1>2
<1>5. Wall(start) = d * DayLength /\ Wall(start + DayLength) = (d + 1) * DayLength
  BY <1>1, <1>2, <1>3, <1>4 DEF Wall
<1>6. DayOf(start) = d
  <2>1. m <= m /\ m < m + DayLength
    BY <1>2
  <2>2. PICK w \in Int : w = m
    BY <1>2
  <2>3. w \div DayLength = d
    BY <1>2, <2>1, <2>2, DayBounds
  <2> QED BY <1>5, <2>2, <2>3 DEF DayOf
<1>7. MidnightUnit = DayLength => LocalUnit(start + DayLength) = DayLength
  <2>1. PICK w \in Int : w = m + DayLength
    BY <1>2
  <2>2. w \div DayLength = d + 1
    <3>1. d + 1 \in Int /\ (d + 1) * DayLength <= w /\ w < (d + 1) * DayLength + DayLength
      BY <1>2, <1>4, <2>1
    <3> QED BY <2>1, <3>1, DayBounds
  <2>3. w = (d + 1) * DayLength + (w % DayLength) /\ w % DayLength \in Int
    <3>1. w = (w \div DayLength) * DayLength + (w % DayLength)
          /\ w % DayLength \in 0 .. DayLength - 1
      BY DayBounds
    <3> QED BY <2>2, <3>1
  <2>4. w % DayLength = 0
    BY <1>2, <1>4, <2>1, <2>3
  <2> QED BY <1>4, <1>5, <2>1, <2>4 DEF LocalUnit
<1>8. ASSUME NEW s \in 0 .. MaxClock PROVE DayOf(s) > d <=> start + DayLength <= s
  <2>1. PICK w \in Int : w = Wall(s) /\ w = s + z
    BY <1>2, <1>3 DEF Wall
  <2> DEFINE q == w \div DayLength
  <2>2. DayOf(s) = q
    BY <2>1 DEF DayOf
  <2>3. q \in Int /\ q * DayLength <= w /\ w < q * DayLength + DayLength
    BY DayBounds
  <2> HIDE DEF q
  <2>4. CASE q > d
    <3>1. (d + 1) * DayLength <= q * DayLength
      BY <1>2, <2>3, <2>4, Times
    <3>2. m + DayLength <= w
      BY <1>2, <1>4, <2>3, <3>1
    <3> QED BY <1>1, <1>2, <2>1, <2>2, <2>4, <3>2
  <2>5. CASE q <= d
    <3>1. q * DayLength <= d * DayLength
      BY <1>2, <2>3, <2>5, Times
    <3>2. w < m + DayLength
      BY <1>2, <2>3, <3>1
    <3> QED BY <1>1, <1>2, <2>1, <2>2, <2>3, <2>5, <3>2
  <2> QED BY <1>2, <2>3, <2>4, <2>5
<1> QED BY <1>6, <1>7, <1>8 DEF start, d

\* In a plain zone later instants belong to later days.
LEMMA DaysFollow ==
    ASSUME PlainZone, NEW m \in 0 .. MaxClock, NEW n \in 0 .. MaxClock, m <= n
    PROVE  DayOf(m) \in Int /\ DayOf(n) \in Int /\ DayOf(m) <= DayOf(n)
<1>1. DayOf(m) \in Int /\ DayOf(n) \in Int
  BY ClockTypes
<1>2. DateStart(DayOf(n)) + DayLength \in Int
  BY StartType DEF Instants
<1>3. /\ DayOf(m) > DayOf(n) <=> DateStart(DayOf(n)) + DayLength <= m
      /\ DayOf(n) > DayOf(n) <=> DateStart(DayOf(n)) + DayLength <= n
  BY PlainWindow
<1> QED BY <1>1, <1>2, <1>3

-----------------------------------------------------------------------------
(* The order of the rows *)

\* A non-empty set of numbers has a least one.
LEMMA LeastOf ==
    ASSUME NEW S \in SUBSET Nat, S # {}
    PROVE  \E m \in S : \A n \in S : m <= n
<1>1. PICK m \in S : \A n \in S : ~ (<<n, m>> \in OpToRel(<, Nat))
  BY WFMin, NatLessThanWellFounded
<1>2. \A n \in Nat : n < m => <<n, m>> \in OpToRel(<, Nat)
  BY DEF OpToRel
<1>3. \A n \in S : ~ (n < m)
  BY <1>1, <1>2
<1> QED BY <1>3

\* A bounded one has a greatest one.
LEMMA GreatestOf ==
    ASSUME NEW S \in SUBSET Nat, S # {}, NEW bound \in Nat, \A n \in S : n <= bound
    PROVE  \E m \in S : \A n \in S : n <= m
<1> DEFINE left == {bound - n : n \in S}
<1>1. left \in SUBSET Nat /\ left # {}
  <2>1. \A n \in S : bound - n \in Nat
    OBVIOUS
  <2> QED BY <2>1
<1>2. PICK least \in left : \A n \in left : least <= n
  <2> HIDE DEF left
  <2> QED BY <1>1, LeastOf
<1>3. PICK m \in S : least = bound - m
  OBVIOUS
<1>4. ASSUME NEW n \in S PROVE n <= m
  <2>1. bound - m <= bound - n
    BY <1>2, <1>3
  <2> QED BY <2>1
<1> QED BY <1>4

\* Rows are finite in number.
LEMMA RowsAreFinite ==
    ASSUME NEW rows \in SUBSET EventType
    PROVE  IsFiniteSet(rows)
<1> DEFINE pairs == Punches \X (0 .. MaxClock)
           row == [p \in pairs |-> [type |-> p[1], time |-> p[2]]]
<1>1. IsFiniteSet(Punches)
  <2>1. IsFiniteSet({"CHECK_IN"})
    BY FS_Singleton
  <2>2. IsFiniteSet({"CHECK_IN"} \cup {"LUNCH_OUT"})
    BY <2>1, FS_AddElement
  <2>3. IsFiniteSet({"CHECK_IN"} \cup {"LUNCH_OUT"} \cup {"LUNCH_IN"})
    BY <2>2, FS_AddElement
  <2>4. IsFiniteSet({"CHECK_IN"} \cup {"LUNCH_OUT"} \cup {"LUNCH_IN"} \cup {"CHECK_OUT"})
    BY <2>3, FS_AddElement
  <2>5. Punches = {"CHECK_IN"} \cup {"LUNCH_OUT"} \cup {"LUNCH_IN"} \cup {"CHECK_OUT"}
    BY DEF Punches
  <2> QED BY <2>4, <2>5
<1>2. IsFiniteSet(pairs)
  <2>1. IsFiniteSet(0 .. MaxClock)
    BY FS_Interval
  <2> QED BY <1>1, <2>1, FS_Product
<1>3. row \in [pairs -> EventType]
  BY DEF EventType
<1>4. ASSUME NEW e \in EventType PROVE \E p \in pairs : row[p] = e
  <2>1. <<e.type, e.time>> \in pairs
    BY DEF EventType
  <2>2. row[<<e.type, e.time>>] = [type |-> e.type, time |-> e.time]
    BY <2>1
  <2> QED BY <2>1, <2>2 DEF EventType
<1>5. row \in Surjection(pairs, EventType)
  <2> HIDE DEF row, pairs
  <2> QED BY <1>3, <1>4 DEF Surjection
<1>6. IsFiniteSet(EventType)
  <2> HIDE DEF row, pairs
  <2> QED BY <1>2, <1>5, FS_Surjection
<1> QED BY <1>6, FS_Subset

\* Among rows there is one that the others are not after.
LEMMA LastOfIsLast ==
    ASSUME NEW rows \in SUBSET EventType, rows # {}
    PROVE  /\ LastOf(rows) \in rows
           /\ \A e \in rows : LocalUnit(e.time) <= LocalUnit(LastOf(rows).time)
<1>1. \A e \in rows : e.time \in Nat /\ LocalUnit(e.time) \in Nat
                      /\ LocalUnit(e.time) <= DayLength /\ e.time <= MaxClock
  BY UnitOfRow
<1>2. PICK e \in rows : \A f \in rows : LocalUnit(f.time) <= LocalUnit(e.time)
  <2> DEFINE units == {LocalUnit(f.time) : f \in rows}
  <2>1. units \in SUBSET Nat /\ units # {} /\ \A u \in units : u <= DayLength
    BY <1>1
  <2>2. PICK u \in units : \A v \in units : v <= u
    <3> HIDE DEF units
    <3> QED BY <2>1, GreatestOf
  <2> QED BY <2>2
<1> DEFINE late == {f \in rows : LocalUnit(f.time) = LocalUnit(e.time)}
           times == {f.time : f \in late}
<1>3. PICK last \in late : \A f \in late : f.time <= last.time
  <2>1. times \in SUBSET Nat /\ times # {} /\ \A t \in times : t <= MaxClock
    BY <1>1
  <2>2. PICK t \in times : \A s \in times : s <= t
    <3> HIDE DEF times
    <3> QED BY <2>1, GreatestOf
  <2> QED BY <2>2
<1>4. last \in rows /\ \A f \in rows : ~ Before(last, f)
  BY <1>1, <1>2, <1>3 DEF Before
<1>5. LastOf(rows) \in rows /\ \A f \in rows : ~ Before(LastOf(rows), f)
  BY <1>4 DEF LastOf
<1> QED BY <1>1, <1>5 DEF Before

\* Induction over the rows in the order in which the loop meets them, for a set
\* of sets of rows.
LEMMA RowByRow ==
    ASSUME NEW rows \in SUBSET EventType, NEW good, {} \in good,
           \A S \in SUBSET rows : S # {} /\ S \ {LastOf(S)} \in good => S \in good
    PROVE  rows \in good
<1> SUFFICES ASSUME rows \notin good PROVE FALSE
  OBVIOUS
<1> DEFINE bad == {S \in SUBSET rows : S \notin good}
           sizes == {Cardinality(S) : S \in bad}
<1>1. \A S \in SUBSET rows : IsFiniteSet(S) /\ Cardinality(S) \in Nat
  BY RowsAreFinite, FS_CardinalityType
<1>2. sizes \in SUBSET Nat /\ sizes # {}
  BY <1>1
<1>3. PICK n \in sizes : \A m \in sizes : n <= m
  <2> HIDE DEF sizes
  <2> QED BY <1>2, LeastOf
<1>4. PICK S \in bad : Cardinality(S) = n
  OBVIOUS
<1> DEFINE rest == S \ {LastOf(S)}
<1>5. S # {} /\ S \in SUBSET EventType
  OBVIOUS
<1>6. LastOf(S) \in S
  BY <1>5, LastOfIsLast
<1>7. Cardinality(rest) = Cardinality(S) - 1
  BY <1>1, <1>6, FS_RemoveElement
<1>8. rest \in bad
  BY <1>5
<1>9. n <= Cardinality(rest)
  BY <1>3, <1>8
<1>10. S \in SUBSET rows /\ rest \in SUBSET rows
  OBVIOUS
<1>11. Cardinality(S) \in Nat /\ Cardinality(rest) \in Nat
  BY <1>1, <1>10
<1> HIDE DEF rest, bad, sizes
<1> QED BY <1>4, <1>7, <1>9, <1>11

\* What a step of the loop makes of f, the values for smaller sets of rows.
Counting(f, S, start) ==
    IF S = {} THEN Morning(start) ELSE CountEvent(LastOf(S), f[S \ {LastOf(S)}])

\* The last row lies among the rows, and taking it away makes them fewer.
LEMMA OneRowLess ==
    ASSUME NEW S \in SUBSET EventType, S # {}
    PROVE  /\ LastOf(S) \in S
           /\ Cardinality(S) \in Nat
           /\ Cardinality(S \ {LastOf(S)}) = Cardinality(S) - 1
BY LastOfIsLast, RowsAreFinite, FS_CardinalityType, FS_RemoveElement

\* The recursion of the loop has a solution on sets of any size.
LEMMA CountingUpTo ==
    ASSUME NEW rows \in SUBSET EventType, NEW start, NEW n \in Nat
    PROVE  \E f : \A S \in SUBSET rows : Cardinality(S) < n => f[S] = Counting(f, S, start)
<1> DEFINE Upto(k) == \E f : \A S \in SUBSET rows :
                        Cardinality(S) < k => f[S] = Counting(f, S, start)
           bad == {k \in Nat : ~ Upto(k)}
<1> SUFFICES ASSUME bad # {} PROVE FALSE
  OBVIOUS
<1>1. PICK m \in bad : \A k \in bad : m <= k
  BY LeastOf
<1>2. \A S \in SUBSET rows : Cardinality(S) \in Nat
  BY RowsAreFinite, FS_CardinalityType
<1>3. m # 0
  <2>1. \A f : \A S \in SUBSET rows : Cardinality(S) < 0 => f[S] = Counting(f, S, start)
    BY <1>2
  <2>2. Upto(0)
    BY <2>1
  <2> QED BY <2>2
<1>4. m - 1 \in Nat /\ m - 1 \notin bad
  BY <1>1, <1>3
<1>5. PICK f : \A S \in SUBSET rows : Cardinality(S) < m - 1 => f[S] = Counting(f, S, start)
  BY <1>4
<1> DEFINE g == [S \in SUBSET rows |-> Counting(f, S, start)]
<1>6. ASSUME NEW S \in SUBSET rows, Cardinality(S) < m PROVE g[S] = Counting(g, S, start)
  <2>1. CASE S = {}
    BY <2>1 DEF Counting
  <2>2. CASE S # {}
    <3> DEFINE rest == S \ {LastOf(S)}
    <3>1. rest \in SUBSET rows /\ S \in SUBSET EventType
      OBVIOUS
    <3>2. Cardinality(rest) < m - 1
      BY <1>2, <1>6, <2>2, <3>1, OneRowLess
    <3>3. f[rest] = g[rest]
      BY <1>5, <3>1, <3>2
    <3>4. Counting(g, S, start) = Counting(f, S, start)
      BY <2>2, <3>3, Zenon DEF Counting
    <3> QED BY <3>4
  <2> QED BY <2>1, <2>2
<1>7. Upto(m)
  <2> HIDE DEF g
  <2> QED BY <1>6
<1> QED BY <1>7

LEMMA DayAfterCounts ==
    ASSUME NEW rows \in SUBSET EventType, NEW start
    PROVE  \E day : /\ \A S \in SUBSET rows : day[S] = Counting(day, S, start)
                    /\ DayAfter(rows, start) = day[rows]
<1> DEFINE Solves(f) == f = [S \in SUBSET rows |-> Counting(f, S, start)]
           day == CHOOSE f : Solves(f)
<1>1. DayAfter(rows, start) = day[rows]
  BY Zenon DEF DayAfter, MapThenFoldSet, Counting
<1>2. \E f : Solves(f)
  <2>1. \A S \in SUBSET rows : Cardinality(S) \in Nat /\ Cardinality(S) < Cardinality(rows) + 1
    <3>1. IsFiniteSet(rows)
      BY RowsAreFinite
    <3> QED BY <3>1, FS_Subset, FS_CardinalityType
  <2>2. PICK f : \A S \in SUBSET rows : f[S] = Counting(f, S, start)
    <3>1. Cardinality(rows) + 1 \in Nat
      BY <2>1
    <3>2. PICK f : \A S \in SUBSET rows :
                      Cardinality(S) < Cardinality(rows) + 1 => f[S] = Counting(f, S, start)
      BY <3>1, CountingUpTo
    <3> QED BY <2>1, <3>2
  <2> DEFINE h == [S \in SUBSET rows |-> f[S]]
  <2>3. \A S \in SUBSET rows : Counting(h, S, start) = Counting(f, S, start)
    <3> SUFFICES ASSUME NEW S \in SUBSET rows
                 PROVE  Counting(h, S, start) = Counting(f, S, start)
      OBVIOUS
    <3>1. h[S \ {LastOf(S)}] = f[S \ {LastOf(S)}]
      OBVIOUS
    <3> QED BY <3>1, Zenon DEF Counting
  <2>4. h = [S \in SUBSET rows |-> Counting(h, S, start)]
    BY <2>2, <2>3
  <2> HIDE DEF h
  <2> QED BY <2>4
<1>3. Solves(day)
  <2> HIDE DEF Solves
  <2> QED BY <1>2
<1>4. \A S \in SUBSET rows : day[S] = Counting(day, S, start)
  <2> HIDE DEF day
  <2> QED BY <1>3
<1> HIDE DEF day
<1> QED BY <1>1, <1>4

\* Nothing met, nothing counted.
LEMMA DayAfterNothing ==
    ASSUME NEW start
    PROVE  DayAfter({}, start) = Morning(start)
<1>1. {} \in SUBSET EventType
  OBVIOUS
<1>2. PICK day : /\ \A S \in SUBSET {} : day[S] = Counting(day, S, start)
                 /\ DayAfter({}, start) = day[{}]
  BY <1>1, DayAfterCounts
<1> QED BY <1>2, Zenon DEF Counting

\* The row met last is counted upon what the others left.
LEMMA DayAfterRow ==
    ASSUME NEW rows \in SUBSET EventType, NEW start, rows # {}
    PROVE  DayAfter(rows, start)
             = CountEvent(LastOf(rows), DayAfter(rows \ {LastOf(rows)}, start))
<1> DEFINE rest == rows \ {LastOf(rows)}
<1>1. rest \in SUBSET EventType
  OBVIOUS
<1>2. PICK day : /\ \A S \in SUBSET rows : day[S] = Counting(day, S, start)
                 /\ DayAfter(rows, start) = day[rows]
  BY DayAfterCounts
<1>3. PICK part : /\ \A S \in SUBSET rest : part[S] = Counting(part, S, start)
                  /\ DayAfter(rest, start) = part[rest]
  BY <1>1, DayAfterCounts
<1> DEFINE good == {S \in SUBSET rest : part[S] = day[S]}
<1>4. {} \in good
  <2>1. part[{}] = Counting(part, {}, start) /\ day[{}] = Counting(day, {}, start)
    BY <1>2, <1>3
  <2> QED BY <2>1 DEF Counting
<1>5. ASSUME NEW S \in SUBSET rest, S # {}, S \ {LastOf(S)} \in good PROVE S \in good
  <2>1. part[S] = Counting(part, S, start) /\ day[S] = Counting(day, S, start)
    BY <1>2, <1>3
  <2>2. part[S \ {LastOf(S)}] = day[S \ {LastOf(S)}]
    BY <1>5
  <2> QED BY <2>1, <2>2 DEF Counting
<1>6. rest \in good
  <2> HIDE DEF good, rest
  <2> QED BY <1>1, <1>4, <1>5, RowByRow
<1>7. day[rows] = Counting(day, rows, start)
  BY <1>2
<1>8. part[rest] = day[rest]
  BY <1>6
<1> QED BY <1>2, <1>3, <1>7, <1>8 DEF Counting

-----------------------------------------------------------------------------
(* Worked and break time *)

DayType == [cursor : Nat, working : BOOLEAN, worked : Nat, break : Nat, lunch : BOOLEAN]

\* The hours counted so far reach from start to the cursor, which stands at
\* start or at a row that was met.
Fills(day, rows, start) ==
    /\ day \in DayType
    /\ start <= day.cursor
    /\ day.worked + day.break = day.cursor - start
    /\ day.cursor = start \/ day.cursor \in {LocalUnit(e.time) : e \in rows}

LEMMA CountEventFills ==
    ASSUME NEW rows \in SUBSET EventType, NEW start \in Nat, NEW e \in rows, NEW day,
           \A f \in rows : LocalUnit(f.time) <= LocalUnit(e.time),
           start <= LocalUnit(e.time),
           Fills(day, rows \ {e}, start)
    PROVE  Fills(CountEvent(e, day), rows, start)
<1> DEFINE unit == LocalUnit(e.time)
           span == unit - day.cursor
           leave == [day EXCEPT !.worked = @ + span, !.cursor = unit, !.working = FALSE]
           return == [day EXCEPT !.break = @ + span, !.cursor = unit, !.working = TRUE,
                                 !.lunch = TRUE]
<1>1. /\ day \in DayType /\ day.cursor \in Nat /\ day.worked \in Nat /\ day.break \in Nat
      /\ start <= day.cursor /\ day.worked + day.break = day.cursor - start
  BY DEF Fills, DayType
<1>2. unit \in Nat /\ \A f \in rows : LocalUnit(f.time) \in Nat
  BY UnitOfRow
<1>3. day.cursor <= unit /\ span \in Nat
  <2>1. day.cursor <= unit
    BY <1>1, <1>2 DEF Fills
  <2> QED BY <1>1, <1>2, <2>1
<1>4. Elapsed(day.cursor, unit) = span
  BY <1>1, <1>2, <1>3 DEF Elapsed
<1>5. \/ CountEvent(e, day) = leave
      \/ CountEvent(e, day) = return
      \/ CountEvent(e, day) = day
  BY <1>4, Zenon DEF CountEvent
<1>6. leave \in DayType /\ return \in DayType
  <2> HIDE DEF unit, span
  <2>1. day.worked + span \in Nat /\ day.break + span \in Nat
    BY <1>1, <1>3
  <2> QED BY <1>1, <1>2, <2>1 DEF DayType
<1>7. /\ leave.cursor = unit /\ leave.worked = day.worked + span /\ leave.break = day.break
      /\ return.cursor = unit /\ return.worked = day.worked /\ return.break = day.break + span
  BY <1>1 DEF DayType
<1>8. unit \in {LocalUnit(f.time) : f \in rows}
  OBVIOUS
<1>9. Fills(leave, rows, start)
  <2> HIDE DEF leave, return, unit
  <2> QED BY <1>1, <1>2, <1>3, <1>6, <1>7, <1>8 DEF Fills
<1>10. Fills(return, rows, start)
  <2> HIDE DEF leave, return, unit
  <2> QED BY <1>1, <1>2, <1>3, <1>6, <1>7, <1>8 DEF Fills
<1>11. Fills(day, rows, start)
  BY DEF Fills
<1> QED BY <1>5, <1>9, <1>10, <1>11

LEMMA DayFills ==
    ASSUME NEW rows \in SUBSET EventType, NEW start \in Nat,
           \A e \in rows : start <= LocalUnit(e.time)
    PROVE  Fills(DayAfter(rows, start), rows, start)
<1> DEFINE good == {S \in SUBSET rows : Fills(DayAfter(S, start), S, start)}
<1>1. {} \in good
  <2>1. DayAfter({}, start) = Morning(start)
    BY DayAfterNothing
  <2>2. Fills(Morning(start), {}, start)
    BY DEF Fills, Morning, DayType
  <2> QED BY <2>1, <2>2
<1>2. ASSUME NEW S \in SUBSET rows, S # {}, S \ {LastOf(S)} \in good PROVE S \in good
  <2> DEFINE last == LastOf(S)
             day  == DayAfter(S \ {last}, start)
  <2>1. S \in SUBSET EventType /\ Fills(day, S \ {last}, start)
    BY <1>2
  <2>2. last \in S /\ \A f \in S : LocalUnit(f.time) <= LocalUnit(last.time)
    BY <1>2, <2>1, LastOfIsLast
  <2>3. DayAfter(S, start) = CountEvent(last, day)
    BY <1>2, <2>1, DayAfterRow
  <2>4. start <= LocalUnit(last.time)
    BY <2>2
  <2> HIDE DEF last, day
  <2> QED BY <2>1, <2>2, <2>3, <2>4, CountEventFills
<1>3. rows \in good
  <2> HIDE DEF good
  <2> QED BY <1>1, <1>2, RowByRow
<1> QED BY <1>3

\* What Timeline counts between the first check-in and end.
Counted(rows, end) ==
    {e \in rows : WithinShift(LocalUnit(e.time), First(rows, "CHECK_IN"), end)}

LEMMA FirstIsLeast ==
    ASSUME NEW rows \in SUBSET EventType, NEW type, Has(rows, type)
    PROVE  /\ First(rows, type) \in Units(rows, type) /\ First(rows, type) \in Nat
           /\ \A u \in Units(rows, type) : u \in Nat /\ First(rows, type) <= u
<1>1. Units(rows, type) \in SUBSET Nat
  BY UnitOfRow DEF Units
<1>2. PICK m \in Units(rows, type) : \A u \in Units(rows, type) : m <= u
  BY <1>1, LeastOf DEF Has
<1>3. /\ First(rows, type) \in Units(rows, type)
      /\ \A u \in Units(rows, type) : First(rows, type) <= u
  BY <1>2 DEF First, Min
<1> QED BY <1>1, <1>3

\* For every set of rows with a check-in and every end, also one before the
\* check-in, worked and break time add up to the time between them.
LEMMA TimelineFills ==
    ASSUME NEW rows \in SUBSET EventType, NEW end \in Nat, Has(rows, "CHECK_IN")
    PROVE  LET day == Timeline(rows, end)
           IN  /\ day.worked \in Nat /\ day.break \in Nat
               /\ day.worked + day.break = Elapsed(First(rows, "CHECK_IN"), end)
<1> DEFINE start == First(rows, "CHECK_IN")
           counted == Counted(rows, end)
<1>1. start \in Nat
  BY FirstIsLeast
<1>2. counted \in SUBSET EventType /\ \A e \in counted : start <= LocalUnit(e.time)
                                          /\ LocalUnit(e.time) <= end
  BY DEF Counted, WithinShift
<1> DEFINE day  == DayAfter(counted, start)
           rest == Elapsed(day.cursor, end)
           full == IF day.working THEN [day EXCEPT !.worked = @ + rest]
                   ELSE [day EXCEPT !.break = @ + rest]
<1>3. Timeline(rows, end) = full
  BY Zenon DEF Timeline, Counted
<1> HIDE DEF start, counted
<1>4. Fills(day, counted, start)
  BY <1>1, <1>2, DayFills
<1> HIDE DEF day
<1>5. /\ day \in DayType /\ day.cursor \in Nat /\ day.worked \in Nat /\ day.break \in Nat
      /\ start <= day.cursor /\ day.worked + day.break = day.cursor - start
  BY <1>4 DEF Fills, DayType
<1>6. day.cursor = start \/ day.cursor <= end
  BY <1>2, <1>4 DEF Fills
<1>7. rest \in Nat /\ (day.cursor - start) + rest = Elapsed(start, end)
  BY <1>1, <1>5, <1>6 DEF Elapsed
<1> HIDE DEF rest
<1>8. \/ full.worked = day.worked + rest /\ full.break = day.break
      \/ full.worked = day.worked /\ full.break = day.break + rest
  BY <1>5 DEF DayType
<1> HIDE DEF full
<1>9. /\ full.worked \in Nat /\ full.break \in Nat
      /\ full.worked + full.break = (day.cursor - start) + rest
  BY <1>1, <1>5, <1>7, <1>8
<1> QED BY <1>3, <1>7, <1>9 DEF start

LEMMA EndUnitType ==
    ASSUME NEW d \in DaysSeen, NEW rows \in SUBSET EventType, NEW now \in 0 .. MaxClock
    PROVE  EndUnit(DateStart(d), rows, now) \in Nat
<1>1. CASE Has(rows, "CHECK_OUT")
  BY <1>1, FirstIsLeast DEF EndUnit
<1>2. CASE ~ Has(rows, "CHECK_OUT")
  <2>1. PICK end \in Instants : end = DateStart(d) + DayLength
    BY StartType DEF DaysSeen
  <2>2. LocalUnit(end) \in Nat
    BY LocalUnitType
  <2>3. LocalUnit(now) \in Nat
    <3>1. now \in Instants
      BY ClockTypes
    <3> QED BY <3>1, LocalUnitType
  <2> QED BY <1>2, <2>1, <2>2, <2>3 DEF EndUnit
<1> QED BY <1>1, <1>2

\* Whatever the order in which the punches of a window were written, whatever the
\* zone and what Intl prints for midnight, calculateAttendanceDay loses no time
\* between the check-in and the end of the day and counts none twice.
THEOREM HoursFillTheDay == Spec => []WorkedAndBreakFillTheDay
<1>1. TypeOK => WorkedAndBreakFillTheDay
  <2> SUFFICES ASSUME TypeOK, NEW d \in DaysSeen, Has(Rows(d), "CHECK_IN")
               PROVE  LET end == EndUnit(DateStart(d), Rows(d), clock)
                          day == Timeline(Rows(d), end)
                      IN  day.worked + day.break = Elapsed(First(Rows(d), "CHECK_IN"), end)
    BY DEF WorkedAndBreakFillTheDay
  <2>1. clock \in 0 .. MaxClock /\ Rows(d) \in SUBSET EventType
    BY DEF TypeOK, Rows, Within
  <2>2. EndUnit(DateStart(d), Rows(d), clock) \in Nat
    BY <2>1, EndUnitType
  <2> QED BY <2>1, <2>2, TimelineFills
<1> QED BY <1>1, TypeCorrect, PTL

-----------------------------------------------------------------------------
(* Status and totals *)

IsType(rows, type) == \E e \in rows : e.type = type

LEMMA HasIsType ==
    ASSUME NEW rows, NEW type
    PROVE  Has(rows, type) <=> IsType(rows, type)
BY DEF Has, Units, IsType

\* With one departure for lunch, and every return after it, the loop is at work
\* unless the departure was met and no return.
LEMMA DayIsAtWork ==
    ASSUME NEW rows \in SUBSET EventType, NEW start \in Nat,
           \A e \in rows : start <= LocalUnit(e.time),
           \A e, f \in rows : e.type = "LUNCH_OUT" /\ f.type = "LUNCH_OUT" => e = f,
           \A e, f \in rows : e.type = "LUNCH_OUT" /\ f.type = "LUNCH_IN"
                                => LocalUnit(e.time) < LocalUnit(f.time)
    PROVE  DayAfter(rows, start).working
             <=> IsType(rows, "LUNCH_IN") \/ ~ IsType(rows, "LUNCH_OUT")
<1> DEFINE AtWork(S) == IsType(S, "LUNCH_IN") \/ ~ IsType(S, "LUNCH_OUT")
           good == {S \in SUBSET rows : DayAfter(S, start).working <=> AtWork(S)}
<1>1. {} \in good
  <2>1. DayAfter({}, start).working
    BY DayAfterNothing DEF Morning
  <2> QED BY <2>1 DEF IsType
<1>2. ASSUME NEW S \in SUBSET rows, S # {}, S \ {LastOf(S)} \in good PROVE S \in good
  <2>1. S \in SUBSET EventType /\ LastOf(S) \in S
        /\ \A f \in S : LocalUnit(f.time) <= LocalUnit(LastOf(S).time)
    BY <1>2, LastOfIsLast
  <2> DEFINE rest == S \ {LastOf(S)}
  <2>2. PICK last \in S : last = LastOf(S)
    BY <2>1
  <2>3. PICK day \in DayType : day = DayAfter(rest, start)
    <3>1. rest \in SUBSET EventType /\ \A e \in rest : start <= LocalUnit(e.time)
      BY <2>1
    <3>2. Fills(DayAfter(rest, start), rest, start)
      <4> HIDE DEF rest
      <4> QED BY <3>1, DayFills
    <3> QED BY <3>2 DEF Fills
  <2>4. (day.working <=> AtWork(rest)) /\ day.working \in BOOLEAN
    BY <1>2, <2>3 DEF DayType
  <2>5. DayAfter(S, start) = CountEvent(last, day)
    BY <1>2, <2>1, <2>2, <2>3, DayAfterRow
  <2>6. CountEvent(last, day).working <=> AtWork(S)
    <3>1. CASE last.type = "LUNCH_OUT"
      <4>1. ~ IsType(rest, "LUNCH_OUT") /\ ~ IsType(S, "LUNCH_IN") /\ IsType(S, "LUNCH_OUT")
        <5>1. \A f \in S : f.type = "LUNCH_IN" => FALSE
          <6> SUFFICES ASSUME NEW f \in S, f.type = "LUNCH_IN" PROVE FALSE
            OBVIOUS
          <6>1. LocalUnit(last.time) < LocalUnit(f.time) /\ LocalUnit(f.time) <= LocalUnit(last.time)
            BY <2>1, <2>2, <3>1
          <6>2. LocalUnit(last.time) \in Nat /\ LocalUnit(f.time) \in Nat
            BY <2>1, UnitOfRow
          <6> QED BY <6>1, <6>2
        <5> QED BY <2>2, <3>1, <5>1 DEF IsType
      <4>2. day.working
        BY <2>4, <4>1
      <4>3. CountEvent(last, day).working = FALSE
        BY <3>1, <4>2 DEF CountEvent, DayType
      <4> QED BY <4>1, <4>3
    <3>2. CASE last.type = "LUNCH_IN"
      <4>1. IsType(S, "LUNCH_IN")
        BY <3>2 DEF IsType
      <4>2. CountEvent(last, day).working = TRUE
        <5>1. CASE day.working = TRUE
          BY <3>2, <5>1 DEF CountEvent
        <5>2. CASE day.working = FALSE
          BY <3>2, <5>2 DEF CountEvent, DayType
        <5> QED BY <2>4, <5>1, <5>2
      <4> QED BY <4>1, <4>2
    <3>3. CASE last.type \notin {"LUNCH_OUT", "LUNCH_IN"}
      <4>1. CountEvent(last, day) = day
        BY <3>3, Zenon DEF CountEvent
      <4>2. AtWork(S) <=> AtWork(rest)
        BY <2>1, <2>2, <3>3 DEF IsType
      <4> QED BY <2>4, <4>1, <4>2
    <3> QED BY <3>1, <3>2, <3>3
  <2> QED BY <2>5, <2>6
<1>3. rows \in good
  <2> HIDE DEF good
  <2> QED BY <1>1, <1>2, RowByRow
<1> QED BY <1>3

\* Timeline says what the loop left.
LEMMA TimelineWorking ==
    ASSUME NEW rows \in SUBSET EventType, NEW end \in Nat, Has(rows, "CHECK_IN")
    PROVE  Timeline(rows, end).working
             = DayAfter(Counted(rows, end), First(rows, "CHECK_IN")).working
<1> DEFINE day == DayAfter(Counted(rows, end), First(rows, "CHECK_IN"))
           rest == Elapsed(day.cursor, end)
<1>1. day \in DayType
  <2>1. First(rows, "CHECK_IN") \in Nat
    BY FirstIsLeast
  <2>2. Counted(rows, end) \in SUBSET EventType
        /\ \A e \in Counted(rows, end) : First(rows, "CHECK_IN") <= LocalUnit(e.time)
    BY DEF Counted, WithinShift
  <2> QED BY <2>1, <2>2, DayFills DEF Fills
<1>2. Timeline(rows, end) = IF day.working THEN [day EXCEPT !.worked = @ + rest]
                            ELSE [day EXCEPT !.break = @ + rest]
  BY Zenon DEF Timeline, Counted
<1> HIDE DEF day
<1>3. [day EXCEPT !.worked = @ + rest].working = day.working
      /\ [day EXCEPT !.break = @ + rest].working = day.working
  BY <1>1 DEF DayType
<1> QED BY <1>2, <1>3 DEF day

\* Within a day the order of the instants is that of what the clock shows.
LEMMA OrderOfDay ==
    ASSUME PlainZone, NEW a \in 0 .. MaxClock, NEW b \in 0 .. MaxClock, DayOf(a) = DayOf(b)
    PROVE  /\ a < b <=> Wall(a) % DayLength < Wall(b) % DayLength
           /\ Wall(a) % DayLength \in 0 .. DayLength - 1
           /\ Wall(b) % DayLength \in 0 .. DayLength - 1
<1>1. PICK u \in Int, v \in Int : u = Wall(a) /\ v = Wall(b) /\ u - v = a - b
  <2>1. Zone[a] = Zone[b] /\ Zone[a] \in Int
    BY ClockTypes DEF PlainZone
  <2> QED BY <2>1 DEF Wall
<1> DEFINE k == (u \div DayLength) * DayLength
<1>2. k \in Int /\ u = k + (u % DayLength) /\ u % DayLength \in 0 .. DayLength - 1
  <2>1. u \div DayLength \in Int /\ u % DayLength \in 0 .. DayLength - 1
        /\ u = (u \div DayLength) * DayLength + (u % DayLength)
    BY DayBounds
  <2> QED BY <2>1
<1>3. v = k + (v % DayLength) /\ v % DayLength \in 0 .. DayLength - 1
  BY <1>1, DayBounds DEF DayOf
<1> HIDE DEF k
<1>4. a < b <=> u < v
  BY <1>1
<1> QED BY <1>1, <1>2, <1>3, <1>4

\* A unit before midnight shows the instant.
LEMMA ShownUnit ==
    ASSUME NEW t, MidnightUnit = DayLength, Wall(t) % DayLength \in 0 .. DayLength - 1
    PROVE  /\ LocalUnit(t) # DayLength => LocalUnit(t) = Wall(t) % DayLength
           /\ Wall(t) % DayLength > 0 => LocalUnit(t) = Wall(t) % DayLength
           /\ LocalUnit(t) > 0 /\ LocalUnit(t) <= DayLength
BY DEF LocalUnit

LEMMA LaterUnit ==
    ASSUME PlainZone, NEW a \in 0 .. MaxClock, NEW b \in 0 .. MaxClock,
           DayOf(a) = DayOf(b), a < b,
           MidnightUnit = DayLength, LocalUnit(a) # DayLength
    PROVE  LocalUnit(a) < LocalUnit(b) /\ LocalUnit(b) # DayLength
<1>1. /\ Wall(a) % DayLength < Wall(b) % DayLength
      /\ Wall(a) % DayLength \in 0 .. DayLength - 1 /\ Wall(b) % DayLength \in 0 .. DayLength - 1
  BY OrderOfDay
<1>2. LocalUnit(a) = Wall(a) % DayLength /\ LocalUnit(b) = Wall(b) % DayLength
  BY <1>1, ShownUnit
<1> QED BY <1>1, <1>2

LEMMA LaterInstant ==
    ASSUME PlainZone, NEW a \in 0 .. MaxClock, NEW b \in 0 .. MaxClock,
           DayOf(a) = DayOf(b),
           MidnightUnit = DayLength, LocalUnit(a) < LocalUnit(b), LocalUnit(b) # DayLength
    PROVE  a < b
<1>1. /\ a < b <=> Wall(a) % DayLength < Wall(b) % DayLength
      /\ Wall(a) % DayLength \in 0 .. DayLength - 1 /\ Wall(b) % DayLength \in 0 .. DayLength - 1
  BY OrderOfDay
<1>2. LocalUnit(b) = Wall(b) % DayLength
  BY <1>1, ShownUnit
<1>3. LocalUnit(a) # DayLength
  BY <1>1, <1>2
<1>4. LocalUnit(a) = Wall(a) % DayLength
  BY <1>1, <1>3, ShownUnit
<1> QED BY <1>1, <1>2, <1>4

\* What happened on the day before now lies before the end of an open shift.
LEMMA BeforeEnd ==
    ASSUME PlainZone, NEW rows, ~ Has(rows, "CHECK_OUT"),
           NEW t \in 0 .. MaxClock, NEW now \in 0 .. MaxClock, t < now,
           MidnightUnit = DayLength, LocalUnit(t) # DayLength
    PROVE  LocalUnit(t) <= EndUnit(DateStart(DayOf(t)), rows, now)
<1> DEFINE end == DateStart(DayOf(t)) + DayLength
<1>1. /\ LocalUnit(t) \in 0 .. DayLength /\ LocalUnit(now) \in 0 .. DayLength
      /\ end \in Int
  <2>1. t \in Instants /\ now \in Instants
    BY ClockTypes
  <2>2. LocalUnit(t) \in 0 .. DayLength /\ LocalUnit(now) \in 0 .. DayLength
    BY <2>1, LocalUnitType
  <2> QED BY <2>2, StartType DEF Instants
<1>2. /\ LocalUnit(end) = DayLength
      /\ DayOf(now) > DayOf(t) <=> end <= now
  BY PlainWindow
<1>3. EndUnit(DateStart(DayOf(t)), rows, now) = LocalUnit(IF end < now THEN end ELSE now)
  BY DEF EndUnit
<1> HIDE DEF end
<1>4. CASE end <= now
  <2>1. end < now \/ end = now
    BY <1>1, <1>4
  <2> QED BY <1>1, <1>2, <1>3, <2>1
<1>5. CASE ~ (end <= now)
  <2>1. DayOf(t) <= DayOf(now) /\ DayOf(now) \in Int /\ DayOf(t) \in Int
    BY DaysFollow
  <2>2. DayOf(now) = DayOf(t)
    BY <1>2, <1>5, <2>1
  <2>3. LocalUnit(t) < LocalUnit(now)
    BY <2>2, LaterUnit
  <2>4. EndUnit(DateStart(DayOf(t)), rows, now) = LocalUnit(now)
    BY <1>1, <1>3, <1>5
  <2> QED BY <1>1, <2>3, <2>4
<1> QED BY <1>4, <1>5

\* The status and the totals of an open day agree on whether the employee is at
\* work, if midnight is printed as 24, the zone is a plain one, a lunch lasts and
\* nobody leaves for it in the hour of midnight, whatever order the punches were
\* written in.
THEOREM BreakIsNotWork ==
    ASSUME PlainZone, MidnightUnit = DayLength, LunchBreak > 0, DayLength \notin LunchWindow
    PROVE  Spec => []OnBreakIsNotWorking
<1>0. WindowIsDay
  BY PlainZoneHasDays
<1>1. Inv /\ DayInv /\ LunchInv => OnBreakIsNotWorking
  <2> SUFFICES ASSUME Inv, DayInv, LunchInv, NEW d \in DaysSeen, ~ AllowMultipleLunchBreaks,
                      Has(Rows(d), "CHECK_IN"), ~ Has(Rows(d), "CHECK_OUT"),
                      \A unit \in Units(Rows(d), "LUNCH_OUT") :
                          unit > First(Rows(d), "CHECK_IN")
               PROVE  LatestType(Rows(d)) = "LUNCH_OUT"
                        <=> ~ Timeline(Rows(d), EndUnit(DateStart(d), Rows(d), clock)).working
    BY DEF OnBreakIsNotWorking
  <2> DEFINE rows    == Rows(d)
             end     == EndUnit(DateStart(d), rows, clock)
             start   == First(rows, "CHECK_IN")
             counted == Counted(rows, end)
  <2>0. PICK t \in 0 .. MaxClock : d = DayOf(t)
    BY DEF DaysSeen
  <2>1. clock \in 0 .. MaxClock /\ rows \in SUBSET EventType
    BY DEF Inv, TypeOK, Rows, Within
  <2>2. /\ start \in Nat /\ start \in Units(rows, "CHECK_IN")
        /\ \A unit \in Units(rows, "LUNCH_OUT") : unit > start
    <3>1. rows \in SUBSET EventType /\ Has(rows, "CHECK_IN")
      BY <2>1
    <3> QED BY <3>1, FirstIsLeast
  <2>3. PICK in \in rows : in.type = "CHECK_IN" /\ LocalUnit(in.time) = start
    BY <2>2 DEF Units
  <2>4. /\ \A e \in rows : /\ e \in events /\ DayOf(e.time) = d /\ e.time < clock
                           /\ e.time \in 0 .. MaxClock /\ LocalUnit(e.time) \in Nat
        /\ \A e \in events : DayOf(e.time) = d => e \in rows
    <3>1. rows = {e \in events : DayOf(e.time) = d}
      <4>1. events \in SUBSET EventType
        BY DEF Inv, TypeOK
      <4>2. OnDay(events, t) = SameDate(events, t)
        BY <1>0, <4>1, WindowHoldsTheDay
      <4> QED BY <2>0, <4>2, Zenon DEF OnDay, SameDate, Rows
    <3> QED BY <2>1, <3>1, UnitOfRow DEF LunchInv, PastOnly
  <2>5. \A e \in rows : e.type = "LUNCH_OUT" =>
          LocalUnit(e.time) # DayLength /\ start < LocalUnit(e.time)
    <3>1. \A e \in rows : e.type = "LUNCH_OUT" => LocalUnit(e.time) \in Units(rows, "LUNCH_OUT")
      BY DEF Units
    <3> QED BY <2>2, <2>4, <3>1 DEF LunchInv, LunchInWindow
  <2>6. \A e \in rows : e.type = "LUNCH_OUT" => in.time < e.time
    BY <2>3, <2>4, <2>5, LaterInstant
  <2>7. \A e, f \in rows : e.type = "LUNCH_OUT" /\ f.type = "LUNCH_OUT" => e = f
    BY <2>3, <2>4, <2>6 DEF LunchInv, OneLunchPerDay
  <2>8. ASSUME NEW f \in rows, f.type = "LUNCH_IN"
        PROVE  /\ LocalUnit(f.time) # DayLength
               /\ \E e \in rows : e.type = "LUNCH_OUT" /\ LocalUnit(e.time) < LocalUnit(f.time)
    <3>1. PICK out \in SameDate(events, f.time) :
            out.type = "LUNCH_OUT" /\ out.time + LunchBreak <= f.time
      BY <2>4, <2>8 DEF DayInv, LunchBreakServed
    <3>2. out \in rows
      BY <2>4, <3>1 DEF SameDate
    <3>3. out.time < f.time
      BY <2>4, <3>1, <3>2
    <3> QED BY <2>4, <2>5, <3>1, <3>2, <3>3, LaterUnit
  <2>9. \A e, f \in rows : e.type = "LUNCH_OUT" /\ f.type = "LUNCH_IN"
                             => LocalUnit(e.time) < LocalUnit(f.time)
    BY <2>7, <2>8
  <2>10. \A e \in rows : e.type \in {"LUNCH_OUT", "LUNCH_IN"} => e \in counted
    <3> SUFFICES ASSUME NEW e \in rows, e.type \in {"LUNCH_OUT", "LUNCH_IN"}
                 PROVE  e \in counted
      OBVIOUS
    <3>1. LocalUnit(e.time) # DayLength
      BY <2>5, <2>8
    <3>2. start <= LocalUnit(e.time)
      BY <2>2, <2>4, <2>5, <2>8
    <3>3. LocalUnit(e.time) <= end
      BY <2>1, <2>4, <3>1, BeforeEnd
    <3> QED BY <3>2, <3>3 DEF Counted, WithinShift
  <2>11. Timeline(rows, end).working
           <=> IsType(rows, "LUNCH_IN") \/ ~ IsType(rows, "LUNCH_OUT")
    <3>1. counted \in SUBSET EventType /\ counted \subseteq rows
          /\ \A e \in counted : start <= LocalUnit(e.time)
      BY <2>1 DEF Counted, WithinShift
    <3>2. end \in Nat
      BY <2>1, EndUnitType
    <3>3. Timeline(rows, end).working = DayAfter(counted, start).working
      BY <2>1, <3>2, TimelineWorking
    <3>4. /\ IsType(counted, "LUNCH_IN") <=> IsType(rows, "LUNCH_IN")
          /\ IsType(counted, "LUNCH_OUT") <=> IsType(rows, "LUNCH_OUT")
      BY <2>10, <3>1 DEF IsType
    <3> HIDE DEF counted, start, end, rows
    <3>5. DayAfter(counted, start).working
            <=> IsType(counted, "LUNCH_IN") \/ ~ IsType(counted, "LUNCH_OUT")
      BY <2>2, <2>7, <2>9, <3>1, DayIsAtWork
    <3> QED BY <3>3, <3>4, <3>5
  <2>12. LatestType(rows) = "LUNCH_OUT"
           <=> IsType(rows, "LUNCH_OUT") /\ ~ IsType(rows, "LUNCH_IN")
    <3>1. ~ Has(rows, "CHECK_OUT")
      OBVIOUS
    <3>2. CASE Has(rows, "LUNCH_OUT") /\ Has(rows, "LUNCH_IN")
      <4>1. /\ First(rows, "LUNCH_OUT") \in Units(rows, "LUNCH_OUT")
            /\ First(rows, "LUNCH_OUT") \in Nat
            /\ First(rows, "LUNCH_IN") \in Units(rows, "LUNCH_IN")
            /\ First(rows, "LUNCH_IN") \in Nat
        BY <2>1, <3>2, FirstIsLeast
      <4>2. First(rows, "LUNCH_OUT") < First(rows, "LUNCH_IN")
        BY <2>9, <4>1 DEF Units
      <4>3. ~ (First(rows, "LUNCH_OUT") > First(rows, "LUNCH_IN"))
        BY <4>1, <4>2
      <4>4. LatestType(rows) = "CHECK_IN"
        BY <3>1, <3>2, <4>3, Zenon DEF LatestType
      <4> QED BY <3>2, <4>4, HasIsType
    <3>3. CASE Has(rows, "LUNCH_OUT") /\ ~ Has(rows, "LUNCH_IN")
      <4>1. LatestType(rows) = "LUNCH_OUT"
        BY <3>1, <3>3, Zenon DEF LatestType
      <4> QED BY <3>3, <4>1, HasIsType
    <3>4. CASE ~ Has(rows, "LUNCH_OUT")
      <4>1. LatestType(rows) = "CHECK_IN"
        BY <3>1, <3>4, Zenon DEF LatestType
      <4> QED BY <3>4, <4>1, HasIsType
    <3> QED BY <3>2, <3>3, <3>4
  <2> QED BY <2>11, <2>12
<1>2. Spec => []DayInv
  BY <1>0, DayInvHolds
<1>3. Spec => []LunchInv
  BY <1>0, LunchInvHolds
<1> QED BY <1>1, <1>2, <1>3, InvHolds, PTL
-----------------------------------------------------------------------------
(* A settled day *)

\* Once a day is settled, the two places that read the clock give the same.
LEMMA ClockForgotten ==
    ASSUME PlainZone, NEW t \in 0 .. MaxClock, NEW rows,
           NEW m \in 0 .. MaxClock, NEW n \in 0 .. MaxClock, m <= n,
           Has(rows, "CHECK_OUT") \/ DayOf(m) > DayOf(t)
    PROVE  LET start == DateStart(DayOf(t))
           IN  /\ EndUnit(start, rows, n) = EndUnit(start, rows, m)
               /\ Missed(start, rows, n) <=> Missed(start, rows, m)
<1> DEFINE start == DateStart(DayOf(t))
<1>1. CASE Has(rows, "CHECK_OUT")
  BY <1>1 DEF EndUnit, Missed
<1>2. CASE DayOf(m) > DayOf(t)
  <2>1. DayOf(n) > DayOf(t)
    <3>1. DayOf(m) <= DayOf(n) /\ DayOf(m) \in Int /\ DayOf(n) \in Int /\ DayOf(t) \in Int
      BY DaysFollow
    <3> QED BY <1>2, <3>1
  <2>2. /\ DayOf(start) = DayOf(t) /\ start + DayLength \in Int
        /\ start + DayLength <= m /\ start + DayLength <= n
    BY <1>2, <2>1, PlainWindow, StartType DEF Instants
  <2>3. Missed(start, rows, n) <=> Missed(start, rows, m)
    BY <1>2, <2>1, <2>2 DEF Missed, WorkdayEnded
  <2> DEFINE end == start + DayLength
  <2>4. (IF end < m THEN end ELSE m) = end /\ (IF end < n THEN end ELSE n) = end
    <3> HIDE DEF end
    <3>1. end \in Int /\ end <= m /\ end <= n
      BY <2>2 DEF end
    <3> QED BY <3>1
  <2>5. EndUnit(start, rows, n) = EndUnit(start, rows, m)
    <3> HIDE DEF start
    <3> QED BY <2>4, Zenon DEF EndUnit
  <2> QED BY <2>3, <2>5
<1> QED BY <1>1, <1>2

\* The calculation reads the rows of the window, where its timeline ends and
\* whether the check-out was missed, and nothing else of what it is handed.
LEMMA SameValue ==
    ASSUME NEW start, NEW a, NEW b, NEW m, NEW n, NEW use,
           Within(a, start) = Within(b, start),
           EndUnit(start, Within(a, start), n) = EndUnit(start, Within(a, start), m),
           Missed(start, Within(a, start), n) <=> Missed(start, Within(a, start), m)
    PROVE  calculateAttendanceDay(start, a, m, use) = calculateAttendanceDay(start, b, n, use)
<1> DEFINE rows == Within(a, start)
<1>1. Timeline(rows, EndUnit(start, rows, n)) = Timeline(rows, EndUnit(start, rows, m))
  OBVIOUS
<1> QED BY <1>1, Zenon DEF calculateAttendanceDay

\* What lunch was given up touches the penalty of a lunch never recorded only.
LEMMA UseMatters ==
    ASSUME NEW start, NEW handed, NEW now, NEW use
    PROVE  LET known   == calculateAttendanceDay(start, handed, now, use)
               unknown == calculateAttendanceDay(start, handed, now, 0)
           IN  /\ ~ LunchSkipped(start, Within(handed, start)) => unknown = known
               /\ unknown.raw = known.raw /\ unknown.break = known.break
               /\ unknown.late = known.late /\ unknown.status = known.status
<1> DEFINE rows    == Within(handed, start)
           d       == DayOf(start)
           day     == Timeline(rows, EndUnit(start, rows, now))
           half    == Expected(d) \div 2
           missed  == Missed(start, rows, now)
           off     == Modes[d] = "PAID_DAY_OFF"
           skipped == LunchSkipped(start, rows)
           Penalty(u) == CASE missed -> Expected(d) - half
                           [] skipped -> Min({LunchDue(u), day.worked})
                           [] OTHER -> 0
           Worked(u) == IF missed THEN half ELSE day.worked - Penalty(u)
           Value(u) == [raw |-> day.worked, worked |-> Worked(u), break |-> day.break,
                        penalty |-> Penalty(u),
                        overtime |-> IF off THEN 0 ELSE Elapsed(Expected(d), Worked(u)),
                        missing |-> IF off THEN 0 ELSE Elapsed(Worked(u), Expected(d)),
                        late |-> LateBy(d, rows), status |-> Status(d, rows)]
           Result(u) == IF ~ Has(rows, "CHECK_IN") THEN NotStarted(d) ELSE Value(u)
<1>1. /\ calculateAttendanceDay(start, handed, now, use) = Result(use)
      /\ calculateAttendanceDay(start, handed, now, 0) = Result(0)
  BY Zenon DEF calculateAttendanceDay
<1>2. ASSUME ~ skipped PROVE Result(0) = Result(use)
  <2>1. Penalty(0) = Penalty(use)
    <3> HIDE DEF missed, skipped, half, day, d
    <3> QED BY <1>2, Zenon
  <2> HIDE DEF Penalty
  <2> QED BY <2>1
<1>3. \A u : /\ Value(u).raw = day.worked /\ Value(u).break = day.break
             /\ Value(u).late = LateBy(d, rows) /\ Value(u).status = Status(d, rows)
  <2> HIDE DEF Worked, Penalty, day, d, rows, off
  <2> QED OBVIOUS
<1>4. /\ Result(0).raw = Result(use).raw /\ Result(0).break = Result(use).break
      /\ Result(0).late = Result(use).late /\ Result(0).status = Result(use).status
  <2>1. CASE ~ Has(rows, "CHECK_IN")
    <3> HIDE DEF Value
    <3> QED BY <2>1
  <2>2. CASE Has(rows, "CHECK_IN")
    <3>1. Result(0) = Value(0) /\ Result(use) = Value(use)
      <4> HIDE DEF Value
      <4> QED BY <2>2
    <3> HIDE DEF Result, Value
    <3> QED BY <1>3, <3>1
  <2> QED BY <2>1, <2>2
<1> HIDE DEF Result
<1> QED BY <1>1, <1>2, <1>4 DEF skipped, rows

\* The clock never goes back.
LEMMA ClockAdvances == TypeOK /\ [Next]_vars => clock \in Nat /\ clock' \in Nat /\ clock <= clock'
<1> SUFFICES ASSUME TypeOK, [Next]_vars
             PROVE  clock \in Nat /\ clock' \in Nat /\ clock <= clock'
  OBVIOUS
<1>1. clock \in Nat
  BY DEF TypeOK
<1>2. clock' = clock + 1 \/ clock' = clock
  <2>1. CASE Tick
    BY <2>1, Zenon DEF Tick
  <2>2. ASSUME NEW c \in Calls, Begin(c) \/ Lock(c) \/ Record(c) \/ RevertLastEvent(c) \/ Rollback(c)
        PROVE  clock' = clock + 1 \/ clock' = clock
    BY <2>2, Zenon DEF Begin, Lock, Record, RevertLastEvent, Rollback
  <2>3. CASE UNCHANGED vars
    BY <2>3, Zenon DEF vars
  <2> QED BY <2>1, <2>2, <2>3, Zenon DEF Next
<1> QED BY <1>1, <1>2

\* In a plain zone, a day that was checked out, or is over, has the same hours,
\* lateness and status whenever and on whichever page it is looked at, and the
\* same penalty and credit but for a given-up lunch the page does not know of, for
\* any work modes, schedule, penalties and way of printing midnight.
THEOREM SettledDays == ASSUME PlainZone PROVE Spec => SettledDayIsFinal
<1> DEFINE Final(d, approved, now, later) ==
             LET before == Shown("buildDaily", d, now, approved)
                 after  == Shown("buildDaily", d, later, approved)
                 other  == Shown("report", d, later, approved)
             IN  /\ after = before
                 /\ approved = 0 \/ ~LunchSkipped(DateStart(d), Rows(d)) => other = before
                 /\ other.raw = before.raw /\ other.break = before.break
                 /\ other.late = before.late /\ other.status = before.status
<1>1. ASSUME TypeOK, NEW t \in 0 .. MaxClock, NEW approved \in 0 .. LunchWaiver,
             NEW later \in 0 .. MaxClock, clock <= later,
             Has(Rows(DayOf(t)), "CHECK_OUT") \/ DayOf(clock) > DayOf(t)
      PROVE  Final(DayOf(t), approved, clock, later)
  <2> DEFINE d     == DayOf(t)
             start == DateStart(d)
             dated == {e \in events : DayOf(e.time) = d}
  <2>1. Within(dated, start) = Within(events, start)
    <3>1. OnDay(events, t) = SameDate(events, t)
      <4>1. events \in SUBSET EventType
        BY <1>1 DEF TypeOK
      <4>2. WindowIsDay
        BY PlainZoneHasDays
      <4> QED BY <4>1, <4>2, WindowHoldsTheDay
    <3>2. Within(events, start) = dated
      BY <3>1, Zenon DEF OnDay, SameDate
    <3>3. Within(dated, start) = dated
      BY <3>2, Zenon DEF Within
    <3> QED BY <3>2, <3>3
  <2>2. /\ EndUnit(start, Within(events, start), later) = EndUnit(start, Within(events, start), clock)
        /\ Missed(start, Within(events, start), later) <=> Missed(start, Within(events, start), clock)
    BY <1>1, ClockForgotten DEF TypeOK, Rows
  <2>3. calculateAttendanceDay(start, events, clock, approved)
          = calculateAttendanceDay(start, events, later, approved)
    BY <2>2, SameValue
  <2>4. calculateAttendanceDay(start, events, clock, 0)
          = calculateAttendanceDay(start, dated, later, 0)
    BY <2>1, <2>2, SameValue
  <2>5. /\ Shown("buildDaily", d, clock, approved) = calculateAttendanceDay(start, events, clock, approved)
        /\ Shown("buildDaily", d, later, approved) = calculateAttendanceDay(start, events, later, approved)
        /\ Shown("report", d, later, approved) = calculateAttendanceDay(start, dated, later, 0)
    BY Zenon DEF Shown
  <2>6. Rows(d) = Within(events, start)
    BY DEF Rows
  <2> HIDE DEF d, start, dated
  <2> QED BY <2>3, <2>4, <2>5, <2>6, UseMatters DEF d, start
<1>2. TypeOK /\ TypeOK' /\ [Next]_vars =>
        [\A d \in DaysSeen, approved \in 0 .. LunchWaiver :
            /\ clock' # clock /\ UNCHANGED <<events, call>>
            /\ Has(Rows(d), "CHECK_OUT") \/ DayOf(clock) > d
            => Final(d, approved, clock, clock')]_vars
  <2> SUFFICES ASSUME TypeOK, TypeOK', [Next]_vars,
                      NEW d \in DaysSeen, NEW approved \in 0 .. LunchWaiver,
                      Has(Rows(d), "CHECK_OUT") \/ DayOf(clock) > d
               PROVE  Final(d, approved, clock, clock')
    OBVIOUS
  <2>1. PICK t \in 0 .. MaxClock : d = DayOf(t)
    BY DEF DaysSeen
  <2>2. clock' \in 0 .. MaxClock /\ clock <= clock'
    BY ClockAdvances DEF TypeOK
  <2> HIDE DEF Final
  <2> QED BY <1>1, <2>1, <2>2
<1> QED BY <1>2, TypeCorrect, PTL DEF Spec, SettledDayIsFinal

-----------------------------------------------------------------------------
(* Credit *)

LEMMA ExpectedType ==
    ASSUME NEW d
    PROVE  Expected(d) \in Nat /\ Expected(d) \div 2 \in Nat /\ Expected(d) \div 2 <= Expected(d)
<1>1. ExpectedDaily \in Nat /\ (ExpectedDaily + 1) \div 2 \in Nat
  BY CalculationAssumption
<1>2. Expected(d) \in Nat
  BY <1>1 DEF Expected
<1> QED BY <1>2

\* What a lunch that was not recorded costs is never more than was worked.
LEMMA LunchPenaltyBound ==
    ASSUME NEW use \in Nat, NEW worked \in Nat
    PROVE  Min({LunchDue(use), worked}) \in Nat /\ Min({LunchDue(use), worked}) <= worked
<1>1. LunchDue(use) \in Nat
  BY CalculationAssumption DEF LunchDue, Elapsed
<1>2. \E m \in {LunchDue(use), worked} : \A n \in {LunchDue(use), worked} : m <= n
  BY <1>1
<1>3. /\ Min({LunchDue(use), worked}) \in {LunchDue(use), worked}
      /\ \A n \in {LunchDue(use), worked} : Min({LunchDue(use), worked}) <= n
  BY <1>2 DEF Min
<1> QED BY <1>1, <1>3

\* For any punches, any zone, and looked at at any time and with any approved use of
\* the lunch: raw and break time of a window fill the shift; what is credited and
\* the penalty make up the raw time, or the schedule if the check-out was missed;
\* and missing time and overtime, never both, make up the difference to the
\* schedule of the date on which the window begins.
THEOREM CreditBalances ==
    ASSUME NEW d \in DaysSeen, NEW handed \in SUBSET EventType, NEW now \in 0 .. MaxClock,
           NEW use \in Nat, Has(Within(handed, DateStart(d)), "CHECK_IN")
    PROVE  LET start == DateStart(d)
               rows  == Within(handed, start)
               due   == Expected(DayOf(start))
               day   == calculateAttendanceDay(start, handed, now, use)
           IN  /\ {day.raw, day.worked, day.break, day.penalty} \subseteq Nat
               /\ day.raw + day.break = Elapsed(First(rows, "CHECK_IN"), EndUnit(start, rows, now))
               /\ day.worked + day.penalty
                    = IF Missed(start, rows, now) THEN due ELSE day.raw
               /\ Modes[DayOf(start)] # "PAID_DAY_OFF" =>
                    /\ day.worked + day.missing = due + day.overtime
                    /\ day.missing = 0 \/ day.overtime = 0
<1> DEFINE start   == DateStart(d)
           rows    == Within(handed, start)
           on      == DayOf(start)
           time    == Timeline(rows, EndUnit(start, rows, now))
           half    == Expected(on) \div 2
           missed  == Missed(start, rows, now)
           off     == Modes[on] = "PAID_DAY_OFF"
           skipped == LunchSkipped(start, rows)
           penalty == CASE missed -> Expected(on) - half
                        [] skipped -> Min({LunchDue(use), time.worked})
                        [] OTHER -> 0
           worked  == IF missed THEN half ELSE time.worked - penalty
           day     == [raw |-> time.worked, worked |-> worked, break |-> time.break,
                       penalty |-> penalty,
                       overtime |-> IF off THEN 0 ELSE Elapsed(Expected(on), worked),
                       missing |-> IF off THEN 0 ELSE Elapsed(worked, Expected(on)),
                       late |-> LateBy(on, rows), status |-> Status(on, rows)]
<1>1. calculateAttendanceDay(start, handed, now, use) = day
  BY Zenon DEF calculateAttendanceDay
<1>2. rows \in SUBSET EventType /\ Has(rows, "CHECK_IN")
  BY DEF Within
<1>3. /\ time.worked \in Nat /\ time.break \in Nat
      /\ time.worked + time.break = Elapsed(First(rows, "CHECK_IN"), EndUnit(start, rows, now))
  BY <1>2, EndUnitType, TimelineFills
<1>4. Expected(on) \in Nat /\ half \in Nat /\ half <= Expected(on)
  BY ExpectedType
<1> HIDE DEF time, half, missed, off, on, rows, start
<1>5. /\ missed => penalty = Expected(on) - half
      /\ (~ missed) => penalty \in Nat /\ penalty <= time.worked
  <2>1. CASE missed
    <3>1. ~ skipped
      BY <2>1, Zenon DEF missed, Missed, LunchSkipped
    <3> HIDE DEF skipped
    <3> QED BY <2>1, <3>1
  <2>2. CASE ~ missed /\ skipped
    <3> HIDE DEF skipped
    <3>1. penalty = Min({LunchDue(use), time.worked})
      BY <2>2
    <3> QED BY <1>3, <2>2, <3>1, LunchPenaltyBound
  <2>3. CASE ~ missed /\ ~ skipped
    <3> HIDE DEF skipped
    <3> QED BY <1>3, <2>3
  <2> QED BY <2>1, <2>2, <2>3
<1> HIDE DEF penalty
<1>6. /\ worked \in Nat /\ penalty \in Nat
      /\ worked + penalty = IF missed THEN Expected(on) ELSE time.worked
  BY <1>3, <1>4, <1>5
<1> HIDE DEF worked
<1>7. (~ off) => /\ worked + Elapsed(worked, Expected(on))
                      = Expected(on) + Elapsed(Expected(on), worked)
                 /\ Elapsed(worked, Expected(on)) = 0 \/ Elapsed(Expected(on), worked) = 0
  BY <1>4, <1>6 DEF Elapsed
<1>8. /\ {day.raw, day.worked, day.break, day.penalty} \subseteq Nat
      /\ day.raw + day.break = Elapsed(First(rows, "CHECK_IN"), EndUnit(start, rows, now))
      /\ day.worked + day.penalty = IF missed THEN Expected(on) ELSE day.raw
      /\ (~ off) => /\ day.worked + day.missing = Expected(on) + day.overtime
                    /\ day.missing = 0 \/ day.overtime = 0
  BY <1>3, <1>6, <1>7
<1> HIDE DEF day
<1> QED BY <1>1, <1>8 DEF missed, off, on, rows, start
=============================================================================
