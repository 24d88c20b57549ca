---------------------------- MODULE AttendanceBook ----------------------------
(***************************************************************************)
(* What an employee's attendance promises, without requests that read the  *)
(* clock early, row locks or lost connections: each entry is judged by     *)
(* what its day holds when it is written, and only the last entry of a day *)
(* is ever taken back.                                                     *)
(***************************************************************************)
EXTENDS Naturals

CONSTANTS
    Date,       \* the date of each instant
    MaxClock, LunchBreak

VARIABLE book

Entry == [type : {"CHECK_IN", "LUNCH_OUT", "LUNCH_IN", "CHECK_OUT"}, time : 0 .. MaxClock]

Day(e) == Date[e.time]

\* What may come after what on one day.
Follows == {<<"CHECK_IN", "LUNCH_OUT">>, <<"CHECK_IN", "CHECK_OUT">>,
            <<"LUNCH_OUT", "LUNCH_IN">>,
            <<"LUNCH_IN", "LUNCH_OUT">>, <<"LUNCH_IN", "CHECK_OUT">>}

IsLast(e) == \A f \in book : Day(f) = Day(e) => f.time <= e.time

Init == book = {}

Open(e) ==
    /\ e.type = "CHECK_IN"
    /\ \A f \in book : Day(f) # Day(e)
    /\ book' = book \cup {e}

\* A return from lunch waits for the mandatory break, if there is one.
Enter(last, e) ==
    /\ IsLast(last)
    /\ Day(last) = Day(e)
    /\ <<last.type, e.type>> \in Follows
    /\ e.type = "LUNCH_IN" /\ LunchBreak > 0 => last.time + LunchBreak <= e.time
    /\ book' = book \cup {e}

TakeBack(last) ==
    /\ IsLast(last)
    /\ book' = book \ {last}

Next ==
    \/ \E e \in book' \ book :
          /\ e \in Entry
          /\ Open(e) \/ \E last \in book : Enter(last, e)
    \/ \E last \in book \ book' : TakeBack(last)

Spec == Init /\ [][Next]_book
=============================================================================
