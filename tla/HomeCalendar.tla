---------------------------- MODULE HomeCalendar ----------------------------
(***************************************************************************)
(* What an employee's work-from-home calendar promises: a period is booked *)
(* or moved in one step, and only where no other active request lies.  Two *)
(* kinds of request escape the rule: one that was closed and is active     *)
(* again because of a decision that came late, and one that slips in       *)
(* without the lock.  Both keep out of nobody's way and nobody of theirs.  *)
(***************************************************************************)
EXTENDS Naturals

CONSTANTS Requests, Periods

VARIABLES
    row,     \* status and period of each request
    loose    \* the requests that escape the rule

vars == <<row, loose>>

NoPeriod == <<0, 0>>

\* Half-open intervals: one may start when the other ends.
Overlap(p, q) == p[1] < q[2] /\ q[1] < p[2]

Active(r) == row[r].status \in {"pending", "approved"}

Clear(r, p) ==
    \A q \in Requests \ {r} :
        Active(q) /\ q \notin loose => ~Overlap(p, row[q].period)

Init ==
    /\ row = [r \in Requests |-> [status |-> "none", period |-> NoPeriod]]
    /\ loose = {}

Book(r, p) ==
    /\ row[r].status = "none"
    /\ Clear(r, p)
    /\ row' = [row EXCEPT ![r] = [status |-> "pending", period |-> p]]
    /\ UNCHANGED loose

Slip(r, p) ==
    /\ row[r].status = "none"
    /\ row' = [row EXCEPT ![r] = [status |-> "pending", period |-> p]]
    /\ loose' = loose \cup {r}

\* Only a request nobody has decided moves.
Move(r, p) ==
    /\ row[r].status = "pending"
    /\ Clear(r, p)
    /\ row' = [row EXCEPT ![r].period = p]
    /\ UNCHANGED loose

Approve(r) ==
    /\ row[r].status # "none"
    /\ row' = [row EXCEPT ![r].status = "approved"]
    /\ UNCHANGED loose

Close(r, status) ==
    /\ row[r].status # "none"
    /\ row' = [row EXCEPT ![r].status = status]
    /\ loose' = loose \cup {r}

Next ==
    \E r \in Requests :
        \/ \E p \in Periods : Book(r, p) \/ Slip(r, p) \/ Move(r, p)
        \/ Approve(r)
        \/ \E status \in {"rejected", "cancelled"} : Close(r, status)

Spec == Init /\ [][Next]_vars
=============================================================================
