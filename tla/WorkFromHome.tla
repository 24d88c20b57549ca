---------------------------- MODULE WorkFromHome ----------------------------
(***************************************************************************)
(* The work-from-home requests of one employee.  Submitting and editing    *)
(* are transactions under a lock on the employee's row; editing also locks *)
(* the request's row.  Cancelling and deciding lock nothing: they read the *)
(* request in one statement and write its status in a later one, which     *)
(* waits while the row is locked and then writes whatever it finds there.  *)
(* The Telegram bot submits through another service, which checks for      *)
(* overlaps and inserts without a transaction.                             *)
(***************************************************************************)
EXTENDS Naturals

CONSTANTS
    Calls,       \* handlers that may be in flight at once
    NoCall,      \* nobody holds the employee's row
    NoRequest,
    Requests,
    Periods,     \* periods an employee may ask for
    MaxCalls,    \* bound on handlers started
    MaxFaults    \* bound on failures

ASSUME HomeAssumption ==
    /\ NoCall \notin Calls
    /\ NoRequest \notin Requests
    /\ Periods \subseteq {p \in Nat \X Nat : p[1] < p[2]}
    /\ MaxCalls \in Nat /\ MaxFaults \in Nat

VARIABLES
    row,      \* attendance_requests: status and period
    holder,   \* the call that holds the employee's row FOR UPDATE
    call,
    started, faults,
    loose     \* history: the requests once closed, or submitted without the lock

vars == <<row, holder, call, started, faults, loose>>

Calendar == INSTANCE HomeCalendar

NoPeriod == Calendar!NoPeriod

ACTIVE_WFH_STATUSES == {"pending", "approved"}
Closing  == {"rejected", "cancelled"}
Statuses == {"none"} \cup ACTIVE_WFH_STATUSES \cup Closing

Row == [status : Statuses, period : Periods \cup {NoPeriod}]

\* A call that submits waits for the employee's row, checks and saves; one
\* that edits reads the request under its own lock before it checks; the bot's
\* seeks an overlap and inserts.
PCs == {"idle", "lock", "read", "check", "save", "seek", "insert", "write"}

Call == [pc : PCs, req : Requests \cup {NoRequest}, edits : BOOLEAN,
         period : Periods \cup {NoPeriod}, to : Statuses]

Idle == [pc |-> "idle", req |-> NoRequest, edits |-> FALSE, period |-> NoPeriod,
         to |-> "none"]

Init ==
    /\ row = [r \in Requests |-> [status |-> "none", period |-> NoPeriod]]
    /\ holder = NoCall
    /\ call = [c \in Calls |-> Idle]
    /\ started = 0
    /\ faults = 0
    /\ loose = {}

Start(c, state) ==
    /\ call[c].pc = "idle"
    /\ started < MaxCalls
    /\ started' = started + 1
    /\ call' = [call EXCEPT ![c] = state]
    /\ UNCHANGED <<row, holder, faults, loose>>

Goto(c, pc) ==
    /\ call' = [call EXCEPT ![c].pc = pc]
    /\ UNCHANGED <<row, started, faults, loose>>

\* The handler returns or throws: its transaction is over, its locks are free.
Done(c) ==
    /\ call' = [call EXCEPT ![c] = Idle]
    /\ holder' = IF holder = c THEN NoCall ELSE holder

\* A call that edits holds the request's row from its read to its end.
RowFree(r) ==
    \A c \in Calls : call[c].req = r /\ call[c].edits => call[c].pc \notin {"check", "save"}

-----------------------------------------------------------------------------
(* Submitting and editing, under the employee's lock but for the bot *)

beginCreate(c, r, p) ==
    /\ row[r].status = "none"
    /\ \A d \in Calls : call[d].req # r
    /\ Start(c, [Idle EXCEPT !.pc = "lock", !.req = r, !.period = p])

\* attendanceRequests.create, called by the bot.
beginBotCreate(c, r, p) ==
    /\ row[r].status = "none"
    /\ \A d \in Calls : call[d].req # r
    /\ Start(c, [Idle EXCEPT !.pc = "seek", !.req = r, !.period = p])

beginUpdate(c, r, p) ==
    /\ row[r].status # "none"
    /\ Start(c, [Idle EXCEPT !.pc = "lock", !.req = r, !.edits = TRUE, !.period = p])

\* Mutant: the employee's row is read without FOR UPDATE.
LockUnguarded(c) ==
    /\ call[c].pc = "lock"
    /\ holder' = c
    /\ Goto(c, IF call[c].edits THEN "read" ELSE "check")

lockEmployee(c) ==
    /\ call[c].pc = "lock"
    /\ holder = NoCall
    /\ holder' = c
    /\ Goto(c, IF call[c].edits THEN "read" ELSE "check")

\* Mutant: the request is checked, but not locked until it is written.
ReadUnlocked(c) ==
    /\ call[c].pc = "read"
    /\ IF row[call[c].req].status = "pending"
       THEN /\ call' = [call EXCEPT ![c].pc = "check", ![c].edits = FALSE]
            /\ UNCHANGED holder
       ELSE Done(c)
    /\ UNCHANGED <<row, started, faults, loose>>

lockRequest(c) ==
    /\ call[c].pc = "read"
    /\ RowFree(call[c].req)
    /\ IF row[call[c].req].status = "pending"
       THEN Goto(c, "check") /\ UNCHANGED holder
       ELSE Done(c) /\ UNCHANGED <<row, started, faults, loose>>

Overlapping(r, p) ==
    {q \in Requests \ {r} : /\ row[q].status \in ACTIVE_WFH_STATUSES
                            /\ Calendar!Overlap(p, row[q].period)}

\* Mutant: an approved request is no obstacle.
CheckPendingOnly(c) ==
    /\ call[c].pc \in {"check", "seek"}
    /\ \/ /\ \A q \in Overlapping(call[c].req, call[c].period) : row[q].status # "pending"
          /\ Goto(c, IF call[c].pc = "check" THEN "save" ELSE "insert")
          /\ UNCHANGED holder
       \/ Done(c) /\ UNCHANGED <<row, started, faults, loose>>

\* An overlapping request refuses the period; so may a leave request, which
\* is not modelled here.
assertNoOverlap(c) ==
    /\ call[c].pc \in {"check", "seek"}
    /\ \/ /\ Overlapping(call[c].req, call[c].period) = {}
          /\ Goto(c, IF call[c].pc = "check" THEN "save" ELSE "insert")
          /\ UNCHANGED holder
       \/ Done(c) /\ UNCHANGED <<row, started, faults, loose>>

\* Mutant: an edit starts the request anew.
SaveAnew(c) ==
    /\ call[c].pc = "save"
    /\ row' = [row EXCEPT ![call[c].req] = [status |-> "new", period |-> call[c].period]]
    /\ Done(c)
    /\ UNCHANGED <<started, faults, loose>>

\* The insert, or the update of the period alone, and the commit.
savePeriod(c) ==
    LET r == call[c].req
    IN  /\ call[c].pc = "save"
        /\ row' = [row EXCEPT ![r] =
                     IF call[c].edits THEN [@ EXCEPT !.period = call[c].period]
                     ELSE [status |-> "pending", period |-> call[c].period]]
        /\ Done(c)
        /\ UNCHANGED <<started, faults, loose>>

insertUnlocked(c) ==
    LET r == call[c].req
    IN  /\ call[c].pc = "insert"
        /\ row' = [row EXCEPT ![r] = [status |-> "pending", period |-> call[c].period]]
        /\ loose' = loose \cup {r}
        /\ Done(c)
        /\ UNCHANGED <<started, faults>>

-----------------------------------------------------------------------------
(* Cancelling and deciding, without locks *)

\* cancelPending by the employee, action by HR: the request is read once.
beginDecision(c, r, to) ==
    /\ row[r].status = "pending"
    /\ Start(c, [Idle EXCEPT !.pc = "write", !.req = r, !.to = to])

\* The update names the row by its key and writes the status alone.
writeStatus(c) ==
    LET r == call[c].req
    IN  /\ call[c].pc = "write"
        /\ RowFree(r)
        /\ row' = [row EXCEPT ![r].status = call[c].to]
        /\ loose' = IF call[c].to \in Closing THEN loose \cup {r} ELSE loose
        /\ Done(c)
        /\ UNCHANGED <<started, faults>>

\* An error or a lost connection ends a handler and rolls it back.
Rollback(c) ==
    /\ call[c].pc # "idle"
    /\ faults < MaxFaults
    /\ faults' = faults + 1
    /\ Done(c)
    /\ UNCHANGED <<row, started, loose>>

Next ==
    \E c \in Calls :
        \/ \E r \in Requests, p \in Periods :
              beginCreate(c, r, p) \/ beginBotCreate(c, r, p) \/ beginUpdate(c, r, p)
        \/ \E r \in Requests, to \in Closing \cup {"approved"} : beginDecision(c, r, to)
        \/ lockEmployee(c) \/ lockRequest(c) \/ assertNoOverlap(c) \/ savePeriod(c)
        \/ insertUnlocked(c) \/ writeStatus(c) \/ Rollback(c)

Spec == Init /\ [][Next]_vars

-----------------------------------------------------------------------------
(* Properties *)

TypeOK ==
    /\ row \in [Requests -> Row]
    /\ holder \in Calls \cup {NoCall}
    /\ call \in [Calls -> Call]
    /\ started \in 0..MaxCalls /\ faults \in 0..MaxFaults
    /\ loose \subseteq Requests

\* "two requests cannot both pass the overlap check before either insert
\* commits": two active requests overlap only if one of them came through the
\* bot, or was closed and brought back by a decision that had read it before.
OverlapOnlyLoose ==
    \A r, q \in Requests :
        /\ r # q
        /\ {row[r].status, row[q].status} \subseteq ACTIVE_WFH_STATUSES
        /\ Calendar!Overlap(row[r].period, row[q].period)
        => {r, q} \cap loose # {}

\* "an approval/update race cannot bypass the pending-only rule": the period of
\* a request that has been decided never changes, although the decision locks
\* nothing.
DecidedKeepsPeriod ==
    [][\A r \in Requests :
          row[r].status \notin {"none", "pending"} => row'[r].period = row[r].period]_vars

\* Checking and saving, several statements apart, amount to booking or moving
\* the period in one step, a late decision never to more than a revival, and the
\* bot's submission to a request beside the rule.
ImplementsCalendar == Calendar!Spec
=============================================================================
