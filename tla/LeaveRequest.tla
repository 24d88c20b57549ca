---------------------------- MODULE LeaveRequest ----------------------------
(***************************************************************************)
(* The leave requests of one employee for one type of leave, and the       *)
(* balance they are charged to.  No handler opens a transaction or takes a *)
(* lock: each is a row of single statements, and a save writes the columns *)
(* that differ from what that handler fetched.  Days are counted in halves.*)
(***************************************************************************)
EXTENDS Integers, FiniteSets

CONSTANTS
    Calls,       \* handlers that may be in flight at once
    Requests, NoRequest,
    Balances, NoBalance,   \* rows of hr_leave_balances
    Days,        \* lengths a request may have
    Allowances,  \* days a template may grant in a year
    MaxYear, MaxCalls, MaxChanges, MaxFaults

ASSUME LeaveAssumption ==
    /\ IsFiniteSet(Calls) /\ IsFiniteSet(Balances)
    /\ NoRequest \notin Requests /\ NoBalance \notin Balances
    /\ Days \subseteq Nat \ {0} /\ Allowances \subseteq Nat
    /\ MaxYear \in Nat \ {0} /\ MaxCalls \in Nat /\ MaxChanges \in Nat /\ MaxFaults \in Nat

VARIABLES
    tpl,      \* the template of the type of leave
    row,      \* leave_requests
    balance,  \* hr_leave_balances; year 0 where there is no row
    year,     \* of the server's clock
    call,
    started, changes, faults,
    charged   \* history: the days charged to each balance

vars == <<tpl, row, balance, year, call, started, changes, faults, charged>>

\* A department head and a business admin share the first stage; HR has the last.
FirstStage == {"department_head", "business_admin"}
LeaveApprovalActor == FirstStage \cup {"hr"}

ExpectedStage(actor) == IF actor = "hr" THEN "admin" ELSE "dept_head"

Template == [open : BOOLEAN, hasAmount : BOOLEAN, totalDays : Allowances \cup {0}]

Statuses == {"none", "pending", "approved", "rejected", "cancelled"}
Stages   == {"none", "dept_head", "admin", "approved", "rejected", "cancelled"}
Place    == [status : Statuses, stage : Stages]

Row == [place : Place, signed : SUBSET LeaveApprovalActor, days : Days \cup {0}]

Balance == [year : 0..MaxYear, total : Nat, used : Nat, left : Nat]

NoRow     == [place |-> [status |-> "none", stage |-> "none"], signed |-> {}, days |-> 0]
NoAccount == [year |-> 0, total |-> 0, used |-> 0, left |-> 0]

PCs == {"idle", "find", "provision", "insert", "fetch", "write", "balance", "charge"}

\* to: where the handler moves the request; by: its actor, if it approves;
\* see: what it fetched; account, found: the balance it read.
Call == [pc : PCs, req : Requests \cup {NoRequest}, days : Days \cup {0}, tpl : Template,
         to : Place, by : LeaveApprovalActor \cup {"none"}, see : Place,
         year : 0..MaxYear, account : Balances \cup {NoBalance}, found : Balance]

NoTemplate == [open |-> FALSE, hasAmount |-> FALSE, totalDays |-> 0]

Idle == [pc |-> "idle", req |-> NoRequest, days |-> 0, tpl |-> NoTemplate,
         to |-> NoRow.place, by |-> "none", see |-> NoRow.place, year |-> 0,
         account |-> NoBalance, found |-> NoAccount]

Init ==
    /\ tpl \in {t \in Template : t.open /\ t.hasAmount}
    /\ row = [r \in Requests |-> NoRow]
    /\ balance = [b \in Balances |-> NoAccount]
    /\ year = 1
    /\ call = [c \in Calls |-> Idle]
    /\ started = 0 /\ changes = 0 /\ faults = 0
    /\ charged = [b \in Balances |-> 0]

Start(c, state) ==
    /\ call[c].pc = "idle"
    /\ started < MaxCalls
    /\ started' = started + 1
    /\ call' = [call EXCEPT ![c] = state]
    /\ UNCHANGED <<tpl, row, balance, year, changes, faults, charged>>

Goto(c, state) ==
    /\ call' = [call EXCEPT ![c] = state]
    /\ UNCHANGED <<tpl, year, started, changes, faults>>

-----------------------------------------------------------------------------
(* Submitting *)

beginSubmit(c, r, d) ==
    /\ row[r] = NoRow
    /\ \A other \in Calls : call[other].req # r
    /\ tpl.open
    /\ Start(c, [Idle EXCEPT !.pc = IF tpl.hasAmount THEN "find" ELSE "insert",
                             !.req = r, !.days = d, !.tpl = tpl])

AccountsOf(y) == {b \in Balances : balance[b].year = y}

\* Enough days left, or the handler throws.
Afford(c, left) ==
    IF left >= call[c].days THEN [call[c] EXCEPT !.pc = "insert"] ELSE Idle

\* Mutant: the balance is looked for under another year than it is stored.
FindMissing(c) ==
    /\ call[c].pc = "find"
    /\ Goto(c, [call[c] EXCEPT !.pc = "provision", !.year = year])
    /\ UNCHANGED <<row, balance, charged>>

\* findOne returns any row of the year.
findBalance(c) ==
    /\ call[c].pc = "find"
    /\ \/ /\ AccountsOf(year) = {}
          /\ Goto(c, [call[c] EXCEPT !.pc = "provision", !.year = year])
       \/ \E b \in AccountsOf(year) : Goto(c, Afford(c, balance[b].left))
    /\ UNCHANGED <<row, balance, charged>>

\* Mutant: the days asked for are reserved as used.
ProvisionReserved(c) ==
    /\ call[c].pc = "provision"
    /\ \E b \in AccountsOf(0) :
          balance' = [balance EXCEPT ![b] =
              [year |-> call[c].year, total |-> call[c].tpl.totalDays,
               used |-> call[c].days, left |-> call[c].tpl.totalDays]]
    /\ Goto(c, Afford(c, call[c].tpl.totalDays))
    /\ UNCHANGED <<row, charged>>

\* No unique index stands behind the search: two handlers may both create.
provision(c) ==
    /\ call[c].pc = "provision"
    /\ \E b \in AccountsOf(0) :
          balance' = [balance EXCEPT ![b] =
              [year |-> call[c].year, total |-> call[c].tpl.totalDays,
               used |-> 0, left |-> call[c].tpl.totalDays]]
    /\ Goto(c, Afford(c, call[c].tpl.totalDays))
    /\ UNCHANGED <<row, charged>>

insertRequest(c) ==
    /\ call[c].pc = "insert"
    /\ row' = [row EXCEPT ![call[c].req] =
                 [place |-> [status |-> "pending", stage |-> "dept_head"], signed |-> {},
                  days |-> call[c].days]]
    /\ Goto(c, Idle)
    /\ UNCHANGED <<balance, charged>>

-----------------------------------------------------------------------------
(* Deciding: the request is read and checked, fetched again, then written *)

Decide(c, r, to, actor) ==
    Start(c, [Idle EXCEPT !.pc = "fetch", !.req = r, !.days = row[r].days, !.tpl = tpl,
                          !.to = to, !.by = actor])

Pending(r, actor) == row[r].place = [status |-> "pending", stage |-> ExpectedStage(actor)]

After(actor) ==
    IF actor = "hr" THEN [status |-> "approved", stage |-> "approved"]
    ELSE [status |-> "pending", stage |-> "admin"]

\* Mutant: any approver acts at any stage.
ApproveAnyStage(c, r, actor) ==
    /\ row[r].place.status = "pending"
    /\ Decide(c, r, After(actor), actor)

beginApprove(c, r, actor) == Pending(r, actor) /\ Decide(c, r, After(actor), actor)

beginReject(c, r, actor) ==
    /\ Pending(r, actor)
    /\ Decide(c, r, [status |-> "rejected", stage |-> "rejected"], "none")

beginCancel(c, r) ==
    /\ row[r].place.status \notin {"none", "approved", "rejected"}
    /\ Decide(c, r, [status |-> "cancelled", stage |-> "cancelled"], "none")

fetch(c) ==
    /\ call[c].pc = "fetch"
    /\ Goto(c, [call[c] EXCEPT !.pc = "write", !.see = row[call[c].req].place])
    /\ UNCHANGED <<row, balance, charged>>

\* A column that already has its value in the fetched copy is not written, and
\* may have another one in the table by now.
Saved(old, see, to) ==
    [status |-> IF see.status = to.status THEN old.status ELSE to.status,
     stage  |-> IF see.stage = to.stage THEN old.stage ELSE to.stage]

write(c) ==
    LET cl == call[c]
    IN  /\ cl.pc = "write"
        /\ row' = [row EXCEPT ![cl.req].place = Saved(@, cl.see, cl.to),
                              ![cl.req].signed = @ \cup ({cl.by} \ {"none"})]
        /\ Goto(c, IF cl.by = "hr" /\ cl.tpl.hasAmount THEN [cl EXCEPT !.pc = "balance"] ELSE Idle)
        /\ UNCHANGED <<balance, charged>>

-----------------------------------------------------------------------------
(* Charging an approved request *)

\* The balance of the year in which HR approves; without one nothing is charged.
findCharged(c) ==
    /\ call[c].pc = "balance"
    /\ \/ AccountsOf(year) = {} /\ Goto(c, Idle)
       \/ \E b \in AccountsOf(year) :
             Goto(c, [call[c] EXCEPT !.pc = "charge", !.account = b, !.found = balance[b]])
    /\ UNCHANGED <<row, balance, charged>>

Left(found, d) == IF found.left > d THEN found.left - d ELSE 0

Charge(c, used, left) ==
    LET b == call[c].account
    IN  /\ call[c].pc = "charge"
        /\ balance' = [balance EXCEPT ![b].used = used, ![b].left = left]
        /\ charged' = [charged EXCEPT ![b] = @ + call[c].days]
        /\ Goto(c, Idle)
        /\ UNCHANGED row

\* Mutant: the days left may become negative.
ChargeBelowZero(c) ==
    Charge(c, call[c].found.used + call[c].days, call[c].found.left - call[c].days)

\* Mutant: the days left are decremented in the table, the days used are not.
ChargeDecrement(c) ==
    LET b == call[c].account
    IN  call[c].pc = "charge" /\ Charge(c, call[c].found.used + call[c].days,
                                        Left(balance[b], call[c].days))

\* Computed from what was found.  Where no day was left that column is unchanged
\* in the handler's copy, and not written.
charge(c) ==
    LET found == call[c].found
    IN  /\ call[c].pc = "charge"
        /\ Charge(c, found.used + call[c].days,
                  IF found.left = 0 THEN balance[call[c].account].left
                  ELSE Left(found, call[c].days))

-----------------------------------------------------------------------------
(* Surroundings *)

\* HR edits, switches or retires the template.
changeTemplate(t) ==
    /\ changes < MaxChanges
    /\ changes' = changes + 1
    /\ tpl' = t
    /\ UNCHANGED <<row, balance, year, call, started, faults, charged>>

NextYear ==
    /\ year < MaxYear
    /\ year' = year + 1
    /\ UNCHANGED <<tpl, row, balance, call, started, changes, faults, charged>>

\* A statement fails or the process dies; what was written stays.
Fail(c) ==
    /\ call[c].pc # "idle"
    /\ faults < MaxFaults
    /\ faults' = faults + 1
    /\ call' = [call EXCEPT ![c] = Idle]
    /\ UNCHANGED <<tpl, row, balance, year, started, changes, charged>>

Next ==
    \/ \E c \in Calls, r \in Requests :
          \/ \E d \in Days : beginSubmit(c, r, d)
          \/ \E actor \in LeaveApprovalActor : beginApprove(c, r, actor) \/ beginReject(c, r, actor)
          \/ beginCancel(c, r)
    \/ \E c \in Calls :
          \/ findBalance(c) \/ provision(c) \/ insertRequest(c)
          \/ fetch(c) \/ write(c) \/ findCharged(c) \/ charge(c) \/ Fail(c)
    \/ \E t \in Template : changeTemplate(t)
    \/ NextYear

Spec == Init /\ [][Next]_vars

-----------------------------------------------------------------------------
(* Properties *)

TypeOK ==
    /\ tpl \in Template
    /\ row \in [Requests -> Row]
    /\ balance \in [Balances -> Balance]
    /\ year \in 1..MaxYear
    /\ call \in [Calls -> Call]
    /\ started \in 0..MaxCalls /\ changes \in 0..MaxChanges /\ faults \in 0..MaxFaults
    /\ charged \in [Balances -> Nat]

\* "dept_head -> admin -> approved": however stale the handlers that write it,
\* an approved request bears HR's signature and one of the first stage.
ApprovedIsSigned ==
    \A r \in Requests :
        row[r].place.status = "approved" =>
            "hr" \in row[r].signed /\ row[r].signed \cap FirstStage # {}

\* Charges that overwrite one another never make days vanish from a balance:
\* what is neither left nor used is nowhere lost.
AllowanceAccounted == \A b \in Balances : balance[b].used + balance[b].left >= balance[b].total

\* Nor do they charge the employee more than the approvals add up to.
NoMoreThanCharged == \A b \in Balances : balance[b].used <= charged[b]

\* A year has a second balance only because several submissions looked for the
\* first one at the same time.
AccountsOnlyByRace == \A y \in 1..MaxYear : Cardinality(AccountsOf(y)) <= Cardinality(Calls)
=============================================================================
