--------------------------- MODULE EmploymentChange ---------------------------
(***************************************************************************)
(* Employment-change requests of one employee: submission, the approval    *)
(* chain, counter-offers, edits, cancellation, deletion, the effective-date *)
(* job and the immediate title change.                                     *)
(*                                                                         *)
(* Nothing in src/modules/employmentChange runs in a transaction or takes a *)
(* lock.  A handler reads the request row into an instance (the snapshot), *)
(* checks it, and writes later, so an operation is two or more steps here  *)
(* and other handlers run between them.  instance.update(v) writes only    *)
(* the columns whose value differs from the snapshot, by primary key alone: *)
(* it neither re-checks the status nor the soft-delete mark (see Col).     *)
(*                                                                         *)
(* The data is abstracted: a target title is the request that asks for it, *)
(* an amount is a small number, a date is a day number, and zero stands    *)
(* for a null recommendedSalary or requestedSalary.                        *)
(***************************************************************************)
EXTENDS Naturals, Sequences, FiniteSets

CONSTANTS
    Reqs,           \* request ids
    Calls,          \* concurrent HTTP calls
    Job,            \* the effective-date job
    Users,          \* users of the business
    NoUser,         \* null user id
    Employee,       \* the employee the requests are about
    Manager,        \* EmployeeRecord.managerUserId, or NoUser
    RolesOf,        \* user -> set of role keys
    Salaries,       \* amounts a request or a counter-offer may name
    InitialSalary,  \* salary of the employee at the start
    UsedKinds,      \* request kinds a run submits
    MaxDay,         \* bound: last day of the calendar
    MaxCalls,       \* bound: calls started in a behaviour
    MaxFaults       \* bound: calls that die half way

Procs     == Calls \cup {Job}
Kinds     == {"TITLE", "SALARY", "COMBINED"}
RoleKeys  == {"HR_MANAGER", "FINANCE_MANAGER", "BUSINESS_ADMIN"}
NoRole    == "none"
NoReq     == "none"
Stages    == {"MANAGER", "HR", "FINANCE", "ADMIN"}
Completed == "COMPLETED"
Days      == 0 .. MaxDay
Amounts   == Salaries \cup {0, InitialSalary}

Open      == {"PENDING", "APPROVED", "SCHEDULED"}
Terminal  == {"APPLIED", "REJECTED", "CANCELLED"}
Statuses  == Open \cup Terminal \cup {"ABSENT", "DESTROYED"}
InForce   == {"APPROVED", "SCHEDULED", "APPLIED"}

ASSUME EmploymentChangeAssumption ==
    /\ Job \notin Calls
    /\ NoReq \notin Reqs
    /\ NoUser \notin Users
    /\ Employee \in Users
    /\ Manager \in (Users \cup {NoUser})
    /\ RolesOf \in [Users -> SUBSET RoleKeys]
    /\ Salaries \subseteq Nat \ {0}
    /\ InitialSalary \in Nat
    /\ UsedKinds \subseteq Kinds
    /\ MaxDay \in Nat /\ MaxCalls \in Nat /\ MaxFaults \in Nat

VARIABLES
    row,      \* hr_employment_change_requests, by id
    acts,     \* approval rows of hr_employment_change_actions
    emp,      \* the employee record: title in force, base salary
    call,     \* the handlers in flight, with their snapshots
    due,      \* snapshots the running job still has to apply
    today,    \* todayYmd()
    started,  \* calls started, bounded by MaxCalls
    faults    \* calls that died, bounded by MaxFaults

vars == <<row, acts, emp, call, due, today, started, faults>>

-----------------------------------------------------------------------------
(* Roles and the approval chain *)

UsersWith(key) == {u \in Users : key \in RolesOf[u]}

UserAt(stage) == IF stage = "MANAGER" THEN Manager ELSE NoUser

RoleAt(stage) ==
    CASE stage = "HR"      -> "HR_MANAGER"
      [] stage = "FINANCE" -> "FINANCE_MANAGER"
      [] stage = "ADMIN"   -> "BUSINESS_ADMIN"
      [] OTHER             -> NoRole

HasTitle(kind)  == kind \in {"TITLE", "COMBINED"}
HasSalary(kind) == kind \in {"SALARY", "COMBINED"}

\* Mutant: a stage is asked for although nobody holds its role.
RoleStageUnstaffed(stage, u, authority) ==
    IF RolesOf[u] \cap authority = {} THEN <<stage>> ELSE << >>

\* A role stage is in the chain unless the requester already has that
\* authority, or nobody has it.
RoleStage(stage, u, authority) ==
    IF RolesOf[u] \cap authority = {} /\ UsersWith(RoleAt(stage)) # {}
    THEN <<stage>> ELSE << >>

BuildApprovalChain(u, kind) ==
    (IF Manager \notin {NoUser, u} THEN <<"MANAGER">> ELSE << >>)
    \o RoleStage("HR", u, {"HR_MANAGER", "BUSINESS_ADMIN"})
    \o (IF HasSalary(kind)
        THEN RoleStage("FINANCE", u, {"FINANCE_MANAGER", "BUSINESS_ADMIN"})
        ELSE << >>)
    \o RoleStage("ADMIN", u, {"BUSINESS_ADMIN"})

\* submissionPolicy.validate and canInitiateFor
MayInitiate(u) ==
    /\ "BUSINESS_ADMIN" \notin RolesOf[u]
    /\ UsersWith("BUSINESS_ADMIN") # {}
    /\ u \in {Employee, Manager} \/ "HR_MANAGER" \in RolesOf[u]

MayCancel(u) == RolesOf[u] \cap {"HR_MANAGER", "BUSINESS_ADMIN"} # {}

CanActAsCurrentApprover(u, req) ==
    IF req.apprUser # NoUser THEN u = req.apprUser ELSE req.apprRole \in RolesOf[u]

Visible(r) == row[r].status \notin {"ABSENT", "DESTROYED"} /\ ~row[r].deleted

\* Mutant: the counter-offer is added to the request instead of replacing it.
FinalSalarySummed(req) == req.rec + req.amount

FinalSalary(req) == IF req.rec # 0 THEN req.rec ELSE req.amount

ApprovedStages(r) == {a.stage : a \in {b \in acts : b.req = r}}

FullyApproved(r) ==
    \A k \in DOMAIN row[r].chain : row[r].chain[k] \in ApprovedStages(r)

-----------------------------------------------------------------------------
(* Rows, calls and the initial state *)

RowType ==
    [status : Statuses, deleted : BOOLEAN, by : Users \cup {NoUser}, kind : Kinds,
     amount : Amounts, rec : Amounts, base : Amounts, date : Days,
     stage : Stages \cup {Completed}, apprUser : Users \cup {NoUser},
     apprRole : RoleKeys \cup {NoRole}, chain : Seq(Stages), idx : Nat]

NoRow ==
    [status |-> "ABSENT", deleted |-> FALSE, by |-> NoUser, kind |-> "TITLE",
     amount |-> 0, rec |-> 0, base |-> 0, date |-> 0, stage |-> Completed,
     apprUser |-> NoUser, apprRole |-> NoRole, chain |-> << >>, idx |-> 1]

PCs == {"idle", "insert", "offer", "recheck", "log", "move", "reject", "cancel",
        "delete", "update", "title", "salary", "mark", "immTitle", "immLog"}

CallType ==
    [pc : PCs, user : Users \cup {NoUser}, req : Reqs \cup {NoReq}, snap : RowType]

Idle == [pc |-> "idle", user |-> NoUser, req |-> NoReq, snap |-> NoRow]

DueType == [req : Reqs, snap : RowType]

Init ==
    /\ row = [r \in Reqs |-> NoRow]
    /\ acts = {}
    /\ emp = [title |-> NoReq, salary |-> InitialSalary]
    /\ call = [p \in Procs |-> Idle]
    /\ due = {}
    /\ today = 0
    /\ started = 0
    /\ faults = 0

\* A column of instance.update(): written only when it differs from the snapshot.
Col(old, new, current) == IF new = old THEN current ELSE new

\* A new call: it has read the row, and goes on at pc.
Start(c, u, r, pc, snap) ==
    /\ call[c].pc = "idle"
    /\ started < MaxCalls
    /\ started' = started + 1
    /\ call' = [call EXCEPT ![c] = [pc |-> pc, user |-> u, req |-> r, snap |-> snap]]
    /\ UNCHANGED <<row, acts, emp, due, today, faults>>

Save(r, new) == row' = [row EXCEPT ![r] = new]

Goto(p, pc) == call' = [call EXCEPT ![p].pc = pc]
Finish(p)   == call' = [call EXCEPT ![p] = Idle]

-----------------------------------------------------------------------------
(* create: the duplicate check, then the insert *)

BeginCreate(c, u, kind, amount, date) ==
    /\ MayInitiate(u)
    /\ \A r \in Reqs : ~(Visible(r) /\ row[r].status \in Open)
    /\ IF HasSalary(kind) THEN amount > emp.salary ELSE amount = 0
    /\ LET chain == BuildApprovalChain(u, kind)
       IN  Start(c, u, NoReq, "insert",
                 [NoRow EXCEPT !.status = "PENDING", !.by = u, !.kind = kind,
                               !.amount = amount, !.date = date,
                               !.base = IF HasSalary(kind) THEN emp.salary ELSE 0,
                               !.stage = chain[1], !.apprUser = UserAt(chain[1]),
                               !.apprRole = RoleAt(chain[1]), !.chain = chain])

Insert(c, r) ==
    /\ call[c].pc = "insert"
    /\ row[r].status = "ABSENT"
    /\ Save(r, call[c].snap)
    /\ Finish(c)
    /\ UNCHANGED <<acts, emp, due, today, started, faults>>

-----------------------------------------------------------------------------
(* approve and counter, which share decide *)

AwaitingApprovalOf(u, r) ==
    /\ Visible(r)
    /\ row[r].status = "PENDING"
    /\ CanActAsCurrentApprover(u, row[r])

BeginApprove(c, u, r) ==
    /\ AwaitingApprovalOf(u, r)
    /\ Start(c, u, r, "log", row[r])

\* The controller's canCounter check.
BeginCounter(c, u, r) ==
    /\ AwaitingApprovalOf(u, r)
    /\ HasSalary(row[r].kind)
    /\ Start(c, u, r, "offer", row[r])

\* counter: writes the offer with no check of status or approver.
Offer(c, amount) ==
    /\ call[c].pc = "offer"
    /\ amount > call[c].snap.base
    /\ IF Visible(call[c].req)
       THEN /\ Save(call[c].req, [row[call[c].req] EXCEPT !.rec = amount])
            /\ Goto(c, "recheck")
       ELSE /\ Finish(c)
            /\ UNCHANGED row
    /\ UNCHANGED <<acts, emp, due, today, started, faults>>

\* decide's own read, after a counter-offer was stored.
Recheck(c) ==
    /\ call[c].pc = "recheck"
    /\ IF AwaitingApprovalOf(call[c].user, call[c].req)
       THEN call' = [call EXCEPT ![c].pc = "log", ![c].snap = row[call[c].req]]
       ELSE Finish(c)
    /\ UNCHANGED <<row, acts, emp, due, today, started, faults>>

LogApproval(c) ==
    /\ call[c].pc = "log"
    /\ acts' = acts \cup {[req   |-> call[c].req, stage |-> call[c].snap.stage,
                           actor |-> call[c].user]}
    /\ Goto(c, "move")
    /\ UNCHANGED <<row, emp, due, today, started, faults>>

\* Mutants: the index is incremented where it is now instead of set from the
\* snapshot; the previous approver's user id is left in place.
RetargetFromRow(req, snap) ==
    LET next == snap.chain[snap.idx + 1]
    IN  [req EXCEPT !.stage    = Col(snap.stage, next, @),
                    !.apprUser = Col(snap.apprUser, UserAt(next), @),
                    !.apprRole = Col(snap.apprRole, RoleAt(next), @),
                    !.idx      = @ + 1]

RetargetKeepingUser(req, snap) ==
    LET next == snap.chain[snap.idx + 1]
    IN  [req EXCEPT !.stage    = Col(snap.stage, next, @),
                    !.apprRole = Col(snap.apprRole, RoleAt(next), @),
                    !.idx      = snap.idx + 1]

\* The columns setApprovalTarget(currentIndex + 1) writes: never the status.
Retarget(req, snap) ==
    LET next == snap.chain[snap.idx + 1]
    IN  [req EXCEPT !.stage    = Col(snap.stage, next, @),
                    !.apprUser = Col(snap.apprUser, UserAt(next), @),
                    !.apprRole = Col(snap.apprRole, RoleAt(next), @),
                    !.idx      = snap.idx + 1]

SetApprovalTarget(c) ==
    /\ call[c].pc = "move"
    /\ call[c].snap.idx < Len(call[c].snap.chain)
    /\ Save(call[c].req, Retarget(row[call[c].req], call[c].snap))
    /\ Finish(c)
    /\ UNCHANGED <<acts, emp, due, today, started, faults>>

\* Where applyRequest starts writing for a request of this kind.
FirstWrite(kind) == IF HasTitle(kind) THEN "title" ELSE "salary"

\* A new status, and nobody left to approve.
Settled(req, snap, status, stage) ==
    [req EXCEPT !.status   = status,
                !.stage    = stage,
                !.apprUser = Col(snap.apprUser, NoUser, @),
                !.apprRole = Col(snap.apprRole, NoRole, @)]

\* Mutant: the last stage is taken for approved one stage early.
FinalizeOneStageEarly(c) ==
    /\ call[c].pc = "move"
    /\ call[c].snap.idx >= Len(call[c].snap.chain) - 1
    /\ Save(call[c].req, Settled(row[call[c].req], call[c].snap, "APPROVED", Completed))
    /\ Goto(c, FirstWrite(call[c].snap.kind))
    /\ UNCHANGED <<acts, emp, due, today, started, faults>>

\* A future date is left to the job; otherwise this call goes on to apply.
FinalizeApproval(c) ==
    /\ call[c].pc = "move"
    /\ call[c].snap.idx >= Len(call[c].snap.chain)
    /\ LET r    == call[c].req
           snap == call[c].snap
       IN  IF snap.date > today
           THEN /\ Save(r, Settled(row[r], snap, "SCHEDULED", Completed))
                /\ Finish(c)
           ELSE /\ Save(r, Settled(row[r], snap, "APPROVED", Completed))
                /\ Goto(c, FirstWrite(snap.kind))
    /\ UNCHANGED <<acts, emp, due, today, started, faults>>

-----------------------------------------------------------------------------
(* applyRequest, by the call that finalized or by the job *)

ApplyTitle(p) ==
    /\ call[p].pc = "title"
    /\ emp' = [emp EXCEPT !.title = call[p].req]
    /\ Goto(p, IF HasSalary(call[p].snap.kind) THEN "salary" ELSE "mark")
    /\ UNCHANGED <<row, acts, due, today, started, faults>>

ApplySalary(p) ==
    /\ call[p].pc = "salary"
    /\ emp' = [emp EXCEPT !.salary = FinalSalary(call[p].snap)]
    /\ Goto(p, "mark")
    /\ UNCHANGED <<row, acts, due, today, started, faults>>

\* The whole metadata column goes back with the snapshot's approvalIndex.
MarkApplied(p) ==
    /\ call[p].pc = "mark"
    /\ Save(call[p].req, [row[call[p].req] EXCEPT !.status = "APPLIED",
                                                  !.idx    = call[p].snap.idx])
    /\ Finish(p)
    /\ UNCHANGED <<acts, emp, due, today, started, faults>>

\* Mutants: the job also takes requests nobody approved yet; it waits until the
\* day after the effective date.
IsDueAnyOpen(r) == Visible(r) /\ row[r].status \in Open /\ row[r].date <= today

IsDueTomorrow(r) == Visible(r) /\ row[r].status = "SCHEDULED" /\ row[r].date < today

\* applyDueChanges: one query, then each row from the stale result.
IsDue(r) == Visible(r) /\ row[r].status = "SCHEDULED" /\ row[r].date <= today

JobScan ==
    /\ call[Job].pc = "idle"
    /\ due = {}
    /\ \E r \in Reqs : IsDue(r)
    /\ due' = {[req |-> r, snap |-> row[r]] : r \in {q \in Reqs : IsDue(q)}}
    /\ UNCHANGED <<row, acts, emp, call, today, started, faults>>

JobNext ==
    /\ call[Job].pc = "idle"
    /\ \E d \in due :
          /\ \A e \in due : d.snap.date <= e.snap.date
          /\ call' = [call EXCEPT ![Job] =
                        [pc |-> FirstWrite(d.snap.kind), user |-> NoUser,
                         req |-> d.req, snap |-> d.snap]]
          /\ due' = due \ {d}
    /\ UNCHANGED <<row, acts, emp, today, started, faults>>

-----------------------------------------------------------------------------
(* reject, cancel, deleteOwn, updateOwn *)

BeginReject(c, u, r) ==
    /\ AwaitingApprovalOf(u, r)
    /\ Start(c, u, r, "reject", row[r])

BeginCancel(c, u, r) ==
    /\ Visible(r)
    /\ row[r].status \notin Terminal
    /\ MayCancel(u)
    /\ Start(c, u, r, "cancel", row[r])

\* REJECTED or CANCELLED: the approver columns are nulled with the status.
Close(c, pc, status) ==
    /\ call[c].pc = pc
    /\ LET req == row[call[c].req]
       IN  Save(call[c].req, Settled(req, call[c].snap, status, req.stage))
    /\ Finish(c)
    /\ UNCHANGED <<acts, emp, due, today, started, faults>>

Reject(c) == Close(c, "reject", "REJECTED")
Cancel(c) == Close(c, "cancel", "CANCELLED")

BeginDelete(c, u, r) ==
    /\ Visible(r)
    /\ row[r].by = u
    /\ row[r].status \in {"PENDING", "CANCELLED"}
    /\ Start(c, u, r, "delete", row[r])

DeleteOwn(c) ==
    /\ call[c].pc = "delete"
    /\ Save(call[c].req, [row[call[c].req] EXCEPT !.deleted = TRUE])
    /\ Finish(c)
    /\ UNCHANGED <<acts, emp, due, today, started, faults>>

\* ensureEditable: pending, first stage, and no reviewing action on record.
BeginUpdate(c, u, r) ==
    /\ Visible(r)
    /\ row[r].by = u
    /\ row[r].status = "PENDING"
    /\ row[r].idx = 1
    /\ ApprovedStages(r) = {}
    /\ Start(c, u, r, "update", row[r])

\* The chain is kept; metadata goes back as it was read, approvalIndex included.
Edited(req, snap, amount, date) ==
    [req EXCEPT !.amount = Col(snap.amount, amount, @),
                !.date   = Col(snap.date, date, @),
                !.rec    = Col(snap.rec, 0, @),
                !.idx    = snap.idx]

UpdateOwn(c, amount, date) ==
    /\ call[c].pc = "update"
    /\ IF HasSalary(call[c].snap.kind) THEN amount > call[c].snap.base ELSE amount = 0
    /\ Save(call[c].req, Edited(row[call[c].req], call[c].snap, amount, date))
    /\ Finish(c)
    /\ UNCHANGED <<acts, emp, due, today, started, faults>>

-----------------------------------------------------------------------------
(* immediateTitleChange: the row is born APPLIED, then the title is written *)

BeginImmediate(c, u, r) ==
    /\ MayCancel(u)
    /\ call[c].pc = "idle"
    /\ started < MaxCalls
    /\ row[r].status = "ABSENT"
    /\ Save(r, [NoRow EXCEPT !.status = "APPLIED", !.by = u, !.date = today])
    /\ call' = [call EXCEPT ![c] = [Idle EXCEPT !.pc = "immTitle", !.user = u,
                                                !.req = r]]
    /\ started' = started + 1
    /\ UNCHANGED <<acts, emp, due, today, faults>>

ImmediateTitle(c) ==
    /\ call[c].pc = "immTitle"
    /\ emp' = [emp EXCEPT !.title = call[c].req]
    /\ Goto(c, "immLog")
    /\ UNCHANGED <<row, acts, due, today, started, faults>>

ImmediateDone(c) ==
    /\ call[c].pc = "immLog"
    /\ Finish(c)
    /\ UNCHANGED <<row, acts, emp, due, today, started, faults>>

\* The catch block: destroy({force: true}), even when the title was written.
ImmediateFails(c) ==
    /\ call[c].pc \in {"immTitle", "immLog"}
    /\ faults < MaxFaults
    /\ Save(call[c].req, [NoRow EXCEPT !.status = "DESTROYED"])
    /\ Finish(c)
    /\ faults' = faults + 1
    /\ UNCHANGED <<acts, emp, due, today, started>>

-----------------------------------------------------------------------------
(* The environment: the calendar, and a call that dies between two awaits *)

NextDay ==
    /\ today < MaxDay
    /\ today' = today + 1
    /\ UNCHANGED <<row, acts, emp, call, due, started, faults>>

\* An exception of the payroll service, the database or a notification, or a
\* crash of the process: what was written stays written.
Abort(p) ==
    /\ call[p].pc # "idle"
    /\ faults < MaxFaults
    /\ faults' = faults + 1
    /\ Finish(p)
    /\ \/ due' = due
       \/ p = Job /\ due' = {}   \* the worker restarts
    /\ UNCHANGED <<row, acts, emp, today, started>>

-----------------------------------------------------------------------------
(* The specification *)

UserCall(c, u) ==
    \/ \E kind \in UsedKinds, amount \in Salaries \cup {0}, date \in Days :
          BeginCreate(c, u, kind, amount, date)
    \/ \E r \in Reqs :
          \/ BeginApprove(c, u, r)
          \/ BeginReject(c, u, r)
          \/ BeginCancel(c, u, r)
          \/ BeginDelete(c, u, r)
          \/ BeginImmediate(c, u, r)
          \/ BeginCounter(c, u, r)
          \/ BeginUpdate(c, u, r)

CallStep(c) ==
    \/ \E r \in Reqs : Insert(c, r)
    \/ \E amount \in Salaries : Offer(c, amount)
    \/ Recheck(c)
    \/ LogApproval(c)
    \/ SetApprovalTarget(c)
    \/ FinalizeApproval(c)
    \/ Reject(c)
    \/ Cancel(c)
    \/ DeleteOwn(c)
    \/ \E amount \in Salaries \cup {0}, date \in Days : UpdateOwn(c, amount, date)
    \/ ImmediateTitle(c)
    \/ ImmediateDone(c)

ApplyStep(p) == ApplyTitle(p) \/ ApplySalary(p) \/ MarkApplied(p)

JobStep == JobScan \/ JobNext \/ ApplyStep(Job)

Next ==
    \/ \E c \in Calls, u \in Users : UserCall(c, u)
    \/ \E c \in Calls : CallStep(c) \/ ApplyStep(c) \/ ImmediateFails(c)
    \/ JobStep
    \/ NextDay
    \/ \E p \in Procs : Abort(p)

Spec == Init /\ [][Next]_vars

\* The event loop runs every started handler, cron fires every night and days
\* pass; nobody is obliged to submit or approve anything.
Fairness ==
    /\ \A c \in Calls : WF_vars(CallStep(c)) /\ WF_vars(ApplyStep(c))
    /\ WF_vars(JobStep)
    /\ WF_vars(NextDay)

FairSpec == Spec /\ Fairness
-----------------------------------------------------------------------------
(* Properties *)

ActType == [req : Reqs, stage : Stages, actor : Users]

TypeOK ==
    /\ row \in [Reqs -> RowType]
    /\ acts \subseteq ActType
    /\ emp \in [title : Reqs \cup {NoReq}, salary : Amounts]
    /\ call \in [Procs -> CallType]
    /\ due \subseteq DueType
    /\ today \in Days
    /\ started \in 0 .. MaxCalls
    /\ faults \in 0 .. MaxFaults

\* A request is approved, scheduled or applied only when every stage of its
\* chain has an approval on record: two approvers at once, an edit that writes
\* an old approvalIndex back, or a call that dies, never skip a stage.
NoStageSkipped ==
    \A r \in Reqs : row[r].status \in InForce => FullyApproved(r)

\* Every recorded approval is by somebody the stage belongs to, and never by
\* the one who asked: the stage, user and role columns stay in step although
\* each is written on its own.
ApprovedByTheRightPerson ==
    \A a \in acts :
        /\ a.actor # row[a.req].by
        /\ IF a.stage = "MANAGER" THEN a.actor = Manager
           ELSE RoleAt(a.stage) \in RolesOf[a.actor]

\* A pending request always waits for somebody: its approver columns name the
\* manager or a role that some user holds, whatever was nulled by late writes.
NoOrphanedRequest ==
    \A r \in Reqs : row[r].status = "PENDING" =>
        \E u \in Users : CanActAsCurrentApprover(u, row[r])

\* The base salary moves only to an amount of a request whose chain is fully
\* approved, whichever process writes it and however old its snapshot is.
SalaryOnlyWithApproval ==
    [][emp'.salary # emp.salary =>
          \E p \in Procs : /\ call[p].pc = "salary"
                           /\ FullyApproved(call[p].req)
                           /\ emp'.salary > call[p].snap.base]_vars

\* A scheduled request does not stay scheduled: the nightly job applies it,
\* also after a failed attempt, unless it is cancelled or deleted first.
ScheduledSettles ==
    \A r \in Reqs :
        (row[r].status = "SCHEDULED" /\ ~row[r].deleted)
            ~> (row[r].status # "SCHEDULED" \/ row[r].deleted)

\* "This employee already has an active employment change request."
OneOpenRequest ==
    Cardinality({r \in Reqs : Visible(r) /\ row[r].status \in Open}) <= 1

\* "Only pending requests can be approved.": a request becomes APPROVED or
\* SCHEDULED from PENDING only, never after it was rejected or cancelled.
OnlyPendingApproved ==
    [][\A r \in Reqs :
          row'[r].status \in {"APPROVED", "SCHEDULED"} /\ row[r].status \in Terminal
             => row'[r].status = row[r].status]_vars

\* The handlers implement the ledger of EmploymentLedger: whatever their
\* snapshots, the stages of a chain sign in order, no signature is lost, and
\* nothing is in force or paid before the whole chain has signed.
Ledger ==
    INSTANCE EmploymentLedger WITH
        chain   <- [r \in Reqs |-> row[r].chain],
        signed  <- [r \in Reqs |-> ApprovedStages(r)],
        inForce <- [r \in Reqs |-> row[r].status \in InForce],
        salary  <- emp.salary

ImplementsLedger == Ledger!Spec
=============================================================================
