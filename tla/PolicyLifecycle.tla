-------------------------- MODULE PolicyLifecycle --------------------------
(***************************************************************************)
(* One policy document of one business: its workflow, its versions, the    *)
(* acceptances of its readers, its public links, and the jobs that publish *)
(* scheduled documents and mark late acceptances.                          *)
(*                                                                         *)
(* The workflow handlers lock the document's row (SELECT ... FOR UPDATE)   *)
(* and are one step each, except publication, which writes an obligation   *)
(* for every employee while it holds the lock. Readers' handlers do not    *)
(* lock: they read the row in one step and write in a later one.           *)
(***************************************************************************)
EXTENDS PolicyAssignment, Sequences, FiniteSets

CONSTANTS
    Calls,        \* handlers that may be in flight at once
    Users,        \* people of the business
    SuperAdmins,  \* those who may approve what they submitted
    Profiles,     \* the active employees: their user and what names them
    NoUser, NoDay,
    Job, Nobody,  \* who may hold the row lock besides a call: the job, no one
    Rules,        \* assignment rules a document may get
    RuleLists,    \* the lists of rules an update may install
    EditedDates,  \* dates an edit may give as effectiveFrom
    BatchSize,    \* how many due documents a run of the job reads (policyJobBatchSize)
    Grace,        \* days to answer when the version names no date
    MaxVersion,   \* bound on versions
    MaxDay,       \* bound on days
    MaxCalls,     \* bound on operations started
    MaxFaults     \* bound on rollbacks

Employees == {p.user : p \in Profiles}

Days == 0..MaxDay

ASSUME PolicyAssumption ==
    /\ NoUser \notin Users
    /\ NoDay \notin Nat
    /\ Job \notin Calls
    /\ Nobody \notin Calls \cup {Job}
    /\ SuperAdmins \subseteq Users
    /\ Employees \subseteq Users
    /\ RuleLists \subseteq SUBSET Rules
    /\ EditedDates \subseteq Days \cup {NoDay}
    /\ {Grace, MaxDay, MaxCalls, MaxFaults} \subseteq Nat
    /\ {BatchSize, MaxVersion} \subseteq Nat \ {0}

VARIABLES
    policy,     \* the document's row
    vfrom,      \* effectiveFrom of each version row, in order
    frozen,     \* per version, the employees its assignment snapshot names
    acc,        \* acceptance rows of a version and a user
    shares,     \* public links, oldest first
    rules,      \* assignment rows: a rule, and the update that wrote it
    call,       \* handlers in flight
    pub,        \* the publication that holds the row's lock, if any
    found,      \* whether the job has picked the document from its query
    late,       \* acceptance rows the overdue job has picked
    platform,   \* what stands between the publishing job and the document
    today,
    started,
    faults,
    review,     \* approvedByUserId, with what was approved and who had sent it
    published   \* history: the versions that have been published

vars == <<policy, vfrom, frozen, acc, shares, rules, call, pub, found, late,
          platform, today, started, faults, review, published>>

Versions == 1..MaxVersion
Statuses == {"draft", "in_review", "changes_requested", "approved",
             "scheduled", "published", "superseded", "archived"}
Reviewed == {"approved", "scheduled", "published"}
Open     == {"pending", "overdue"}
Answered == {"accepted", "signed"}

PolicyRow == [status : Statuses, deleted : BOOLEAN, version : Versions,
              by : Users \cup {NoUser}, sig : BOOLEAN, from : Days \cup {NoDay},
              shared : BOOLEAN, count : Nat]
AccRow    == [status : Open \cup Answered, due : Nat \cup {NoDay}]
Share     == [version : Versions, enabled : BOOLEAN]
PCs       == {"idle", "publish", "accept", "sign", "answer", "share", "revoke", "assign"}
Call      == [pc : PCs, user : Users \cup {NoUser}, to : Answered,
              version : Versions, row : Nat, shared : BOOLEAN,
              seen : SUBSET (Rules \X Nat), list : SUBSET Rules]

\* Whether the business and its policy module are active; whether the runner
\* has the job left in activeJobs; how many due documents that the job only
\* skips have an earlier date.
Platform == [active : BOOLEAN, jammed : BOOLEAN, ahead : 0..BatchSize]

NoPub   == [by |-> Nobody, targets |-> {}, todo |-> {}, new |-> {}]
IdleCall == [pc |-> "idle", user |-> NoUser, to |-> "accepted", version |-> 1,
             row |-> 0, shared |-> FALSE, seen |-> {}, list |-> {}]
NoReview == [text |-> 0, by |-> NoUser, reviewer |-> NoUser]

\* createPolicy: a draft, and its first version row.
Init ==
    /\ \E sig \in BOOLEAN :
          policy = [status |-> "draft", deleted |-> FALSE, version |-> 1, by |-> NoUser,
                    sig |-> sig, from |-> NoDay, shared |-> FALSE, count |-> 0]
    /\ vfrom = <<NoDay>>
    /\ frozen = [v \in Versions |-> {}]
    /\ acc = [k \in Versions \X Users |-> << >>]
    /\ shares = << >>
    /\ rules = {}
    /\ call = [c \in Calls |-> IdleCall]
    /\ pub = NoPub
    /\ found = FALSE
    /\ late = {}
    /\ platform = [active |-> TRUE, jammed |-> FALSE, ahead |-> 0]
    /\ today = 0
    /\ started = 0
    /\ faults = 0
    /\ review = NoReview
    /\ published = {}

Visible == ~policy.deleted
Unlocked == pub = NoPub

-----------------------------------------------------------------------------
(* Workflow handlers: one transaction under the row lock *)

\* What every such handler begins with.
Locked(c) ==
    /\ call[c].pc = "idle"
    /\ started < MaxCalls
    /\ started' = started + 1
    /\ Unlocked

rest == <<frozen, acc, rules, call, pub, found, late, platform, today, faults, published>>

\* A handler that only changes the document's row.
Move(c, from, row) ==
    /\ Locked(c)
    /\ Visible
    /\ policy.status \in from
    /\ policy' = row
    /\ UNCHANGED <<rest, vfrom, shares, review>>

\* A new version row repeats the document's effectiveFrom.
NewVersion(c, from, to, sig, effective) ==
    /\ Locked(c)
    /\ Visible
    /\ policy.status \in from
    /\ policy.version < MaxVersion
    /\ policy' = [policy EXCEPT !.version = @ + 1, !.status = to, !.sig = sig,
                                !.from = effective]
    /\ vfrom' = Append(vfrom, effective)
    /\ UNCHANGED <<rest, shares, review>>

\* Mutant: an approved document may still be edited.
UpdateApproved(c, sig, effective) ==
    NewVersion(c, {"draft", "changes_requested", "approved"}, policy.status, sig, effective)

\* An edit may leave the date as it is.
updatePolicy(c, sig, effective) ==
    /\ effective \in EditedDates \cup {policy.from}
    /\ NewVersion(c, {"draft", "changes_requested"}, policy.status, sig, effective)

\* Mutant: restoring changes the document and writes no version row.
RestoreInPlace(c) ==
    /\ policy.version < MaxVersion
    /\ Move(c, Statuses, [policy EXCEPT !.version = @ + 1, !.status = "draft"])

\* From any status: the restored text is a draft with a new number.
restoreVersion(c) == NewVersion(c, Statuses, "draft", policy.sig, policy.from)

deletePolicy(c) ==
    Move(c, {"draft", "changes_requested", "archived"}, [policy EXCEPT !.deleted = TRUE])

restorePolicy(c) ==
    /\ Locked(c)
    /\ policy.deleted
    /\ policy' = [policy EXCEPT !.deleted = FALSE, !.status = "draft"]
    /\ UNCHANGED <<rest, vfrom, shares, review>>

submitForReview(c, u) ==
    Move(c, {"draft", "changes_requested"},
         [policy EXCEPT !.status = "in_review", !.by = u])

requestChanges(c) ==
    Move(c, {"in_review"}, [policy EXCEPT !.status = "changes_requested"])

\* Mutant: the submitter may approve.
ApproveOwn(c, u) ==
    /\ Locked(c)
    /\ Visible
    /\ policy.status = "in_review"
    /\ policy' = [policy EXCEPT !.status = "approved"]
    /\ review' = [text |-> policy.version, by |-> policy.by, reviewer |-> u]
    /\ UNCHANGED <<rest, vfrom, shares>>

approvePolicy(c, u) ==
    /\ Locked(c)
    /\ Visible
    /\ policy.status = "in_review"
    /\ policy.by # u \/ u \in SuperAdmins
    /\ policy' = [policy EXCEPT !.status = "approved"]
    /\ review' = [text |-> policy.version, by |-> policy.by, reviewer |-> u]
    /\ UNCHANGED <<rest, vfrom, shares>>

schedulePolicy(c, day) ==
    /\ day > today
    /\ Move(c, {"approved"}, [policy EXCEPT !.status = "scheduled", !.from = day])

unpublishPolicy(c) ==
    /\ Locked(c)
    /\ Visible
    /\ policy.status = "published"
    /\ policy' = [policy EXCEPT !.status = "approved", !.shared = FALSE]
    /\ shares' = [i \in DOMAIN shares |-> [shares[i] EXCEPT !.enabled = FALSE]]
    /\ UNCHANGED <<rest, vfrom, review>>

\* Neither looks at the status the document has. The code also writes the version
\* number of a replacement into a UUID column; where the database rejects that,
\* superseding is one transaction fewer than here.
supersedePolicy(c) == Move(c, Statuses, [policy EXCEPT !.status = "superseded"])
archivePolicy(c) ==
    Move(c, Statuses, [policy EXCEPT !.status = "archived", !.shared = FALSE])

-----------------------------------------------------------------------------
(* Publication, by hand or by the job: it holds the row lock throughout *)

Targets == {p.user : p \in {q \in Profiles :
                resolveEmployeeAssignment(q, {r[1] : r \in rules})}}

\* The row is locked, checked, and the assignments are read.
BeginPublication(p) ==
    pub' = [by |-> p, targets |-> Targets, todo |-> Targets, new |-> {}]

beginPublish(c) ==
    /\ Locked(c)
    /\ Visible
    /\ policy.status \in {"approved", "scheduled"}
    /\ BeginPublication(c)
    /\ call' = [call EXCEPT ![c].pc = "publish"]
    /\ UNCHANGED <<policy, vfrom, frozen, acc, shares, rules, found, late, platform,
                   today, faults, review, published>>

\* The job is started, and its batch reaches as far as the document.
Reached == ~platform.jammed /\ platform.ahead < BatchSize

\* Mutant: the date must have passed.
FindPassed ==
    /\ ~found
    /\ Reached
    /\ Visible
    /\ policy.status = "scheduled"
    /\ policy.from < today
    /\ found' = TRUE
    /\ UNCHANGED <<policy, vfrom, frozen, acc, shares, rules, call, pub, late, platform,
                   today, started, faults, review, published>>

\* processScheduledPolicies: one query for the first BatchSize candidates ...
findScheduled ==
    /\ ~found
    /\ Reached
    /\ Visible
    /\ policy.status = "scheduled"
    /\ policy.from <= today
    /\ found' = TRUE
    /\ UNCHANGED <<policy, vfrom, frozen, acc, shares, rules, call, pub, late, platform,
                   today, started, faults, review, published>>

\* ... then a transaction for each, which reads the row again under its lock.
lockScheduled ==
    /\ found
    /\ Unlocked
    /\ IF /\ Visible
          /\ policy.status = "scheduled"
          /\ platform.active
          /\ review.reviewer # NoUser
       THEN BeginPublication(Job) /\ UNCHANGED found
       ELSE found' = FALSE /\ UNCHANGED pub
    /\ UNCHANGED <<policy, vfrom, frozen, acc, shares, rules, call, late, platform,
                   today, started, faults, review, published>>

\* generateAcceptanceObligations: an employee without a row for the version
\* will get one; rows that others have not committed are not seen. Employees
\* fit one page of the code's query: pages are read without an order.
generateObligation(u) ==
    /\ u \in pub.todo
    /\ pub' = [pub EXCEPT !.todo = @ \ {u},
                          !.new = IF acc[policy.version, u] = << >> THEN @ \cup {u} ELSE @]
    /\ UNCHANGED <<policy, vfrom, frozen, acc, shares, rules, call, found, late, platform,
                   today, started, faults, review, published>>

\* dueAt is the date on the version row, which scheduling does not touch.
DueAt(v) == IF vfrom[v] = NoDay THEN today + Grace ELSE vfrom[v]

Published(from) ==
    /\ policy' = [policy EXCEPT !.status = "published", !.from = from]
    /\ published' = published \cup {policy.version}
    /\ acc' = [k \in DOMAIN acc |->
                 IF k[1] = policy.version /\ k[2] \in pub.new
                 THEN Append(acc[k], [status |-> "pending", due |-> DueAt(k[1])])
                 ELSE acc[k]]
    /\ pub' = NoPub

\* By hand, the snapshot stays as the version was created: findOrCreate finds
\* a row for every version.
commitPublish(c) ==
    /\ call[c].pc = "publish"
    /\ pub.by = c
    /\ pub.todo = {}
    /\ Published(IF policy.from = NoDay THEN today ELSE policy.from)
    /\ call' = [call EXCEPT ![c] = IdleCall]
    /\ UNCHANGED <<vfrom, frozen, shares, rules, found, late, platform,
                   today, started, faults, review>>

\* Mutant: the snapshot is read again at the end.
CommitLatestRules ==
    /\ pub.by = Job
    /\ pub.todo = {}
    /\ Published(policy.from)
    /\ frozen' = [frozen EXCEPT ![policy.version] = Targets]
    /\ found' = FALSE
    /\ UNCHANGED <<vfrom, shares, rules, call, late, platform, today, started, faults, review>>

commitScheduled ==
    /\ pub.by = Job
    /\ pub.todo = {}
    /\ Published(policy.from)
    /\ frozen' = [frozen EXCEPT ![policy.version] = pub.targets]
    /\ found' = FALSE
    /\ UNCHANGED <<vfrom, shares, rules, call, late, platform, today, started, faults, review>>

-----------------------------------------------------------------------------
(* Readers and links: no lock; the row is read first and written later *)

db == <<policy, vfrom, frozen, acc, shares, rules, pub, found, late, platform, today,
        faults, review, published>>

Start(c, state) ==
    /\ call[c].pc = "idle"
    /\ started < MaxCalls
    /\ started' = started + 1
    /\ call' = [call EXCEPT ![c] = state]
    /\ UNCHANGED db

IsPublished == Visible /\ policy.status = "published"

beginAccept(c, u) ==
    /\ IsPublished
    /\ ~policy.sig
    /\ Start(c, [IdleCall EXCEPT !.pc = "accept", !.user = u, !.to = "accepted",
                                 !.version = policy.version])

beginSign(c, u) ==
    /\ IsPublished
    /\ Start(c, [IdleCall EXCEPT !.pc = "sign", !.user = u, !.to = "signed",
                                 !.version = policy.version])

\* findOrCreate, with no unique index behind it. Accepting again is a no-op;
\* signing again is not.
findAcceptance(c) ==
    LET rows == acc[call[c].version, call[c].user]
    IN  /\ call[c].pc \in {"accept", "sign"}
        /\ \E i \in (IF rows = << >> THEN {0} ELSE DOMAIN rows) :
              call' = [call EXCEPT ![c] =
                  IF call[c].pc = "accept" /\ i # 0 /\ rows[i].status \in Answered
                  THEN IdleCall ELSE [@ EXCEPT !.pc = "answer", !.row = i]]
        /\ UNCHANGED <<db, started>>

\* Mutant: the answer goes to the version the document has now.
AnswerCurrent(c) ==
    LET k == <<policy.version, call[c].user>>
    IN  /\ call[c].pc = "answer"
        /\ Unlocked
        /\ acc' = [acc EXCEPT ![k] = Append(@, [status |-> call[c].to, due |-> NoDay])]
        /\ policy' = [policy EXCEPT !.count = @ + 1]
        /\ call' = [call EXCEPT ![c] = IdleCall]
        /\ UNCHANGED <<vfrom, frozen, shares, rules, pub, found, late, platform, today,
                       started, faults, review, published>>

\* Mutant: only a new row is counted.
AnswerCountsNew(c) ==
    LET k == <<call[c].version, call[c].user>>
    IN  /\ call[c].pc = "answer"
        /\ Unlocked
        /\ acc' = [acc EXCEPT ![k] =
                     IF call[c].row = 0
                     THEN Append(@, [status |-> call[c].to, due |-> NoDay])
                     ELSE [@ EXCEPT ![call[c].row].status = call[c].to]]
        /\ policy' = [policy EXCEPT !.count = IF call[c].row = 0 THEN @ + 1 ELSE @]
        /\ call' = [call EXCEPT ![c] = IdleCall]
        /\ UNCHANGED <<vfrom, frozen, shares, rules, pub, found, late, platform, today,
                       started, faults, review, published>>

\* The row is written and the counter incremented, which waits for the lock.
answer(c) ==
    LET k == <<call[c].version, call[c].user>>
    IN  /\ call[c].pc = "answer"
        /\ Unlocked
        /\ acc' = [acc EXCEPT ![k] =
                     IF call[c].row = 0
                     THEN Append(@, [status |-> call[c].to, due |-> NoDay])
                     ELSE [@ EXCEPT ![call[c].row].status = call[c].to]]
        /\ policy' = [policy EXCEPT !.count = @ + 1]
        /\ call' = [call EXCEPT ![c] = IdleCall]
        /\ UNCHANGED <<vfrom, frozen, shares, rules, pub, found, late, platform, today,
                       started, faults, review, published>>

beginShare(c) ==
    /\ IsPublished
    /\ Start(c, [IdleCall EXCEPT !.pc = "share", !.version = policy.version,
                                 !.shared = policy.shared])

beginRevoke(c) ==
    /\ Visible
    /\ Start(c, [IdleCall EXCEPT !.pc = "revoke", !.shared = policy.shared])

\* policy.update writes the flag only when it differs from what was read.
SetShared(c, flag) ==
    /\ call[c].shared = flag \/ Unlocked
    /\ policy' = [policy EXCEPT !.shared = IF call[c].shared = flag THEN @ ELSE flag]
    /\ call' = [call EXCEPT ![c] = IdleCall]
    /\ UNCHANGED <<vfrom, frozen, acc, rules, pub, found, late, platform, today,
                   started, faults, review, published>>

\* Mutant: the link is made for the version the document has now.
ShareCurrent(c) ==
    /\ call[c].pc = "share"
    /\ shares' = Append(shares, [version |-> policy.version, enabled |-> TRUE])
    /\ SetShared(c, TRUE)

createPublicShare(c) ==
    /\ call[c].pc = "share"
    /\ shares' = Append(shares, [version |-> call[c].version, enabled |-> TRUE])
    /\ SetShared(c, TRUE)

revokePublicShare(c) ==
    /\ call[c].pc = "revoke"
    /\ shares' = [i \in DOMAIN shares |-> [shares[i] EXCEPT !.enabled = FALSE]]
    /\ SetShared(c, FALSE)

\* updateAssignments deletes the rows it sees, then inserts its own.
beginAssign(c, list) ==
    /\ Visible
    /\ Start(c, [IdleCall EXCEPT !.pc = "assign", !.seen = rules, !.list = list])

updateAssignments(c) ==
    /\ call[c].pc = "assign"
    /\ rules' = (rules \ call[c].seen) \cup (call[c].list \X {started})
    /\ call' = [call EXCEPT ![c] = IdleCall]
    /\ UNCHANGED <<policy, vfrom, frozen, acc, shares, pub, found, late, platform, today,
                   started, faults, review, published>>

-----------------------------------------------------------------------------
(* The overdue job, the clock, the platform, and failures *)

findOverdue ==
    LET rows == UNION {{<<k, i>> : i \in DOMAIN acc[k]} : k \in DOMAIN acc}
        past == {x \in rows : /\ acc[x[1]][x[2]].status = "pending"
                              /\ acc[x[1]][x[2]].due # NoDay
                              /\ acc[x[1]][x[2]].due < today}
    IN  /\ late = {}
        /\ past # {}
        /\ late' = past
        /\ UNCHANGED <<policy, vfrom, frozen, acc, shares, rules, call, pub, found, platform,
                       today, started, faults, review, published>>

\* Mutant: the rows are written as they were found.
MarkAllFound ==
    /\ late # {}
    /\ acc' = [k \in DOMAIN acc |-> [i \in DOMAIN acc[k] |->
                 IF <<k, i>> \in late
                 THEN [acc[k][i] EXCEPT !.status = "overdue"] ELSE acc[k][i]]]
    /\ late' = {}
    /\ UNCHANGED <<policy, vfrom, frozen, shares, rules, call, pub, found, platform,
                   today, started, faults, review, published>>

\* The update repeats the condition on the status.
markOverdue ==
    /\ late # {}
    /\ acc' = [k \in DOMAIN acc |-> [i \in DOMAIN acc[k] |->
                 IF <<k, i>> \in late /\ acc[k][i].status = "pending"
                 THEN [acc[k][i] EXCEPT !.status = "overdue"] ELSE acc[k][i]]]
    /\ late' = {}
    /\ UNCHANGED <<policy, vfrom, frozen, shares, rules, call, pub, found, platform,
                   today, started, faults, review, published>>

NextDay ==
    /\ today < MaxDay
    /\ today' = today + 1
    /\ UNCHANGED <<policy, vfrom, frozen, acc, shares, rules, call, pub, found, late,
                   platform, started, faults, review, published>>

\* The business or its policy module is switched off, or on again; between two
\* runs the insert of the job's log row fails, or the process is restarted;
\* documents that the job only skips fall due before this one, or are cleared.
Switch ==
    /\ faults < MaxFaults
    /\ faults' = faults + 1
    /\ \/ platform' = [platform EXCEPT !.active = ~@]
       \/ ~found /\ platform' = [platform EXCEPT !.jammed = ~@]
       \/ \E n \in 0..BatchSize \ {platform.ahead} :
             platform' = [platform EXCEPT !.ahead = n]
    /\ UNCHANGED <<policy, vfrom, frozen, acc, shares, rules, call, pub, found, late,
                   today, started, review, published>>

\* Any error or crash rolls the transaction back and frees its lock.
Rollback(c) ==
    /\ faults < MaxFaults
    /\ call[c].pc # "idle"
    /\ faults' = faults + 1
    /\ call' = [call EXCEPT ![c] = IdleCall]
    /\ pub' = IF pub.by = c THEN NoPub ELSE pub
    /\ UNCHANGED <<policy, vfrom, frozen, acc, shares, rules, found, late, platform,
                   today, started, review, published>>

RollbackScheduled ==
    /\ faults < MaxFaults
    /\ found
    /\ faults' = faults + 1
    /\ found' = FALSE
    /\ pub' = IF pub.by = Job THEN NoPub ELSE pub
    /\ UNCHANGED <<policy, vfrom, frozen, acc, shares, rules, call, late, platform,
                   today, started, review, published>>

-----------------------------------------------------------------------------
Workflow(c) ==
    \/ \E sig \in BOOLEAN, day \in Days \cup {NoDay} : updatePolicy(c, sig, day)
    \/ restoreVersion(c) \/ deletePolicy(c) \/ restorePolicy(c)
    \/ \E u \in Users : submitForReview(c, u) \/ approvePolicy(c, u)
    \/ requestChanges(c)
    \/ \E day \in Days : schedulePolicy(c, day)
    \/ unpublishPolicy(c) \/ supersedePolicy(c) \/ archivePolicy(c)
    \/ beginPublish(c)

Reader(c) ==
    \/ \E u \in Users : beginAccept(c, u) \/ beginSign(c, u)
    \/ beginShare(c) \/ beginRevoke(c)
    \/ \E list \in RuleLists : beginAssign(c, list)

Continue(c) ==
    \/ findAcceptance(c) \/ answer(c)
    \/ createPublicShare(c) \/ revokePublicShare(c) \/ updateAssignments(c)
    \/ commitPublish(c)

PublishJob == findScheduled \/ lockScheduled \/ commitScheduled
OverdueJob == findOverdue \/ markOverdue

Next ==
    \/ \E c \in Calls : Workflow(c) \/ Reader(c) \/ Continue(c) \/ Rollback(c)
    \/ \E u \in Users : generateObligation(u)
    \/ PublishJob \/ OverdueJob \/ RollbackScheduled
    \/ NextDay \/ Switch

Spec == Init /\ [][Next]_vars

\* A started transaction goes on, the job runs every few minutes while its runner
\* starts it, days pass.
FairSpec ==
    /\ Spec
    /\ \A c \in Calls : WF_vars(Continue(c))
    /\ WF_vars(\E u \in Users : generateObligation(u))
    /\ WF_vars(PublishJob)
    /\ WF_vars(NextDay)

-----------------------------------------------------------------------------
(* Properties *)

TypeOK ==
    /\ policy \in PolicyRow
    /\ vfrom \in Seq(Days \cup {NoDay}) /\ Len(vfrom) = policy.version
    /\ frozen \in [Versions -> SUBSET Employees]
    /\ acc \in [Versions \X Users -> Seq(AccRow)]
    /\ shares \in Seq(Share)
    /\ rules \subseteq Rules \X Nat
    /\ call \in [Calls -> Call]
    /\ pub \in [by : Calls \cup {Job, Nobody}, targets : SUBSET Employees,
               todo : SUBSET Employees, new : SUBSET Employees]
    /\ found \in BOOLEAN /\ platform \in Platform
    /\ late \subseteq (Versions \X Users) \X Nat
    /\ today \in Days /\ started \in 0..MaxCalls /\ faults \in 0..MaxFaults
    /\ review \in [text : Nat, by : Users \cup {NoUser}, reviewer : Users \cup {NoUser}]
    /\ published \subseteq Versions

\* Whatever is approved, scheduled or published is the text its reviewer saw,
\* and the reviewer is not the one who submitted it ("Mandatory anti-self
\* approval check"), across edits, restored versions, deletion and the job.
InForceWasReviewed ==
    policy.status \in Reviewed =>
        /\ review.text = policy.version
        /\ review.by # review.reviewer \/ review.reviewer \in SuperAdmins

\* An answer is to a version that was published: the reader's handler holds a
\* version it read without a lock while others may withdraw or replace it.
AnswersArePublished ==
    \A k \in DOMAIN acc : acc[k] # << >> => k[1] \in published

\* A public link shows a version that was published, even when the document
\* was edited, restored and published again after the link was made.
SharedWasPublished ==
    \A i \in DOMAIN shares : shares[i].version \in published

\* Everyone named by the assignment snapshot of an automatically published
\* version has been asked, whatever happened to the assignments meanwhile and
\* whoever answered before the obligations were written.
SnapshotWasAsked ==
    \A v \in Versions, u \in Users : u \in frozen[v] => acc[v, u] # << >>

AnsweredRows ==
    UNION {{<<k, i>> : i \in {j \in DOMAIN acc[k] : acc[k][j].status \in Answered}}
              : k \in DOMAIN acc}

\* The counter on the document never falls behind the answers, although the
\* counter and the rows are written by handlers that do not lock the row.
CounterCoversAnswers == Cardinality(AnsweredRows) <= policy.count

\* An answer is never undone: the overdue job's list may be old when it writes.
AnswerIsFinal ==
    [][\A k \in DOMAIN acc : \A i \in DOMAIN acc[k] :
          acc[k][i].status \in Answered => acc'[k][i].status \in Answered]_vars

\* The workflow, with its locks, jobs and rollbacks, implements the promise.
Stage ==
    CASE policy.deleted \/ policy.status \in {"archived", "superseded"} -> "withdrawn"
      [] Visible /\ policy.status \in {"approved", "scheduled"} -> "reviewed"
      [] Visible /\ policy.status = "published" -> "inForce"
      [] OTHER -> "editing"

Promise == INSTANCE PolicyReview WITH stage <- Stage, text <- policy.version
ImplementsReview == Promise!Spec

\* A scheduled document is published, or somebody takes it out of the schedule;
\* failed attempts are tried again. What the code does not make up for is named:
\* a business switched off, a job its runner no longer starts, and a batch full
\* of documents that the job skips and that stay the first of every batch.
ScheduledIsPublished ==
    (Visible /\ policy.status = "scheduled")
        ~> (~platform.active \/ ~Reached \/ ~Visible \/ policy.status # "scheduled")
=============================================================================
