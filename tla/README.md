# TLA+ models of blih-ERP-backend

The repository is a multi-tenant ERP backend in TypeScript (Express, Sequelize,
PostgreSQL). Its core is `src/src/`: HTTP handlers grouped by module, a set of
services, and cron jobs that run inside the API process and in a separate
worker process. Almost all of its logic is of one kind: rows with a status
column, moved by handlers that read a row, decide, and write it back, while
other handlers, other processes and the nightly jobs do the same. What can go
wrong, and what a unit test with a mocked database cannot see, is the
interleaving of those reads and writes. The models are about that.

Paths below are relative to the repository's `src/` directory; in
`PROJECT.json` they start with `src/`.

## Inventory

| Component | State | Operations | What is hard | What makes it correct |
|---|---|---|---|---|
| Employment changes (`modules/employmentChange`) | request rows, action log, employee record and salary | create, approve, counter, reject, cancel, delete, edit, immediate title, nightly apply | no transaction and no lock anywhere; stale instances | stages sign in order, nothing is in force or paid without its chain, a scheduled change is settled |
| Background jobs (`jobs/runner.ts`, `registry.ts`, policy advisory lock) | `activeJobs` per process, log rows, session locks | tick, log, run, unlock | two processes, failing log writes, restarts | no overlapping runs, a job is always given back |
| Attendance punches (`attendanceMe`) | event rows of the employee's days | createEvent, revertLastEvent | several devices, a clock read before the lock, windows computed from printed times | one check-in a date, served breaks, an ordered timeline |
| Attendance calculation (`attendanceCalculation.service.ts`) | none | timeline, schedule, penalties and status of a day | out-of-order events, midnight, recomputed at every look | worked and break time fill the shift, status and totals agree, a settled day stays as it is |
| Attendance requests and work from home (`attendanceRequests`) | request rows, the same event rows | submit, action, update, cancel, sync | some operations lock, others do not | active periods apart, a decided period fixed, an event for each approved correction |
| HR attendance (`attendanceHr`) | the same rows | removal of auto-added events, reports | races with approval and sync | a removed entry stays removed |
| Policy management (`policy`) | policies, versions, assignments, acceptances, links, reminder log | draft, review, approve, schedule, publish, supersede, archive, accept, sign, share, remind | scheduler against HTTP, restored versions, unlocked counters, sending before logging | only reviewed text in force, answers to published versions, a counter that keeps up, one reminder per key |
| Leave (`leave`) | requests, balances | submit, two-stage approval, reject, cancel | read-modify-write of the balance, no transaction | both signatures, a balance that adds up to the allowance |
| Overtime (`overtime`) | requests | submit, approve, reject | duplicate check outside a lock | one decision |
| Generic approval workflow (`approvalRequest`) | requests, steps, actions | submit, act | step pointer written from stale reads | every step acted on in order |
| Probation (`hr/probation*`) | probation rows, criteria | review, decide, extend, remind | decision on a closed probation, reminder job | one final decision |
| Exit (`hr/exit`) | exit rows | submit, approve, reject, complete | approval against rejection | one decision |
| Calendar sync (`calendar`) | retry queue, tokens | push, import, renew, retry | retries, late answers of Google | every event is eventually in sync |
| Telegram bots | update offset, link codes | poll, punch | registered in both processes | every update is handled once |
| Recruitment, onboarding, contracts, performance, OKR, finance, projects, CRM, procedure, client portal, brain, auth, roles, subscription, notifications | rows | mostly CRUD | little interaction | not considered here |

Components interact through shared rows (attendance events are written by
punches, corrections and HR; the employee's salary by employment changes and
payroll), through the job runner, which starts the nightly handlers, and
through notifications, which change nothing the others read.

## Plan

Done, in this order: `EmploymentLedger` and `EmploymentChange`; `JobRunner`;
`AttendanceBook` and `AttendanceDay`; `PolicyReview`, `PolicyAssignment` and `PolicyLifecycle`;
`HomeCalendar` and `WorkFromHome`; `LeaveRequest`; `AttendanceCalculation` on
top of `AttendanceDay`; `PolicyReminders` on top of `JobRunner`; each with its
proofs.

Left, in order of worth:

1. Attendance corrections, their sync and HR's removal of entries, on the
   event rows of `AttendanceDay` (two hazards have no property yet).
2. `ApprovalRequest`, `ExitProcess`, `Overtime`: decisions taken on a row that
   may have been decided, the shape of `LeaveRequest` and `EmploymentChange`.
3. The Telegram poller and the calendar's retry queue, if their protocol state
   proves worth a model.

## Modules

| Module | What it is |
|---|---|
| `EmploymentLedger` | the promise of the employment-change module: chains of stages, signatures, force and pay, with no handlers |
| `EmploymentChange`, `MCEmploymentChange`, `EmploymentChangeProofs` | the handlers, their stale instances, the nightly job, faults |
| `JobRunner`, `JobRunnerProofs` | cron callback, `activeJobs`, log rows, advisory lock, restarts |
| `PolicyReminders`, `PolicyRemindersProofs` | the handler of `policy.send-reminders`, composed with the runner that runs it |
| `MCJobRunner` | processes and jobs for TLC, for both |
| `AttendanceBook` | the promise of the punches: entries judged one at a time by what their day holds |
| `AttendanceDay`, `AttendanceDayProofs` | punches of one employee under the user-row lock |
| `AttendanceCalculation`, `AttendanceCalculationProofs` | what the day's punches are worth |
| `MCAttendanceDay` | schedule and lunch window for TLC, for both |
| `PolicyReview` | the promise of the policy workflow: only reviewed text is in force |
| `PolicyAssignment` | who a document is assigned to, a pure operator |
| `PolicyLifecycle`, `MCPolicyLifecycle`, `PolicyLifecycleProofs` | a document's workflow, versions, readers, links and jobs |
| `HomeCalendar` | the promise of the work-from-home module: a calendar booked in single steps |
| `WorkFromHome`, `MCWorkFromHome`, `WorkFromHomeProofs` | its handlers, with the locks they take or lack |
| `LeaveRequest`, `MCLeaveRequest`, `LeaveRequestProofs` | leave requests and their balance, without any lock |

### EmploymentChange

One employee and any number of requests. A handler of the code is a sequence
of awaits; between two of them anything may happen. So each operation is a
`Begin...` action, which reads the row into the call's snapshot and makes the
handler's checks, followed by one action for each later write. `row`, `acts`
and `emp` are the tables; `call` holds the handlers in flight; `due` is the
array `applyDueChanges` walks after its one query.

The crucial detail is `instance.update(values)`: Sequelize compares the values
with the *instance*, not with the database, writes only the columns that
differ, and selects the row by primary key alone. The operator `Col` says
just that. Columns a handler does not name, or does not change with respect to
its snapshot, keep what other handlers wrote; `metadata` is a single column,
so `approvalIndex` goes back to the snapshot's value whenever anything in it is
written (`Edited`, `MarkApplied`). Soft-deleted rows are hidden from reads
(`Visible`) and still writable by key.

Abstractions: titles are the id of the request that asked for them, amounts are
small numbers (0 for null), dates are days, and the roles of users are the
constant `RolesOf`. The index is one-based where the code's is zero-based. The
tables the operations only append to for display (submission and cancellation
entries of the action log, notifications, e-mail) are left out; an approval
entry is kept because `ensureEditable` reads it. A `PLATFORM_SUPER_ADMIN` acts
as an administrator from outside the business and is not among the users.
An edit (`BeginUpdate`, `UpdateOwn`) changes the amount and the date of a
request and keeps its kind. `Abort` is any exception or crash between two awaits: what was written
stays written.

### JobRunner

`activeJobs` is a set per process (`active`), because both the API process and
the worker call `initJobs`. A run goes through `create` (the log row), `lock`
for the policy jobs, `work`, `unlock`, `close`. The insert of the log row is
outside the `try`, hence `CreateLogFails` ends the run without touching
`active`; a failing write of the final status is inside it or in the catch
block, so the `finally` still runs (`CloseLogFails`). PostgreSQL's session lock
dies with its session, so `Restart` frees the locks of a process. A tick that
finds its job active does nothing and is no step. `Work` gives either outcome.
One failure is assumed away: that PostgreSQL drops the idle session holding the
lock while the handler goes on working over other connections.

### PolicyReminders

The module extends `JobRunner`. A step of the runner (`Next /\ Around`) is a
step of the composition, and while a run of `policy.send-reminders` is at
`work` its handler moves: `Evaluate` collects the reminders due (which ones is
left open: it depends on dates and documents), `Look` reads the log row of the
next one, `Send` stores the notification, `Write` logs it as delivered,
`RecordFailure` is the catch block. Every statement may reject or lose its
answer (`LookFails`, `SendUnanswered`, `WriteFails`, `RecordFails`), and
`Restart` kills the handler wherever it is. A reminder is a key of the log:
recipient, window, document, version. Reviews and expiries go before
acceptances and cannot be logged, see below; `Loggable` is the rest.
Time zones, windows and texts are left out, and so is the fact that a window
is one calendar day: a reminder whose day passes without a successful run is
never sent, so no liveness is claimed.

### AttendanceDay

A call reads `now` when it arrives (`Begin`), then waits for the lock on the
employee's user row (`Lock`), reads the day's events under it, and inserts or
refuses (`Record`); `RevertLastEvent` deletes the latest event of the day.
Since the lock serialises transactions but not the moment the clock was read,
events are inserted in an order that need not be that of their timestamps.
Time is UTC, counted in units; a day has `DayLength` of them; no two requests
arrive at the same instant. `Zone` gives the offset of the business's time zone
at every instant, so that `DayOf` is the date on the wall calendar. `AttendanceBook` is what this amounts to: a single
step opens a day, enters what may follow the day's last entry, or takes that
entry back; it knows no requests, so an early clock can only show as an entry
whose time lies before that of the one it follows. 

Which rows are today's is not decided by the date: the code queries a window of
24 hours, `OnDay`, that `utils/timezone.ts` computes from the printed wall time.
`Intl.DateTimeFormat` with `hour12: false` prints the hour of midnight as 24 on
some runtimes (`MidnightUnit`), and not only where minutes of the day are read
(`LocalUnit`): `OffsetAt` reads the printed time of midnight UTC back as an
offset, and in UTC, the default zone, that offset becomes +24 hours and the
window the day before. Where the clocks change, the window is still 24 hours
from the start of the date, so a date of 25 hours loses its last one.
`WindowIsDay` says that the window of every instant holds exactly its date, and
`PlainZone` that the offset is constant and the zone not UTC on such a runtime.
The properties speak of dates, the code of windows, and the run `attendance_utc`
shows the two part ways; `attendance` takes a zone ahead of UTC and keeps the
quirk of midnight.

The 15-second duplicate window is not modelled because it cannot be reached: a
punch of the latest type is never in `nextAllowedTypes`, which is checked first.
Corrections and HR's removals write the same rows and are not in this module.

### AttendanceCalculation

`calculateAttendanceDay` over those rows, as a function of the day, the rows,
the time of looking and the approved lunch use. `Timeline` is its loop over the
events of the window between check-in and the end (the first check-out, or now
clamped to the end of the window): `DayAfter` folds `CountEvent` over that set, always setting the
row that sorts last aside and counting it upon what the others left, which is
the order the code sorts and walks them in; the rest is the schedule (`Expected`), the
two penalties, lateness and the status. `remainingMinutes`, which equals the
missing minutes on a working day, and the day-unit labels are left out.

`Shown` is what two pages get for a date. HR's daily list hands over the window's
rows and the minutes of lunch an approved special request gave up; HR's report
of a range groups rows by date and passes no such minutes, so that a day without a
recorded lunch shows two penalties. `SettledDayIsFinal` says that this is the only
difference, and that nothing of a settled day depends on when it is looked at.
The employee's day and history pages differ in the same way
(`modules/attendanceMe/attendanceMe.service.ts:171`, `:549`) but take the
default start of work where HR's take the one assigned to the employee, so an
employee and HR may see different lateness; `StartUnit` is one of the two. What
the pages add to the result, the override for remote employees and the larger
of this penalty and the lateness report's, is left out.

The function reads the timeline twice: the totals walk every event, the status
looks only at the first departure and the first return. The two part ways when
several lunches are allowed (during the second the status says at work), and
for a departure stored before the check-in (the status says on break, the
totals count work). `OnBreakIsNotWorking` therefore speaks of days with one
lunch, taken after the check-in.

### PolicyLifecycle

One document of one business. The workflow handlers lock the document's row and
are one step each; publication writes an acceptance row per employee while it
holds the lock (`beginPublish`, `generateObligation`, `commitPublish`), and so
does the job (`findScheduled`, `lockScheduled`, `commitScheduled`). Readers do
not lock: accepting, signing, making and revoking a public link and replacing
the assignments read in one step and write in a later one. The overdue job
picks rows in one step (`findOverdue`) and marks them in another. A version is
the number of its text; `review` remembers which text was approved and who had
sent it, and `published` which versions have ever been out; both are history.

Abstractions: every version requires acceptance; one document; permissions,
ownership, slugs, categories, metadata and attempt counters, and the expiry of
links are left out; the content hash always matches; the set of employees is
constant, though their subjects are arbitrary; `dueAt` is computed on the day
the obligation is written. `platform` is what stands between the publishing job
and the document: a business or module that is switched off; a runner that no
longer starts the job, which is `JobRunner`'s failed insert; and the documents
due before it that the job reads first and only skips (of switched-off
businesses, or failing a check), of which a run takes `BatchSize`.
`resolveEmployeeAssignment` is `PolicyAssignment`'s
operator: the most specific level with a matching rule decides.

In two places the model is not exactly the code. `supersedePolicy` always
succeeds, though the code writes the replacement's version number into the UUID
column `supersededByVersionId` (`modules/policy/policy.service.ts:1113`), which
PostgreSQL rejects: a document with a replacement is then not superseded at
all, and the model has more behaviours than the code. And every employee is
visited once (`generateObligation`): the code reads them in pages of 500 by
offset without an order (`modules/policy/policy.assignment.service.ts:91`), so
that with more than 500 a page may repeat or miss someone; `SnapshotWasAsked`
and its theorem speak of one page.

`lockScheduled` repeats the check of the status and not that of the date: a
document found by the job, sent back, reviewed again and scheduled for a later
day before its row is locked is published early. The model has this step, and
nothing in the code denies it.

### WorkFromHome

The requests of one employee. Creating and editing are transactions that lock
the employee's user row (`holder`), check for overlaps and save; editing locks
the request's row too. Deciding and cancelling read the request and later write
its status by key, without a lock, so they wait only while the row is locked
(`RowFree`) and then overwrite whatever is there. The Telegram bot inserts
through the general request service without the lock (`insertUnlocked`).
`loose` is history: requests that were once closed, or slipped in without the
lock. An approved leave in the way is one more reason to refuse and is part of
no step; statuses `invalid` and `expired` behave as `rejected` does; the
conversation of the bot is left out. The model shows, too, that an approver may
approve a period edited after it was shown to him; nothing in the code says
otherwise, so it is not a property.

### LeaveRequest

No handler of this module opens a transaction. Each is a row of statements:
submission finds or provisions a balance (`findBalance`, `provision`) and
inserts; approval, rejection and cancellation find the request (`fetch`), save
it (`write`), and the last approval finds the balance of the current year and
charges it (`findCharged`, `charge`). A save writes the columns that differ
from what the handler fetched, as in `EmploymentChange`. HR may change the
template and the year may turn between any two statements. Days are counted in
halves. Evidence, validation of half days, the department check, lists and
notifications are left out.

What follows from that, all of it allowed by the model: a first-stage approval
that comes late brings a decided request back to pending; two HR approvals at
once charge a request twice; a request cancelled or rejected after its approval
keeps its charge; a first submission at the same time as another leaves two
balance rows; an approval after the turn of the year finds no balance and
charges nothing; two pending requests may together exceed the allowance, and
what is left stops at zero; submission never looks at work from home, though
work from home looks at leave. None contradicts a statement of the code, so
none is listed as a disagreement; the properties say what survives.

## What is checked

| Run | Instance | Shows |
|---|---|---|
| `employment_approval` | 1 salary request with the full chain, 2 handlers, 5 users (the employee, the line manager, HR, finance, an administrator), 8 calls, no fault | stages sign in order, by the right people, and the handlers implement `EmploymentLedger` |
| `employment_lifecycle` | 1 request (a title or a combined change), 2 handlers, 3 users, 5 calls, the job, two days, one fault; fairness; 471,647 states | no orphaned request, salary only with approval (that no stage is skipped here either is proved), a scheduled change is settled, after a failed attempt too |
| `employment_one_open` | two requests, two submitters | **violated**: two open requests |
| `employment_only_pending` | approve against cancel | **violated**: a closed request is approved |
| `jobs` | 2 workers, 2 jobs (a poller in one of them, the locked reminders in both), 3 runs, one fault, one rejected statement, one reminder that can be logged and one that cannot; fairness; 607,677 states | no overlap, a locked job runs alone, a run gives its job back, a reminder goes out once but for failures and is never marked without being sent |
| `jobs_active` | the same | **violated**: a job is active though nothing runs |
| `attendance` | 2 devices, a zone one unit ahead of UTC on a runtime that prints midnight as 24, 2 dates of 7 units (a working day and a half one), a break of 2, a cooldown of 3, 9 instants to punch at; 608,807 states | one check-in and one lunch a date, served breaks, punches that implement `AttendanceBook`, totals that add up, a status that agrees with them, settled days that stay |
| `attendance_checkout` | the same | **violated**: a check-out stored inside a lunch |
| `attendance_utc` | the same in UTC, 3 instants | **violated**: two check-ins on one date |
| `policy` | 2 handlers, 2 users, 2 versions, 2 days, 5 calls, both jobs, batches of one document, one fault (a rollback, a switch, a jammed job or a document in front); fairness; 631,954 states | only reviewed text in force, answers and links to published versions only, the snapshot was asked, the counter does not fall behind, answers stay, the workflow implements `PolicyReview`, a schedule is kept unless one of three named things stands in the way |
| `home` | 2 handlers, 3 requests, 3 periods (a day and its two halves), 5 calls, one fault; 1,136,375 states | overlap only through the bot or a late decision, decided periods stay, the handlers implement `HomeCalendar` |
| `leave` | 2 handlers, 2 requests of 1 or 2 half days, an allowance of 2, 3 balance rows, 2 years, 5 calls, one change of template, one fault; 1,899,702 states | two signatures for every approval, used and remaining days make up the allowance, no balance holds more than was charged to it (a request charged twice counts twice), further balances only by a race |

### Bounds, and why they suffice

`MaxCalls` bounds the operations started in a behaviour and `MaxFaults` the
failures; both only cut behaviours short. Every anomaly of this code needs two
handlers holding different snapshots of one row, and a third operation to act
on the result: two concurrent calls at a time, out of four, with the job as a
third process, contain those. Walking a chain of four stages takes a submission
and four approvals; the eight calls of `employment_approval` leave room for a
counter-offer and for repeated approvals. One request is enough except where two
requests meet (`OneOpenRequest`); the proofs take any number of them. Two days separate a change that
applies at once from one that waits. Three runs of two jobs in two processes
contain every pair the runner's properties speak of, and the proofs remove the
bound. In `AttendanceDay`, nine instants, the first of them one unit into its date, hold
a day with a lunch and the check-in of the next; two devices give every reordering
of two punches. The zone ahead of UTC makes dates begin inside a day of UTC, so
that the arithmetic of the windows matters. In `policy`, a batch of one stands for
the 500 of the code: it is full or it is not.

`policy` reaches two full cycles of edit and review, and publication by hand
and by the job beside a reader; five calls do not reach an edit and a second
publication after a public link, which the proofs cover, as they do every
other bound here. In `home` a day collides with each of its halves, which only
touch, and a third request can meet a revived one. In `leave` two handlers, two
lengths and an allowance that two requests overdraw produce every lost update
of a balance, and three balance rows leave room for one more in a year than
`AccountsOnlyByRace` allows. In `jobs`, run ids are taken in order because they
are interchangeable; a second copy of a reminder needs two runs, and a third
run shows that one failure buys one copy only.

Deadlock is not checked: the bounds let every model stop, and so may the system.

### Fairness

`EmploymentChange!FairSpec`: a started handler runs on, because the Node event
loop resumes it; the job's steps happen, because cron fires every night and a
failing one is retried the next; days pass. No user is ever obliged to submit,
approve or cancel. `JobRunner!FairSpec`: every await of a started run settles;
ticks, failures and restarts are not promised. The handlers' settling is an
assumption on their network calls, which the code does not bound by timeouts.
`PolicyReminders!RemindersFairSpec` adds that the handler's statements settle
as well, whatever their outcome.

`PolicyLifecycle!FairSpec`: a transaction that started goes on, the publishing
job runs every few minutes (its default cron is `*/5 * * * *`) and is not
stopped by one failed attempt, and days pass. Nobody has to publish, read or
answer; rollbacks are bounded by `MaxFaults`, so the job does not fail for ever.
That cron starts a job is itself no more than `JobRunner` grants: a failed insert
of its log row stops a job until the process restarts (`jobs_active`).
`ScheduledIsPublished` names this case (`platform.jammed`) next to a batch full of
skipped documents; `ScheduledSettles` assumes that the nightly job of employment
changes, which has no batches, is never stopped so.
`WorkFromHome` and `LeaveRequest` promise nothing eventually and assume nothing.

### Disagreements found

* *Duplicate requests.* `create` looks for an open request and inserts later,
  with no lock or unique index: two submissions both succeed, against its own
  message "This employee already has an active employment change request".
* *Approval of a closed request.* `finalizeApproval` updates by primary key
  from an instance read before the request was cancelled or rejected, against
  "Only pending requests can be approved.". The stages have all signed, so
  `NoStageSkipped` still holds; the cancellation is lost.
* *A job that is never given back.* `activeJobs.add` precedes the insert of the
  log row, which is outside the `try`.
* *A check-out during lunch.* The comment "Prevent final checkout while employee
  is on lunch." holds for the moment of writing, not for the stored times.
* *A second check-in in UTC.* Where midnight prints as 24, the window computed for
  UTC is the day before (`utils/timezone.ts:33`), so `createEvent` does not see
  today's rows; a test says that after a check-in the next allowed punches are
  "[LUNCH_OUT, CHECK_OUT], not CHECK_IN".

Four more were met that no run shows:

* *Reminders that are never logged.* `processPolicyReminders` passes
  `policyVersionId: "v" + version` for reviews and expiries
  (`modules/policy/policy.scheduler.ts:464`, `:509`), and the column is of type
  UUID in the model and the migration. The create rejects after the
  notification was stored, and so does the create of the `failed` row in the
  catch, silently. Nothing then stops another run of the same day from sending
  again, against "Safely logs persistent reminder delivery with unique database
  deduplication" (`:53`). In the model these are the reminders outside
  `Loggable`, for which `RemindedOnce` is false.
* *The bot's requests.* A work-from-home request submitted through Telegram is
  inserted by `attendanceRequests.create` without the lock that the comment in
  `modules/attendanceRequests/workFromHome.service.ts:71` relies on. In the
  model these are the `loose` requests of `OverlapOnlyLoose`.
* *A schedule starved by others.* `processScheduledPolicies` reads the first
  `policyJobBatchSize` due documents by date (`modules/policy/policy.scheduler.ts:160`)
  and leaves those it skips or fails as they are, so they are the first of the
  next batch as well; a batch full of them keeps every later document from
  being published. In the model this is `platform.ahead = BatchSize`, which
  `ScheduledIsPublished` excepts.
* *Two penalties for one day.* The day page and HR's daily list take a lunch that
  was given up into account; the history and HR's report do not.

## What is proved

For every value of the constants allowed by the named assumptions.

**EmploymentChange** (`EmploymentChangeProofs`): `TypeOK`, `NoStageSkipped`,
`SalaryOnlyWithApproval`, `ApprovedByTheRightPerson`, `NoOrphanedRequest` and
the refinement `ImplementsLedger`: everything its passing runs check except
liveness. `NoStageSkipped` is far from inductive: a row is approved by a handler
that looks at its snapshot's index only. The invariant `ChainInv` says, of every
row and of every snapshot a handler or the job holds, that it made `Progress`:
each stage before its index and each stage before the one its stage column names
has signed, and so has the one at the index when the column lags behind it. It
adds that a snapshot has the chain of its row, that an approving call past its
log entry has signed the stage of its snapshot, and that a call about to write
salary or title holds a fully signed request. An edit that
writes an old index back is harmless because index one asks for nothing, and
because signatures are never removed. Each action has a lemma; most follow
from three frame lemmas (`Frame`, `SaveStep`, `MoveStep`).

`ApprovedByTheRightPerson` and `NoOrphanedRequest` need a second invariant,
`RosterInv`. A chain names only stages that somebody other than the requester
can sign, and the manager only first (`Staffed`, proved of
`BuildApprovalChain`). The stage, user and role columns of a pending row speak
of one stage of its chain (`Coherent`): each column is written only where it
differs from the writer's snapshot, and what keeps the three in step is that
only the manager's stage has a user id, that it is the first of the chain and
that no handler goes back to it, so a decision that was not the manager's never
meets a row that is (`CallSeated`, `RetargetSeated`).

`ImplementsLedger` is the refinement. Every step leaves rows and approvals
alone, inserts a request nobody has signed, records an approval, or saves a row
with the chain it had (`StepShape`); the first is a stutter or a payment and
the others are `Submit`, `Sign`, and `TakeEffect` or `Withdraw`. It rests on
both invariants: `ChainInv` says that what takes effect is fully signed and
that signatures come in order, `RosterInv` that the stage signed is one of the
chain's.

`AdminHasTheLastWord` draws a consequence no run checks: every salary request in
force, and every other request in force that went through approval, carries the
approval of a business administrator other than its requester; and the salary
moves only while there is such a request. It joins `NoStageSkipped` and
`ApprovedByTheRightPerson` by one more invariant, `AdminInv`: a chain is empty,
and then no salary is asked for (an immediate title change), or names the
administrators, since nobody may submit in a business without one and an
administrator may not submit at all. (A `PLATFORM_SUPER_ADMIN` signs as an
administrator and is outside the model.)

**The promises themselves.** The abstract specifications are strong enough to be
worth implementing: from the refinement alone, and nothing else of the detailed
model, follow `NoStageSkipped` (`LedgerSuffices`), `OneCheckInPerDay` and
`LunchBreakServed` (`BookSuffices`), `InForceWasReviewed` for documents that are
not deleted (`ReviewSuffices`), `OverlapOnlyLoose` and `DecidedKeepsPeriod`
(`CalendarSuffices`). So any other service that writes those rows by the same
rules, whatever it locks, keeps these properties too.

**JobRunner** (`JobRunnerProofs`): `TypeOK`, `OneRunPerProcess`,
`LockedJobRunsAlone`. The invariant adds that a run in flight has its name in
`activeJobs` of its process and, while it works on a locked job, is the lock's
holder.

**PolicyReminders** (`PolicyRemindersProofs`): that the composition implements
`JobRunner` (so the three theorems above hold of it), and `RemindersTypeOK`,
`RemindedOnce`, `DeliveredWasSent`. The invariant uses the runner's: since the
locked job runs alone, at most one handler holds a reminder, and the log row it
saw is still the log row. A copy beyond the first is then paid for: where no row
says delivered and nobody is about to write one, the copies are at most the
crashes and errors so far (`Counted`).

**AttendanceDay** (`AttendanceDayProofs`): `TypeOK`, `OneCheckInPerDay`,
`LunchBreakServed`, `OneLunchPerDay` and the refinement `ImplementsBook`. All but
the first need not hold where windows are not dates, as `attendance_utc` shows for
one of them, and have `WindowIsDay` as their hypothesis. `PlainZoneHasDays` says
where that holds: in every zone without a change of clocks, except UTC on a
runtime that prints midnight as 24. It is a hypothesis of each theorem and not an
assumption of the model, which stays what the code does in any zone;
`BookSuffices` needs none. The invariant adds that what the holder of the row lock has read is what is stored,
which is what the lock is for. That a day's events have a latest one is a
lemma, by well-foundedness of the naturals. A revert keeps lunches paired
because a departure that lies a break before a return is not the day's latest
event. `OneLunchPerDay` says "after its check-in" because a punch may carry a
time before the check-in it was accepted after: such a departure is the day's
latest in the order of writing and not in that of time. Whoever departs while
another departure exists does so right after the check-in, as the latest row in
time, so the other one lies before it. `ImplementsBook` needs no more than
`Inv`: under the lock, the latest row a request has read is the book's last
entry.

**AttendanceCalculation** (`AttendanceCalculationProofs`): `SettledDayIsFinal`,
`WorkedAndBreakFillTheDay`, `OnBreakIsNotWorking` and `CreditBalances`, which
ties the penalties, missing time and overtime of `calculateAttendanceDay` to
its totals. `SettledDays` is proved under `PlainZone`, the totals and the credit in
any zone and for any window. Two places of the calculation read the clock, the end of the
timeline and the question whether the workday has ended; with a check-out, or
once the day is over, both forget it.

The theorems about the totals rest on lemmas about the loop. Rows of a day are
finitely many, so a set of them that is not empty has a row sorted last
(`LastOfIsLast`); the fold then has its two equations (`DayAfterNothing`,
`DayAfterRow`), and `HoursFillTheDay` follows from the least number of rows for which it
could fail: what was counted so far fills the time from the check-in to the cursor, and the
cursor is at the row met last. The library states the existence of such
recursions with operator parameters, out of the provers' reach; `CountingUpTo`
proves it for this one.

`BreakIsNotWork` has three hypotheses besides `PlainZone`, and needs each:
TLC refutes `OnBreakIsNotWorking` when any of them is dropped.
`MidnightUnit = DayLength`: runtimes that print the hour of midnight as 24 do so
for now as well, so a day looked at from the next one ends at its end and not
at its start. `LunchBreak > 0`: an approved special request may give up the whole
lunch; a return may then carry the minute of its departure, or one before it.
`DayLength \notin LunchWindow`: nobody leaves for lunch in the hour of midnight, which
sorts after the rest of the day. A fixed lunch, whose hours end before 24:00,
satisfies the last; so does a flexible one where nobody is at work at midnight.
Its invariant `LunchInv` adds that whatever is recorded
lies in the past and that departures lie in the lunch window.

**PolicyLifecycle** (`PolicyLifecycleProofs`): `TypeOK`, `InForceWasReviewed`,
`AnswersArePublished`, `SharedWasPublished`, `SnapshotWasAsked`,
`CounterCoversAnswers`, `AnswerIsFinal`, the refinement `ImplementsReview`, and `SpecificDecides` about
the assignment operator. The invariant adds that the document stays publishable
while a publication holds its row (`LockHeld`), that everybody the publication
read is still to be visited, will get a row or has one (`TargetsAsked`), and
that a handler which answers or shares without a lock carries a version that
has been published (`Reads`). `CounterCoversAnswers` takes one more conjunct,
that the answered rows are finitely many (`CountInv`): the set of users need not
be finite, and the cardinality of an infinite set says nothing. An answer
changes one row and adds one to the counter; every other step leaves the
counter alone and turns no row into an answered one.

**WorkFromHome** (`WorkFromHomeProofs`): `TypeOK`, `OverlapOnlyLoose`,
`DecidedKeepsPeriod`, and the refinement `ImplementsCalendar`. The invariant
says that exactly the calls past the lock hold it (`LockInv`), that a call about
to save has a period free of every active request that is not loose, which
others' steps cannot change while it holds the lock (`CallInv`), that active
requests are apart but for the loose ones (`Apart`), and that closed requests
are loose (`LooseInv`).

**LeaveRequest** (`LeaveRequestProofs`): all five properties of the run.
For `ApprovedIsSigned`: HR's signature never precedes one of the first stage,
and signatures are not taken back, so a stale HR approval writes over a row
that is signed. For the balance: the columns a charging handler found still
cover the total of its balance, whoever has charged it since, and what it found
used has been charged. `AccountsOnlyByRace` is a counting argument: once a year
has a balance, its balances and the handlers that missed it and may still
create one are at most as many as the handlers.

Only model-checked: the liveness properties `ScheduledSettles`, `JobGivenBack`
and `ScheduledIsPublished`, since liveness under fairness is out of the prover's
reach. Every invariant, action property and refinement of the passing runs is
proved.

## What is not modelled

`PROJECT.json` lists every component with its status and the reason. In short:

* *Worth a model, not done:* attendance corrections with their sync and HR's
  removal of entries; the generic approval workflow; the exit process; overtime
  and probation. Their races are those the modules above show on larger
  workflows, reads followed by writes without a lock, and the hazards they
  raise are listed without a property.
* *Little interaction:* recruitment, onboarding and contracts, performance and
  OKR, projects, CRM, procedure and client portal, tenancy and subscription,
  and most of finance are CRUD with a status column on one row. They are most
  of the repository's lines, which is why the models cover a small share of
  them.
* *Outside a finite model:* payroll arithmetic in floating point, scoring,
  language-model calls.
* *External:* Google Calendar and the Telegram API, whose behaviour is not in
  the repository; mail, files, tokens and hashing.
* *Generated:* everything under `dist/`.
