--------------------------- MODULE PolicyReminders ---------------------------
(***************************************************************************)
(* policy.send-reminders, as JobRunner runs it: processPolicyReminders      *)
(* walks the reminders due that day, and trySendAndLogReminder looks for    *)
(* the log row of each, sends a notification and writes the row.  Nothing   *)
(* of it is one transaction.  A step of the runner is a step of this        *)
(* module; the handler's own steps happen while its run is at work.         *)
(***************************************************************************)
EXTENDS JobRunner

CONSTANTS
    RemindersJob,  \* policy.send-reminders
    Reminders,     \* the keys: recipient, window, document and version
    Loggable,      \* those of acceptances: their version is a row's id.  A review
                   \* or an expiry passes "v3" to a column of type UUID.
    NoReminder,
    MaxErrors      \* bound: statements that reject, or whose answer is lost

ASSUME RemindersAssumption ==
    /\ RemindersJob \in LockedJobs
    /\ Loggable \subseteq Reminders
    /\ NoReminder \notin Reminders
    /\ MaxErrors \in Nat

VARIABLES
    sent,    \* reminder -> notifications stored for it
    logged,  \* reminder -> status of its PolicyNotificationLog row
    visit,   \* run -> where its handler is
    errors   \* bounded by MaxErrors

allVars == <<active, run, log, lock, faults, sent, logged, visit, errors>>

Logs == {"none", "failed", "delivered"}

\* seen is the existingLog of the reminder in hand.
VisitType ==
    [at : {"start", "loop", "send", "write", "fail"}, todo : SUBSET Reminders,
     key : Reminders \cup {NoReminder}, seen : Logs]

Idle == [at |-> "start", todo |-> {}, key |-> NoReminder, seen |-> "none"]

RemindersInit ==
    /\ Init
    /\ sent = [k \in Reminders |-> 0]
    /\ logged = [k \in Reminders |-> "none"]
    /\ visit = [i \in Runs |-> Idle]
    /\ errors = 0

At(i, at) ==
    /\ run[i].pc = "work" /\ run[i].job = RemindersJob
    /\ visit[i].at = at

Error == errors < MaxErrors /\ errors' = errors + 1

Proceed(i, at) == visit' = [visit EXCEPT ![i].at = at]

\* On to the next reminder, without those lost by a rejection.
Skip(i, lost) ==
    visit' = [visit EXCEPT ![i] = [Idle EXCEPT !.at = "loop", !.todo = visit[i].todo \ lost]]

NextReminder(i) == Skip(i, {})

\* Reviews and expiries come before acceptances.
Current(i) ==
    IF visit[i].todo \subseteq Loggable THEN visit[i].todo ELSE visit[i].todo \ Loggable

-----------------------------------------------------------------------------
(* processPolicyReminders *)

\* The three queries and the calendar decide what is due.
Evaluate(i) ==
    /\ At(i, "start")
    /\ \E due \in SUBSET Reminders :
          visit' = [visit EXCEPT ![i] = [Idle EXCEPT !.at = "loop", !.todo = due]]
    /\ UNCHANGED <<vars, sent, logged, errors>>

\* Every rejection is caught, so the job succeeds once the lists are done.
Finished(i) == At(i, "loop") /\ visit[i].todo = {}

-----------------------------------------------------------------------------
(* trySendAndLogReminder *)

\* Mutant: a reminder is taken whatever the log says of it.
LookIgnoresLog(i) ==
    /\ At(i, "loop")
    /\ \E k \in Current(i) :
          visit' = [visit EXCEPT ![i] = [at |-> "send", todo |-> visit[i].todo \ {k},
                                         key |-> k, seen |-> logged[k]]]
    /\ UNCHANGED <<vars, sent, logged, errors>>

Look(i) ==
    /\ At(i, "loop")
    /\ \E k \in Current(i) :
          LET rest == visit[i].todo \ {k}
          IN  \/ /\ logged[k] = "delivered"
                 /\ visit' = [visit EXCEPT ![i].todo = rest]
              \/ /\ logged[k] # "delivered"
                 /\ visit' = [visit EXCEPT ![i] = [at |-> "send", todo |-> rest, key |-> k,
                                                   seen |-> logged[k]]]
    /\ UNCHANGED <<vars, sent, logged, errors>>

\* A rejected query ends its sub-routine: what is left in it waits for another run.
LookFails(i) ==
    /\ At(i, "loop")
    /\ Error
    /\ \E lost \in SUBSET Current(i) \ {{}} : Skip(i, lost)
    /\ UNCHANGED <<vars, sent, logged>>

Send(i) ==
    /\ At(i, "send")
    /\ sent' = [sent EXCEPT ![visit[i].key] = @ + 1]
    /\ Proceed(i, "write")
    /\ UNCHANGED <<vars, logged, errors>>

\* Mutant: the notifier swallows its errors.
SendFailsSilently(i) ==
    /\ At(i, "send")
    /\ Proceed(i, "write")
    /\ UNCHANGED <<vars, sent, logged, errors>>

SendFails(i) ==
    /\ At(i, "send")
    /\ Proceed(i, "fail")
    /\ UNCHANGED <<vars, sent, logged, errors>>

\* The notification is stored, the answer is lost.
SendUnanswered(i) ==
    /\ At(i, "send")
    /\ Error
    /\ sent' = [sent EXCEPT ![visit[i].key] = @ + 1]
    /\ Proceed(i, "fail")
    /\ UNCHANGED <<vars, logged>>

\* A row that was not there is created: that needs a key of its own, and the id
\* of a version.
Writable(i) ==
    \/ visit[i].seen # "none"
    \/ visit[i].key \in Loggable /\ logged[visit[i].key] = "none"

\* Mutant: a status that the look does not know.
WriteSent(i) ==
    /\ At(i, "write")
    /\ Writable(i)
    /\ logged' = [logged EXCEPT ![visit[i].key] = "sent"]
    /\ NextReminder(i)
    /\ UNCHANGED <<vars, sent, errors>>

Write(i) ==
    /\ At(i, "write")
    /\ Writable(i)
    /\ logged' = [logged EXCEPT ![visit[i].key] = "delivered"]
    /\ NextReminder(i)
    /\ UNCHANGED <<vars, sent, errors>>

WriteRejected(i) ==
    /\ At(i, "write")
    /\ ~Writable(i)
    /\ Proceed(i, "fail")
    /\ UNCHANGED <<vars, sent, logged, errors>>

WriteFails(i) ==
    /\ At(i, "write")
    /\ Error
    /\ \/ logged' = logged
       \/ Writable(i) /\ logged' = [logged EXCEPT ![visit[i].key] = "delivered"]
    /\ Proceed(i, "fail")
    /\ UNCHANGED <<vars, sent>>

\* The catch block.
RecordFailure(i) ==
    /\ At(i, "fail")
    /\ logged' = IF Writable(i) THEN [logged EXCEPT ![visit[i].key] = "failed"] ELSE logged
    /\ NextReminder(i)
    /\ UNCHANGED <<vars, sent, errors>>

\* A failing create is swallowed; a failing update ends the sub-routine.
RecordFails(i) ==
    /\ At(i, "fail")
    /\ Error
    /\ Skip(i, IF visit[i].seen = "none" THEN {} ELSE Current(i))
    /\ UNCHANGED <<vars, sent, logged>>

-----------------------------------------------------------------------------

Remind(i) ==
    \/ Evaluate(i)
    \/ Look(i)
    \/ Send(i) \/ SendFails(i)
    \/ Write(i) \/ WriteRejected(i)
    \/ RecordFailure(i)

RemindFails(i) == LookFails(i) \/ SendUnanswered(i) \/ WriteFails(i) \/ RecordFails(i)

\* What a step of the runner is to the handler: its run is unlocked only when
\* it has returned, and a run that is not at work has no handler.
Around ==
    /\ \A i \in Runs :
          run[i].job = RemindersJob /\ run[i].pc = "work" /\ run'[i].pc = "unlock"
             => Finished(i) /\ run'[i].result = "success"
    /\ visit' = [i \in Runs |-> IF run'[i].pc = "work" THEN visit[i] ELSE Idle]
    /\ UNCHANGED <<sent, logged, errors>>

RemindersNext ==
    \/ Next /\ Around
    \/ \E i \in Runs : Remind(i) \/ RemindFails(i)

RemindersSpec == RemindersInit /\ [][RemindersNext]_allVars

\* As JobRunner's FairSpec: every await of a run, its handler's included, settles.
RemindersFairSpec ==
    RemindersSpec /\ \A i \in Runs : WF_allVars((Step(i) /\ Around) \/ Remind(i))
-----------------------------------------------------------------------------
(* Properties *)

RemindersTypeOK ==
    /\ sent \in [Reminders -> Nat]
    /\ logged \in [Reminders -> Logs]
    /\ visit \in [Runs -> VisitType]
    /\ errors \in 0 .. MaxErrors

\* "unique database deduplication", as far as it goes: however many workers run
\* the job, on however many days, a reminder that can be logged goes out once,
\* and once more for each crash or lost answer at most.
RemindedOnce == \A k \in Loggable : sent[k] <= 1 + faults + errors

\* Retries end at a row marked delivered only if the notification is there.
DeliveredWasSent == \A k \in Reminders : logged[k] = "delivered" => sent[k] > 0
=============================================================================
