SPECIFICATION RemindersFairSpec
CONSTANTS
    w1 = w1  w2 = w2
    poller = poller  reminders = reminders
    Processes = {w1, w2}
    Jobs = {poller, reminders}
    LockedJobs = {reminders}
    Registered <- MCRegistered
    Runs = {1, 2, 3}
    NoRun = NoRun
    NoProcess = NoProcess
    NoJob = NoJob
    MaxFaults = 1
    review = review  overdue = overdue
    RemindersJob = reminders
    Reminders = {review, overdue}
    Loggable = {overdue}
    NoReminder = NoReminder
    MaxErrors = 1
INVARIANTS TypeOK OneRunPerProcess LockedJobRunsAlone RemindersTypeOK RemindedOnce DeliveredWasSent

PROPERTY JobGivenBack
CHECK_DEADLOCK FALSE
