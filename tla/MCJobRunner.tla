----------------------------- MODULE MCJobRunner -----------------------------
EXTENDS PolicyReminders

CONSTANTS w1, w2, poller, reminders, review, overdue

\* Two worker processes, as while one is being replaced; the poller's bot is
\* configured in one of them.
MCRegistered == [p \in Processes |-> IF p = w1 THEN Jobs ELSE {reminders}]
=============================================================================
