------------------------------ MODULE JobRunner ------------------------------
(***************************************************************************)
(* The background jobs: cron ticks, the in-memory set activeJobs of every   *)
(* process, the BackgroundJobLog row of every run, and the PostgreSQL       *)
(* advisory lock around the policy jobs.                                   *)
(*                                                                         *)
(* The API process and each worker process register jobs and have an        *)
(* activeJobs of their own; only the advisory lock is shared.  A run is one *)
(* invocation of the cron callback; a tick that finds its job active        *)
(* changes nothing, so it is no step.                                      *)
(***************************************************************************)
EXTENDS Naturals

CONSTANTS
    Processes,   \* API and worker processes
    Jobs,        \* job names
    LockedJobs,  \* the jobs run under withPostgresAdvisoryLock
    Registered,  \* process -> the jobs initJobs registers there
    Runs,        \* run ids; bound: runs started in a behaviour
    NoRun,       \* nobody holds the lock
    NoProcess,   \* of a run not started
    NoJob,
    MaxFaults    \* bound: failed log writes and crashes

ASSUME JobRunnerAssumption ==
    /\ LockedJobs \subseteq Jobs
    /\ Registered \in [Processes -> SUBSET Jobs]
    /\ NoRun \notin Runs
    /\ NoProcess \notin Processes
    /\ NoJob \notin Jobs
    /\ MaxFaults \in Nat

VARIABLES
    active,  \* process -> activeJobs
    run,     \* the runs, with the handler's outcome once it is known
    log,     \* status of the run's BackgroundJobLog row
    lock,    \* locked job -> the run whose session holds the advisory lock
    faults   \* bounded by MaxFaults

vars == <<active, run, log, lock, faults>>

Outcomes == {"success", "failed"}

PCs == {"unused", "create", "lock", "work", "unlock", "close", "done"}

RunType ==
    [pc : PCs, proc : Processes \cup {NoProcess}, job : Jobs \cup {NoJob},
     result : Outcomes]

NotStarted == [pc |-> "unused", proc |-> NoProcess, job |-> NoJob, result |-> "success"]

Live(i) == run[i].pc \notin {"unused", "done"}

\* Run ids are interchangeable; a tick takes one that is free.
NextId == CHOOSE i \in Runs : run[i].pc = "unused"

Init ==
    /\ active = [p \in Processes |-> {}]
    /\ run = [i \in Runs |-> NotStarted]
    /\ log = [i \in Runs |-> "none"]
    /\ lock = [j \in LockedJobs |-> NoRun]
    /\ faults = 0

Goto(i, pc) == run' = [run EXCEPT ![i].pc = pc]

Ends(i, pc, result) == run' = [run EXCEPT ![i].pc = pc, ![i].result = result]

Deactivate(i) == active' = [active EXCEPT ![run[i].proc] = @ \ {run[i].job}]

Fault == faults < MaxFaults /\ faults' = faults + 1

-----------------------------------------------------------------------------
(* The cron callback *)

\* Mutant: the job is not looked up in activeJobs.
TickUnguarded(p, j, i) ==
    /\ j \in Registered[p]
    /\ run[i].pc = "unused" /\ i = NextId
    /\ active' = [active EXCEPT ![p] = @ \cup {j}]
    /\ run' = [run EXCEPT ![i] = [NotStarted EXCEPT !.pc = "create", !.proc = p, !.job = j]]
    /\ UNCHANGED <<log, lock, faults>>

Tick(p, j, i) ==
    /\ j \in Registered[p]
    /\ j \notin active[p]
    /\ run[i].pc = "unused" /\ i = NextId
    /\ active' = [active EXCEPT ![p] = @ \cup {j}]
    /\ run' = [run EXCEPT ![i] = [NotStarted EXCEPT !.pc = "create", !.proc = p, !.job = j]]
    /\ UNCHANGED <<log, lock, faults>>

\* Mutant: the row is created without a status, so with the column's default.
CreateLogDefault(i) ==
    /\ run[i].pc = "create"
    /\ log' = [log EXCEPT ![i] = "pending"]
    /\ Goto(i, IF run[i].job \in LockedJobs THEN "lock" ELSE "work")
    /\ UNCHANGED <<active, lock, faults>>

CreateLog(i) ==
    /\ run[i].pc = "create"
    /\ log' = [log EXCEPT ![i] = "running"]
    /\ Goto(i, IF run[i].job \in LockedJobs THEN "lock" ELSE "work")
    /\ UNCHANGED <<active, lock, faults>>

\* BackgroundJobLog.create rejects before the try: no finally, so the name
\* stays in activeJobs.
CreateLogFails(i) ==
    /\ run[i].pc = "create"
    /\ Fault
    /\ Goto(i, "done")
    /\ UNCHANGED <<active, log, lock>>

\* The handler's own outcome; a failure of the handler is no fault.
Work(i) ==
    /\ run[i].pc = "work"
    /\ \E result \in Outcomes :
          Ends(i, IF run[i].job \in LockedJobs THEN "unlock" ELSE "close", result)
    /\ UNCHANGED <<active, log, lock, faults>>

\* Mutant: activeJobs is left alone when the handler failed.
CloseLogOnSuccessOnly(i) ==
    /\ run[i].pc = "close"
    /\ log' = [log EXCEPT ![i] = run[i].result]
    /\ IF run[i].result = "success" THEN Deactivate(i) ELSE UNCHANGED active
    /\ Goto(i, "done")
    /\ UNCHANGED <<lock, faults>>

CloseLog(i) ==
    /\ run[i].pc = "close"
    /\ log' = [log EXCEPT ![i] = run[i].result]
    /\ Deactivate(i)
    /\ Goto(i, "done")
    /\ UNCHANGED <<lock, faults>>

\* A success that cannot be logged is logged as failed, or not at all.
CloseLogFails(i) ==
    /\ run[i].pc = "close"
    /\ Fault
    /\ \/ log' = log
       \/ run[i].result = "success" /\ log' = [log EXCEPT ![i] = "failed"]
    /\ Deactivate(i)
    /\ Goto(i, "done")
    /\ UNCHANGED lock

-----------------------------------------------------------------------------
(* withPostgresAdvisoryLock.  A failing unlock means the session is gone,  *)
(* which frees the lock as well.                                           *)

TakeLock(i) ==
    /\ run[i].pc = "lock"
    /\ lock[run[i].job] = NoRun
    /\ lock' = [lock EXCEPT ![run[i].job] = i]
    /\ Goto(i, "work")
    /\ UNCHANGED <<active, log, faults>>

\* Mutant: the handler runs whatever pg_try_advisory_lock answered.
LockBusyRunsAnyway(i) ==
    /\ run[i].pc = "lock"
    /\ lock[run[i].job] # NoRun
    /\ Goto(i, "work")
    /\ UNCHANGED <<active, log, lock, faults>>

\* The run is skipped, and counts as a success unless that cannot be logged.
LockBusy(i) ==
    /\ run[i].pc = "lock"
    /\ lock[run[i].job] # NoRun
    /\ \E result \in Outcomes : Ends(i, "close", result)
    /\ UNCHANGED <<active, log, lock, faults>>

\* No connection to ask for the lock on.
LockFails(i) ==
    /\ run[i].pc = "lock"
    /\ Fault
    /\ Ends(i, "close", "failed")
    /\ UNCHANGED <<active, log, lock>>

Unlock(i) ==
    /\ run[i].pc = "unlock"
    /\ lock' = [lock EXCEPT ![run[i].job] = NoRun]
    /\ Goto(i, "close")
    /\ UNCHANGED <<active, log, faults>>

\* A process dies and comes back: its memory and its sessions are gone, its
\* log rows stay running.
Restart(p) ==
    /\ Fault
    /\ active' = [active EXCEPT ![p] = {}]
    /\ run' = [i \in Runs |-> IF run[i].proc = p THEN [run[i] EXCEPT !.pc = "done"]
                              ELSE run[i]]
    /\ lock' = [j \in LockedJobs |->
                  IF lock[j] # NoRun /\ run[lock[j]].proc = p THEN NoRun ELSE lock[j]]
    /\ UNCHANGED log

-----------------------------------------------------------------------------

Step(i) ==
    \/ CreateLog(i)
    \/ TakeLock(i)
    \/ LockBusy(i)
    \/ Work(i)
    \/ Unlock(i)
    \/ CloseLog(i)

Next ==
    \/ \E p \in Processes, j \in Jobs, i \in Runs : Tick(p, j, i)
    \/ \E i \in Runs : Step(i)
    \/ \E i \in Runs : CreateLogFails(i) \/ CloseLogFails(i) \/ LockFails(i)
    \/ \E p \in Processes : Restart(p)

Spec == Init /\ [][Next]_vars

\* Every await of a run settles; ticks, failures and restarts are not promised.
FairSpec == Spec /\ \A i \in Runs : WF_vars(Step(i))
-----------------------------------------------------------------------------
(* Properties *)

TypeOK ==
    /\ active \in [Processes -> SUBSET Jobs]
    /\ run \in [Runs -> RunType]
    /\ log \in [Runs -> {"none", "running"} \cup Outcomes]
    /\ lock \in [LockedJobs -> Runs \cup {NoRun}]
    /\ faults \in 0 .. MaxFaults

\* One process never has two runs of a job in flight, however long a run takes
\* and whichever of its writes fail.
OneRunPerProcess ==
    \A i, k \in Runs :
        Live(i) /\ Live(k) /\ run[i].proc = run[k].proc /\ run[i].job = run[k].job => i = k

\* The handler of a locked job runs in one process at a time.
LockedJobRunsAlone ==
    \A i, k \in Runs :
        /\ run[i].pc = "work" /\ run[k].pc = "work"
        /\ run[i].job = run[k].job /\ run[i].job \in LockedJobs
        => i = k

\* A run that got past its first write gives its job back: unless the process
\* restarts first, the name leaves activeJobs after a success, a failure, a
\* skipped lock and a log that cannot be written.
JobGivenBack ==
    \A i \in Runs :
        run[i].pc \notin {"unused", "create", "done"}
            ~> run[i].pc = "done" /\ run[i].job \notin active[run[i].proc]

\* "skipped: already running": the name is in activeJobs only while a run of
\* the job is in flight.
ActiveMeansRunning ==
    \A p \in Processes : \A j \in active[p] :
        \E i \in Runs : Live(i) /\ run[i].proc = p /\ run[i].job = j
=============================================================================
