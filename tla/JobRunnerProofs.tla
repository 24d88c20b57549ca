--------------------------- MODULE JobRunnerProofs ---------------------------
(***************************************************************************)
(* Theorems of JobRunner, for any processes, jobs, registrations and runs. *)
(***************************************************************************)
EXTENDS JobRunner, TLAPS

USE JobRunnerAssumption

\* A run in flight has its name in activeJobs of its process, and the handler
\* of a locked job, until its unlock, is the holder of the lock.
InFlight(i) ==
    /\ Live(i) => /\ run[i].proc \in Processes /\ run[i].job \in Jobs
                  /\ run[i].job \in active[run[i].proc]
    /\ run[i].pc \in {"lock", "unlock"} => run[i].job \in LockedJobs
    /\ run[i].pc \in {"work", "unlock"} /\ run[i].job \in LockedJobs
          => lock[run[i].job] = i

Inv ==
    /\ TypeOK
    /\ OneRunPerProcess
    /\ \A i \in Runs : InFlight(i)

\* The new pc and outcome of one run.
LEMMA RunMoves ==
    ASSUME Inv, NEW i \in Runs, NEW pc \in {"lock", "work", "unlock", "close", "done"},
           NEW result \in Outcomes, Ends(i, pc, result)
    PROVE  /\ run' \in [Runs -> RunType]
           /\ run'[i].pc = pc /\ run'[i].proc = run[i].proc /\ run'[i].job = run[i].job
           /\ \A k \in Runs : k # i => run'[k] = run[k]
<1> DEFINE new == [run[i] EXCEPT !.pc = pc, !.result = result]
<1>a. pc \in PCs /\ run[i] \in RunType
  BY DEF PCs, Inv, TypeOK
<1>1. new \in RunType /\ new.pc = pc /\ new.proc = run[i].proc /\ new.job = run[i].job
  BY <1>a DEF RunType
<1>2. run' = [run EXCEPT ![i] = new]
  BY DEF Ends, Inv, TypeOK
<1> HIDE DEF new
<1> QED BY <1>1, <1>2 DEF Inv, TypeOK

LEMMA GotoEnds ==
    ASSUME Inv, NEW i \in Runs, NEW pc, Goto(i, pc)
    PROVE  run[i].result \in Outcomes /\ Ends(i, pc, run[i].result)
<1>1. [run[i] EXCEPT !.pc = pc] = [run[i] EXCEPT !.pc = pc, !.result = run[i].result]
  BY DEF Inv, TypeOK, RunType
<1> QED BY <1>1 DEF Inv, TypeOK, RunType, Goto, Ends

\* A run that goes on keeps its name in activeJobs; one that ends takes away
\* nothing another run relies on.
LEMMA RunStep ==
    ASSUME Inv, NEW i \in Runs, Live(i),
           NEW pc \in {"lock", "work", "unlock", "close", "done"},
           NEW result \in Outcomes, Ends(i, pc, result),
           pc \in {"lock", "unlock"} => run[i].job \in LockedJobs,
           pc \in {"work", "unlock"} /\ run[i].job \in LockedJobs
              => lock'[run[i].job] = i,
           active' = active \/ (pc = "done" /\ Deactivate(i)),
           log' \in [Runs -> {"none", "running"} \cup Outcomes],
           lock' \in [LockedJobs -> Runs \cup {NoRun}],
           faults' \in 0 .. MaxFaults,
           \A j \in LockedJobs : lock[j] \notin {i, NoRun} => lock'[j] = lock[j]
    PROVE  Inv'
<1>1. /\ run' \in [Runs -> RunType]
      /\ run'[i].pc = pc /\ run'[i].proc = run[i].proc /\ run'[i].job = run[i].job
      /\ \A k \in Runs : k # i => run'[k] = run[k]
  BY RunMoves
<1>2. run[i].proc \in Processes /\ run[i].job \in Jobs
  BY DEF Inv, InFlight
<1>3. TypeOK'
  BY <1>1, <1>2 DEF Inv, TypeOK, Deactivate
<1>4. OneRunPerProcess'
  BY <1>1 DEF Inv, OneRunPerProcess, Live
<1>5. InFlight(i)'
  BY <1>1, <1>2 DEF Inv, InFlight, Live
<1>6. ASSUME NEW k \in Runs, k # i PROVE InFlight(k)'
  <2>1. InFlight(k) /\ run'[k] = run[k]
    BY <1>1, <1>6 DEF Inv
  <2>2. Live(k) => /\ run[k].proc \in Processes /\ run[k].job \in Jobs
                   /\ run[k].job \in active'[run[k].proc]
    BY <1>2, <1>6, <2>1 DEF Inv, TypeOK, OneRunPerProcess, InFlight, Deactivate
  <2>3. run[k].pc \in {"work", "unlock"} /\ run[k].job \in LockedJobs
          => lock'[run[k].job] = k
    BY <1>6, <2>1 DEF InFlight
  <2> QED BY <2>1, <2>2, <2>3 DEF InFlight, Live
<1> QED BY <1>3, <1>4, <1>5, <1>6 DEF Inv

LEMMA InitInv == Init => Inv
BY DEF Init, Inv, TypeOK, OneRunPerProcess, InFlight, Live, NotStarted, RunType, PCs,
       Outcomes

LEMMA TickInv ==
    ASSUME Inv, NEW p \in Processes, NEW j \in Jobs, NEW i \in Runs, Tick(p, j, i)
    PROVE  Inv'
<1> DEFINE new == [NotStarted EXCEPT !.pc = "create", !.proc = p, !.job = j]
<1>1. new \in RunType /\ new.pc = "create" /\ new.proc = p /\ new.job = j
  BY DEF NotStarted, RunType, PCs, Outcomes
<1>2. /\ run[i].pc = "unused" /\ j \notin active[p] /\ log' = log /\ lock' = lock
      /\ active' = [active EXCEPT ![p] = @ \cup {j}] /\ faults' = faults
      /\ run' = [run EXCEPT ![i] = new]
  BY DEF Tick
<1> HIDE DEF new
<1>3. TypeOK'
  BY <1>1, <1>2 DEF Inv, TypeOK
<1>4. /\ run'[i] = new
      /\ \A k \in Runs : k # i => run'[k] = run[k]
      /\ \A q \in Processes : active[q] \subseteq active'[q]
      /\ j \in active'[p]
  BY <1>2 DEF Inv, TypeOK
<1>5. ASSUME NEW k \in Runs, Live(k) PROVE run[k].proc # p \/ run[k].job # j
  BY <1>2, <1>5 DEF Inv, InFlight
<1>6. OneRunPerProcess'
  BY <1>1, <1>4, <1>5 DEF Inv, OneRunPerProcess, Live
<1>7. ASSUME NEW k \in Runs PROVE InFlight(k)'
  <2>1. CASE k = i
    BY <1>1, <1>4, <2>1 DEF InFlight, Live
  <2>2. CASE k # i
    BY <1>2, <1>4, <2>2 DEF Inv, InFlight, Live
  <2> QED BY <2>1, <2>2
<1> QED BY <1>3, <1>6, <1>7 DEF Inv

LEMMA StepInv ==
    ASSUME Inv, NEW i \in Runs,
           Step(i) \/ CreateLogFails(i) \/ CloseLogFails(i) \/ LockFails(i)
    PROVE  Inv'
<1>0. /\ run[i].result \in Outcomes /\ InFlight(i)
      /\ log \in [Runs -> {"none", "running"} \cup Outcomes]
      /\ lock \in [LockedJobs -> Runs \cup {NoRun}] /\ faults \in 0 .. MaxFaults
  BY DEF Inv, TypeOK, RunType
<1>1. Outcomes = {"success", "failed"} /\ (Fault => faults' \in 0 .. MaxFaults)
  BY <1>0 DEF Outcomes, Fault
<1>2. CASE CreateLog(i)
  <2>1. PICK pc \in {"lock", "work"} :
           /\ pc = "lock" <=> run[i].job \in LockedJobs
           /\ Goto(i, pc)
    BY <1>2 DEF CreateLog
  <2>2. Live(i) /\ log' \in [Runs -> {"none", "running"} \cup Outcomes]
    BY <1>0, <1>2 DEF CreateLog, Live
  <2> QED BY <1>0, <1>2, <2>1, <2>2, GotoEnds, RunStep DEF CreateLog
<1>3. CASE TakeLock(i)
  <2>1. Live(i) /\ run[i].job \in LockedJobs
    BY <1>0, <1>3 DEF TakeLock, Live, InFlight
  <2>2. /\ lock' \in [LockedJobs -> Runs \cup {NoRun}] /\ lock'[run[i].job] = i
        /\ \A j \in LockedJobs : lock[j] \notin {i, NoRun} => lock'[j] = lock[j]
    BY <1>0, <1>3, <2>1 DEF TakeLock
  <2> QED BY <1>0, <1>3, <2>1, <2>2, GotoEnds, RunStep DEF TakeLock
<1>4. CASE LockBusy(i)
  BY <1>0, <1>4, RunStep DEF LockBusy, Live
<1>5. CASE Work(i)
  <2>1. PICK pc \in {"unlock", "close"}, result \in Outcomes :
           /\ pc = "unlock" <=> run[i].job \in LockedJobs
           /\ Ends(i, pc, result)
    BY <1>5 DEF Work
  <2> QED BY <1>0, <1>5, <2>1, RunStep DEF Work, Live, InFlight
<1>6. CASE Unlock(i)
  <2>1. Live(i) /\ run[i].job \in LockedJobs /\ lock[run[i].job] = i
    BY <1>0, <1>6 DEF Unlock, Live, InFlight
  <2>2. /\ lock' \in [LockedJobs -> Runs \cup {NoRun}]
        /\ \A j \in LockedJobs : lock[j] \notin {i, NoRun} => lock'[j] = lock[j]
    BY <1>0, <1>6, <2>1 DEF Unlock
  <2> QED BY <1>0, <1>6, <2>1, <2>2, GotoEnds, RunStep DEF Unlock
<1>7. CASE CloseLog(i) \/ CloseLogFails(i)
  <2>1. /\ Live(i) /\ Goto(i, "done") /\ Deactivate(i) /\ lock' = lock
        /\ faults' \in 0 .. MaxFaults
    BY <1>0, <1>1, <1>7 DEF CloseLog, CloseLogFails, Live
  <2>2. log' \in [Runs -> {"none", "running"} \cup Outcomes]
    BY <1>0, <1>1, <1>7 DEF CloseLog, CloseLogFails
  <2> QED BY <1>0, <2>1, <2>2, GotoEnds, RunStep
<1>8. CASE CreateLogFails(i)
  BY <1>0, <1>1, <1>8, GotoEnds, RunStep DEF CreateLogFails, Live
<1>9. CASE LockFails(i)
  BY <1>0, <1>1, <1>9, RunStep DEF LockFails, Live
<1> QED BY <1>2, <1>3, <1>4, <1>5, <1>6, <1>7, <1>8, <1>9 DEF Step

LEMMA RestartInv ==
    ASSUME Inv, NEW p \in Processes, Restart(p)
    PROVE  Inv'
<1>1. ASSUME NEW k \in Runs
      PROVE  /\ run'[k] \in RunType /\ run'[k].proc = run[k].proc /\ run'[k].job = run[k].job
             /\ run[k].proc = p => run'[k].pc = "done"
             /\ run[k].proc # p => run'[k] = run[k]
  <2>1. run[k] \in RunType /\ "done" \in PCs
    BY DEF Inv, TypeOK, PCs
  <2>2. CASE run[k].proc = p
    BY <2>1, <2>2 DEF Restart, RunType
  <2>3. CASE run[k].proc # p
    BY <2>1, <2>3 DEF Restart
  <2> QED BY <2>2, <2>3
<1>2. run' \in [Runs -> RunType]
  <2>1. DOMAIN run' = Runs /\ run' = [k \in Runs |-> run'[k]]
    BY DEF Restart
  <2> QED BY <1>1, <2>1
<1>3. TypeOK'
  BY <1>2 DEF Inv, TypeOK, Restart, Fault
<1>4. OneRunPerProcess'
  BY <1>1 DEF Inv, OneRunPerProcess, Live
<1>5. ASSUME NEW k \in Runs PROVE InFlight(k)'
  <2>1. CASE run[k].proc = p
    BY <1>1, <2>1 DEF InFlight, Live
  <2>2. CASE run[k].proc # p
    <3>1. run'[k] = run[k] /\ InFlight(k)
      BY <1>1, <2>2 DEF Inv
    <3>2. Live(k) => active'[run[k].proc] = active[run[k].proc]
      BY <2>2, <3>1 DEF Inv, TypeOK, InFlight, Restart
    <3>3. \A j \in LockedJobs : lock[j] = k => lock'[j] = k
      BY <2>2 DEF Restart
    <3> QED BY <3>1, <3>2, <3>3 DEF InFlight, Live
  <2> QED BY <2>1, <2>2
<1> QED BY <1>3, <1>4, <1>5 DEF Inv

LEMMA NextInv == Inv /\ [Next]_vars => Inv'
<1> SUFFICES ASSUME Inv, [Next]_vars PROVE Inv'
  OBVIOUS
<1>1. CASE UNCHANGED vars
  BY <1>1 DEF vars, Inv, TypeOK, OneRunPerProcess, InFlight, Live
<1> QED BY <1>1, TickInv, StepInv, RestartInv DEF Next

\* Every variable keeps its type.
THEOREM TypeCorrect == Spec => []TypeOK
<1>1. Inv => TypeOK
  BY DEF Inv
<1> QED BY <1>1, InitInv, NextInv, PTL DEF Spec

\* activeJobs keeps two runs of a job from overlapping in one process, through
\* failed writes and restarts of others.
THEOREM OneRunPerProcessHolds == Spec => []OneRunPerProcess
<1>1. Inv => OneRunPerProcess
  BY DEF Inv
<1> QED BY <1>1, InitInv, NextInv, PTL DEF Spec

\* The advisory lock keeps the handlers of a policy job from overlapping in any
\* two processes.
THEOREM LockedJobRunsAloneHolds == Spec => []LockedJobRunsAlone
<1>1. Inv => LockedJobRunsAlone
  BY DEF Inv, InFlight, LockedJobRunsAlone
<1> QED BY <1>1, InitInv, NextInv, PTL DEF Spec
=============================================================================
