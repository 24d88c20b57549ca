------------------------ MODULE PolicyRemindersProofs ------------------------
(***************************************************************************)
(* Theorems of PolicyReminders, for any reminders, processes, runs and      *)
(* bounds.  Its runs are those of JobRunner, whose invariant is used here.  *)
(***************************************************************************)
EXTENDS PolicyReminders, JobRunnerProofs

USE RemindersAssumption

\* Run i has sent its reminder and not yet written that down.
InHand(i, k) == At(i, "write") /\ visit[i].key = k

\* k is marked delivered, or about to be.
Settled(k) == logged[k] = "delivered" \/ \E i \in Runs : InHand(i, k)

\* A copy that left no mark has cost a crash or an error.
Counted(k) ==
    /\ sent[k] <= 1 + faults + errors
    /\ ~Settled(k) => sent[k] <= faults + errors
    /\ (\E i \in Runs : At(i, "fail") /\ visit[i].key = k) => sent[k] <= faults + errors

\* Only the run that holds the lock has a handler; while it holds a reminder it
\* knows the row.
Holding(i) ==
    /\ run[i].pc # "work" \/ run[i].job # RemindersJob => visit[i] = Idle
    /\ visit[i].at \in {"send", "write", "fail"} => visit[i].key \in Reminders
    /\ visit[i].at \in {"send", "write"}
         => visit[i].seen = logged[visit[i].key] /\ visit[i].seen # "delivered"
    /\ visit[i].at = "write" => sent[visit[i].key] > 0
    /\ visit[i].seen # "none" => visit[i].key \in Loggable

RInv ==
    /\ Inv
    /\ RemindersTypeOK
    /\ \A i \in Runs : Holding(i)
    /\ \A k \in Reminders : logged[k] # "none" => k \in Loggable
    /\ DeliveredWasSent
    /\ \A k \in Loggable : Counted(k)

\* One handler at a time, so one reminder in hand.
LEMMA OneHandler ==
    ASSUME RInv, NEW i \in Runs, run[i].pc = "work", run[i].job = RemindersJob,
           NEW k \in Runs, visit[k] # Idle
    PROVE  i = k
<1>1. run[k].pc = "work" /\ run[k].job = RemindersJob
  BY DEF RInv, Holding
<1> QED BY <1>1 DEF RInv, Inv, InFlight

LEMMA AtIsBusy ==
    ASSUME NEW i \in Runs, NEW at, At(i, at), at # "start"
    PROVE  visit[i] # Idle
BY DEF At, Idle

LEMMA InitRInv == RemindersInit => RInv
<1> SUFFICES ASSUME RemindersInit PROVE RInv
  OBVIOUS
<1>1. Inv
  BY InitInv DEF RemindersInit
<1>2. Idle \in VisitType /\ Idle.at = "start" /\ Idle.seen = "none"
  BY DEF Idle, VisitType, Logs
<1>3. RemindersTypeOK
  BY <1>2 DEF RemindersInit, RemindersTypeOK, Logs
<1>4. \A i \in Runs : Holding(i)
  BY <1>2 DEF RemindersInit, Holding
<1>5. \A k \in Loggable : Counted(k)
  BY DEF RemindersInit, Init, Counted
<1> QED BY <1>1, <1>3, <1>4, <1>5 DEF RInv, RemindersInit, DeliveredWasSent

\* What a step of the handler leaves alone.
LEMMA HandlerFrame ==
    ASSUME RInv, NEW i \in Runs, visit[i].at # "start" \/ At(i, "start"),
           NEW new \in VisitType, visit' = [visit EXCEPT ![i] = new],
           UNCHANGED vars
    PROVE  /\ Inv' /\ visit'[i] = new /\ visit' \in [Runs -> VisitType]
           /\ \A j \in Runs : j # i => visit'[j] = visit[j] /\ visit[j] = Idle
           /\ run[i].pc = "work" /\ run[i].job = RemindersJob
           /\ run' = run /\ faults' = faults
<1>1. Inv'
  BY NextInv DEF RInv
<1>2. run[i].pc = "work" /\ run[i].job = RemindersJob
  BY DEF RInv, Holding, At, Idle
<1>3. ASSUME NEW j \in Runs, j # i PROVE visit[j] = Idle
  <2>1. ~(run[j].pc = "work" /\ run[j].job = RemindersJob)
    BY <1>2, <1>3 DEF RInv, Inv, InFlight
  <2> QED BY <2>1 DEF RInv, Holding
<1> QED BY <1>1, <1>2, <1>3 DEF RInv, RemindersTypeOK, vars

\* The obligations of a step of the handler, reminder by reminder.
LEMMA HandlerStep ==
    ASSUME RInv, NEW i \in Runs, visit[i].at # "start" \/ At(i, "start"),
           NEW new \in VisitType, visit' = [visit EXCEPT ![i] = new], UNCHANGED vars,
           sent' \in [Reminders -> Nat], logged' \in [Reminders -> Logs],
           errors' \in 0 .. MaxErrors,
           new.at \in {"send", "write", "fail"} => new.key \in Reminders,
           new.at \in {"send", "write"}
             => new.seen = logged'[new.key] /\ new.seen # "delivered",
           new.at = "write" => sent'[new.key] > 0,
           new.seen # "none" => new.key \in Loggable,
           \A k \in Reminders : /\ logged'[k] # "none" => k \in Loggable
                                /\ logged'[k] = "delivered" => sent'[k] > 0,
           \A k \in Loggable :
              /\ sent'[k] <= 1 + faults + errors'
              /\ \/ logged'[k] = "delivered"
                 \/ new.at = "write" /\ new.key = k
                 \/ sent'[k] <= faults + errors'
              /\ new.at = "fail" /\ new.key = k => sent'[k] <= faults + errors'
    PROVE  RInv'
<1>1. /\ Inv' /\ visit'[i] = new /\ visit' \in [Runs -> VisitType]
      /\ \A j \in Runs : j # i => visit'[j] = Idle
      /\ run[i].pc = "work" /\ run[i].job = RemindersJob
      /\ run' = run /\ faults' = faults
  <2>1. /\ Inv' /\ visit'[i] = new /\ visit' \in [Runs -> VisitType]
        /\ \A j \in Runs : j # i => visit'[j] = visit[j] /\ visit[j] = Idle
        /\ run[i].pc = "work" /\ run[i].job = RemindersJob
        /\ run' = run /\ faults' = faults
    BY HandlerFrame
  <2> QED BY <2>1
<1>2. Idle.at = "start" /\ Idle.seen = "none"
  BY DEF Idle
<1>3. \A j \in Runs : Holding(j)'
  BY <1>1, <1>2 DEF Holding
<1>4. \A k \in Loggable : Counted(k)'
  BY <1>1, <1>2 DEF Counted, Settled, InHand, At
<1> QED BY <1>1, <1>3, <1>4 DEF RInv, RemindersTypeOK, DeliveredWasSent

LEMMA RemindInv ==
    ASSUME RInv, NEW i \in Runs, Remind(i) \/ RemindFails(i)
    PROVE  RInv'
<1> DEFINE v == visit[i]
<1> DEFINE f == faults + errors
<1>0. /\ v \in VisitType /\ sent \in [Reminders -> Nat] /\ logged \in [Reminders -> Logs]
      /\ errors \in 0 .. MaxErrors /\ faults \in Nat /\ Holding(i) /\ f \in Nat
      /\ Loggable \subseteq Reminders
  BY DEF RInv, RemindersTypeOK, Inv, TypeOK
<1>1. /\ \A k \in Reminders : /\ logged[k] # "none" => k \in Loggable
                              /\ logged[k] = "delivered" => sent[k] > 0
      /\ \A k \in Loggable : sent[k] <= 1 + f
  BY <1>0 DEF RInv, DeliveredWasSent, Counted
<1>w. run[i].pc = "work" /\ run[i].job = RemindersJob
  BY DEF Remind, RemindFails, Evaluate, Look, LookFails, Send, SendFails, SendUnanswered,
         Write, WriteRejected, WriteFails, RecordFailure, RecordFails, At
<1>2. ASSUME NEW k \in Loggable, logged[k] # "delivered",
             visit[i].at # "write" \/ visit[i].key # k
      PROVE  sent[k] <= f
  <2>1. ASSUME NEW j \in Runs, InHand(j, k) PROVE FALSE
    <3>1. visit[j] # Idle /\ visit[j].at = "write" /\ visit[j].key = k
      BY <2>1, AtIsBusy DEF InHand, At
    <3>2. j = i
      BY <1>w, <3>1, OneHandler
    <3> QED BY <1>2, <3>1, <3>2
  <2>2. ~Settled(k)
    BY <1>2, <2>1 DEF Settled
  <2> QED BY <2>2 DEF RInv, Counted
<1>3. ASSUME NEW k \in Loggable, At(i, "fail"), v.key = k PROVE sent[k] <= f
  BY <1>3, <1>0 DEF RInv, Counted
<1>5. ASSUME NEW lost, Skip(i, lost), At(i, "loop") \/ At(i, "write") \/ At(i, "fail"),
             UNCHANGED vars, sent' = sent, logged' \in [Reminders -> Logs],
             errors' \in 0 .. MaxErrors, errors <= errors',
             \A k \in Reminders : /\ logged'[k] # "none" => k \in Loggable
                                  /\ logged'[k] = "delivered" => sent[k] > 0,
             \A k \in Loggable : logged'[k] = "delivered" \/ sent[k] <= f
      PROVE  RInv'
  <2> DEFINE new == [Idle EXCEPT !.at = "loop", !.todo = v.todo \ lost]
  <2>1. new \in VisitType /\ new.at = "loop" /\ new.seen = "none"
    BY <1>0 DEF VisitType, Idle, Logs
  <2>2. visit' = [visit EXCEPT ![i] = new] /\ v.at # "start"
    BY <1>5 DEF Skip, At
  <2>3. \A k \in Loggable : /\ sent'[k] <= 1 + faults + errors'
                            /\ logged'[k] = "delivered" \/ sent'[k] <= faults + errors'
    BY <1>0, <1>1, <1>5
  <2> HIDE DEF new
  <2> QED BY <1>0, <1>5, <2>1, <2>2, <2>3, HandlerStep
<1>6. ASSUME NEW at \in {"write", "fail"}, Proceed(i, at),
             At(i, "send") \/ At(i, "write"), UNCHANGED vars,
             sent' \in [Reminders -> Nat], logged' \in [Reminders -> Logs],
             errors' \in 0 .. MaxErrors, errors <= errors',
             at = "write" => v.seen = logged'[v.key] /\ v.seen # "delivered"
                             /\ sent'[v.key] > 0,
             \A k \in Reminders : /\ logged'[k] # "none" => k \in Loggable
                                  /\ logged'[k] = "delivered" => sent'[k] > 0,
             \A k \in Loggable \ {v.key} : sent'[k] = sent[k] /\ logged'[k] = logged[k],
             v.key \in Loggable => sent'[v.key] <= faults + errors' + (IF at = "write" THEN 1 ELSE 0)
      PROVE  RInv'
  <2> DEFINE new == [v EXCEPT !.at = at]
  <2>1. new \in VisitType /\ new.at = at /\ new.seen = v.seen /\ new.key = v.key
    BY <1>0 DEF VisitType
  <2>2. visit' = [visit EXCEPT ![i] = new] /\ v.at # "start" /\ v.key \in Reminders
    BY <1>0, <1>6 DEF Proceed, At, Holding
  <2>3. /\ new.seen # "none" => new.key \in Loggable
        /\ new.at \in {"send", "write"}
             => new.seen = logged'[new.key] /\ new.seen # "delivered"
        /\ new.at = "write" => sent'[new.key] > 0
    BY <1>0, <1>6, <2>1 DEF Holding
  <2>4. ASSUME NEW k \in Loggable
        PROVE  /\ sent'[k] <= 1 + faults + errors'
               /\ \/ logged'[k] = "delivered"
                  \/ new.at = "write" /\ new.key = k
                  \/ sent'[k] <= faults + errors'
               /\ new.at = "fail" /\ new.key = k => sent'[k] <= faults + errors'
    <3>1. CASE k = v.key
      BY <1>0, <1>6, <2>1, <3>1
    <3>2. CASE k # v.key
      <4>1. logged[k] = "delivered" \/ sent[k] <= f
        BY <1>2, <3>2
      <4> QED BY <1>0, <1>1, <1>6, <2>1, <3>2, <4>1
    <3> QED BY <3>1, <3>2
  <2> HIDE DEF new
  <2> QED BY <1>0, <1>6, <2>1, <2>2, <2>3, <2>4, HandlerStep
<1>7. ASSUME NEW new \in VisitType, visit' = [visit EXCEPT ![i] = new],
             At(i, "start") \/ At(i, "loop"), UNCHANGED <<vars, sent, logged, errors>>,
             new.at \in {"loop", "send"},
             new.at = "send" => /\ new.key \in Reminders
                                /\ new.seen = logged[new.key] /\ new.seen # "delivered",
             new.seen # "none" => new.key \in Loggable
      PROVE  RInv'
  <2>1. /\ v.at # "start" \/ At(i, "start")
        /\ new.at # "write" /\ new.at # "fail" /\ v.at # "write"
        /\ UNCHANGED vars /\ sent' = sent /\ logged' = logged /\ errors' = errors
    BY <1>7 DEF At
  <2>2. ASSUME NEW k \in Loggable
        PROVE  /\ sent'[k] <= 1 + faults + errors'
               /\ logged'[k] = "delivered" \/ sent'[k] <= faults + errors'
    BY <1>0, <1>1, <1>2, <2>1
  <2>3. /\ sent' \in [Reminders -> Nat] /\ logged' \in [Reminders -> Logs]
        /\ errors' \in 0 .. MaxErrors
        /\ \A k \in Reminders : /\ logged'[k] # "none" => k \in Loggable
                                /\ logged'[k] = "delivered" => sent'[k] > 0
        /\ new.at \in {"send", "write", "fail"} => new.key \in Reminders
        /\ new.at \in {"send", "write"}
             => new.seen = logged'[new.key] /\ new.seen # "delivered"
    BY <1>0, <1>1, <1>7, <2>1
  <2> QED BY <1>7, <2>1, <2>2, <2>3, HandlerStep
<1>a. CASE Evaluate(i)
  <2>1. PICK due \in SUBSET Reminders :
           visit' = [visit EXCEPT ![i] = [Idle EXCEPT !.at = "loop", !.todo = due]]
    BY <1>a DEF Evaluate
  <2> DEFINE new == [Idle EXCEPT !.at = "loop", !.todo = due]
  <2>4. visit' = [visit EXCEPT ![i] = new] /\ At(i, "start")
    BY <1>a, <2>1 DEF Evaluate
  <2>2. new \in VisitType /\ new.at = "loop" /\ new.seen = "none"
    BY DEF VisitType, Idle, Logs
  <2> HIDE DEF new
  <2> QED BY <1>7, <1>a, <2>2, <2>4 DEF Evaluate
<1>b. CASE Look(i)
  <2>1. PICK k \in Current(i) :
           \/ visit' = [visit EXCEPT ![i].todo = v.todo \ {k}]
           \/ /\ logged[k] # "delivered"
              /\ visit' = [visit EXCEPT ![i] = [at |-> "send", todo |-> v.todo \ {k},
                                                key |-> k, seen |-> logged[k]]]
    BY <1>b DEF Look
  <2>2. k \in Reminders /\ v.todo \subseteq Reminders
    BY <1>0 DEF Current, VisitType
  <2>4. CASE visit' = [visit EXCEPT ![i].todo = v.todo \ {k}]
    <3> DEFINE new == [v EXCEPT !.todo = v.todo \ {k}]
    <3>1. /\ new \in VisitType /\ new.at = "loop" /\ new.seen = v.seen /\ new.key = v.key
          /\ v.at = "loop"
      BY <1>0, <1>b, <2>2 DEF VisitType, Look, At
    <3>2. visit' = [visit EXCEPT ![i] = new]
      BY <2>4
    <3> HIDE DEF new
    <3>3. new.seen # "none" => new.key \in Loggable
      BY <1>0, <3>1 DEF Holding
    <3> QED BY <1>7, <1>b, <3>1, <3>2, <3>3 DEF Look
  <2>5. CASE /\ logged[k] # "delivered"
             /\ visit' = [visit EXCEPT ![i] = [at |-> "send", todo |-> v.todo \ {k},
                                               key |-> k, seen |-> logged[k]]]
    <3> DEFINE new == [at |-> "send", todo |-> v.todo \ {k}, key |-> k, seen |-> logged[k]]
    <3>1. new \in VisitType /\ new.at = "send" /\ new.seen = logged[k] /\ new.key = k
      BY <1>0, <2>2 DEF VisitType
    <3>2. visit' = [visit EXCEPT ![i] = new] /\ v.at # "start"
      BY <1>b, <2>5 DEF Look, At
    <3>3. new.seen # "none" => new.key \in Loggable
      BY <1>1, <2>2, <3>1
    <3> HIDE DEF new
    <3> QED BY <1>7, <1>b, <2>2, <2>5, <3>1, <3>2, <3>3 DEF Look
  <2> QED BY <2>1, <2>4, <2>5
<1>c. CASE LookFails(i)
  <2>1. \A k \in Loggable : logged[k] = "delivered" \/ sent[k] <= f
    BY <1>2, <1>c DEF LookFails, At
  <2> QED BY <1>0, <1>1, <1>5, <1>c, <2>1 DEF LookFails, Error
<1>d. CASE Send(i) \/ SendFails(i) \/ SendUnanswered(i)
  <2>1. /\ At(i, "send") /\ v.at = "send" /\ v.key \in Reminders
        /\ v.seen = logged[v.key] /\ v.seen # "delivered"
        /\ logged' = logged
    BY <1>0, <1>d DEF Send, SendFails, SendUnanswered, At, Holding
  <2>2. v.key \in Loggable => sent[v.key] <= f
    BY <1>2, <2>1
  <2>3. CASE Send(i)
    BY <1>0, <1>1, <1>6, <2>1, <2>2, <2>3 DEF Send
  <2>4. CASE SendFails(i)
    BY <1>0, <1>1, <1>6, <2>1, <2>2, <2>4 DEF SendFails
  <2>5. CASE SendUnanswered(i)
    BY <1>0, <1>1, <1>6, <2>1, <2>2, <2>5 DEF SendUnanswered, Error
  <2> QED BY <1>d, <2>3, <2>4, <2>5
<1>e. CASE Write(i) \/ WriteRejected(i) \/ WriteFails(i)
  <2>1. /\ At(i, "write") /\ v.at = "write" /\ v.key \in Reminders /\ sent[v.key] > 0
        /\ v.seen = logged[v.key] /\ v.seen # "delivered"
        /\ sent' = sent
    BY <1>0, <1>e DEF Write, WriteRejected, WriteFails, At, Holding
  <2>2. Writable(i) <=> v.key \in Loggable
    BY <1>1, <2>1 DEF Writable
  <2>3. CASE Write(i)
    <3>1. \A k \in Loggable : logged'[k] = "delivered" \/ sent[k] <= f
      BY <1>0, <1>2, <2>1, <2>3 DEF Write
    <3>2. logged' \in [Reminders -> Logs]
      BY <1>0, <2>3 DEF Write, Logs
    <3> QED BY <1>0, <1>1, <1>5, <2>1, <2>2, <2>3, <3>1, <3>2 DEF Write, NextReminder
  <2>4. CASE WriteRejected(i)
    BY <1>0, <1>1, <1>6, <2>1, <2>2, <2>4 DEF WriteRejected
  <2>5. CASE WriteFails(i)
    <3>1. logged' \in [Reminders -> Logs]
      BY <1>0, <2>5 DEF WriteFails, Logs
    <3>2. /\ \A k \in Reminders : logged'[k] # "none" => k \in Loggable
          /\ \A k \in Reminders : logged'[k] = "delivered" => sent[k] > 0
          /\ \A k \in Loggable \ {v.key} : logged'[k] = logged[k]
      BY <1>0, <1>1, <2>1, <2>2, <2>5 DEF WriteFails
    <3>3. /\ errors' = errors + 1 /\ errors' \in 0 .. MaxErrors
          /\ Proceed(i, "fail") /\ UNCHANGED vars
      BY <1>0, <2>5 DEF WriteFails, Error
    <3> QED BY <1>0, <1>1, <1>6, <2>1, <3>1, <3>2, <3>3
  <2> QED BY <1>e, <2>3, <2>4, <2>5
<1>f. CASE RecordFailure(i) \/ RecordFails(i)
  <2>1. /\ At(i, "fail") /\ v.at = "fail" /\ v.key \in Reminders /\ sent' = sent
        /\ v.seen # "none" => v.key \in Loggable
    BY <1>0, <1>f DEF RecordFailure, RecordFails, At, Holding
  <2>2. Writable(i) => v.key \in Loggable
    BY <2>1 DEF Writable
  <2>3. \A k \in Loggable : logged[k] = "delivered" \/ sent[k] <= f
    BY <1>2, <2>1
  <2>4. CASE RecordFailure(i)
    <3>1. logged' \in [Reminders -> Logs]
      BY <1>0, <2>4 DEF RecordFailure, Logs
    <3>2. /\ \A k \in Reminders : /\ logged'[k] # "none" => k \in Loggable
                                  /\ logged'[k] = "delivered" => sent[k] > 0
          /\ \A k \in Loggable : logged'[k] = "delivered" \/ sent[k] <= f
      BY <1>0, <1>1, <1>3, <2>1, <2>2, <2>3, <2>4 DEF RecordFailure
    <3> QED BY <1>0, <1>5, <2>1, <2>4, <3>1, <3>2 DEF RecordFailure, NextReminder
  <2>5. CASE RecordFails(i)
    <3>1. PICK lost : Skip(i, lost)
      BY <2>5 DEF RecordFails
    <3> QED BY <1>0, <1>1, <1>5, <2>1, <2>3, <2>5, <3>1 DEF RecordFails, Error
  <2> QED BY <1>f, <2>4, <2>5
<1> QED BY <1>a, <1>b, <1>c, <1>d, <1>e, <1>f DEF Remind, RemindFails

\* A run stops working only when its handler has returned, or in a crash.
LEMMA WorkEnds ==
    ASSUME RInv, Next, NEW i \in Runs, run[i].pc = "work", run[i].job \in LockedJobs,
           run'[i].pc # "work"
    PROVE  run'[i].pc = "unlock" \/ faults' = faults + 1
<1>1. run \in [Runs -> RunType] /\ run[i].job \in LockedJobs
  BY DEF RInv, Inv, TypeOK
<1>2. CASE \E p \in Processes, j \in Jobs, k \in Runs : Tick(p, j, k)
  BY <1>1, <1>2 DEF Tick
<1>3. CASE \E k \in Runs : Step(k)
  <2>1. PICK k \in Runs : Step(k)
    BY <1>3
  <2>2. CASE k = i
    BY <1>1, <2>1, <2>2 DEF Step, CreateLog, TakeLock, LockBusy, Work, Unlock, CloseLog,
                            Goto, Ends, RunType
  <2>3. CASE k # i
    BY <1>1, <2>1, <2>3 DEF Step, CreateLog, TakeLock, LockBusy, Work, Unlock, CloseLog,
                            Goto, Ends
  <2> QED BY <2>2, <2>3
<1>4. CASE \E k \in Runs : CreateLogFails(k) \/ CloseLogFails(k) \/ LockFails(k)
  BY <1>4 DEF CreateLogFails, CloseLogFails, LockFails, Fault
<1>5. CASE \E p \in Processes : Restart(p)
  BY <1>5 DEF Restart, Fault
<1> QED BY <1>2, <1>3, <1>4, <1>5 DEF Next

\* Runs keep their job once started, and no step gives a fault back.
LEMMA RunnerStep ==
    ASSUME RInv, Next
    PROVE  /\ faults' \in {faults, faults + 1}
           /\ \A i \in Runs : run[i].pc = "work" => run'[i].job = run[i].job
           /\ \A i \in Runs : run'[i].pc = "work" /\ run[i].pc # "work"
                                => run[i].pc \in {"create", "lock"}
<1>1. run \in [Runs -> RunType]
  BY DEF RInv, Inv, TypeOK
<1>2. CASE \E p \in Processes, j \in Jobs, k \in Runs : Tick(p, j, k)
  BY <1>1, <1>2 DEF Tick, NotStarted
<1>3. ASSUME NEW k \in Runs, Step(k) \/ CreateLogFails(k) \/ CloseLogFails(k) \/ LockFails(k)
      PROVE  /\ faults' \in {faults, faults + 1}
             /\ \A i \in Runs : run'[i].job = run[i].job
             /\ \A i \in Runs : run'[i].pc = "work" /\ run[i].pc # "work"
                                  => run[i].pc \in {"create", "lock"}
  BY <1>1, <1>3 DEF Step, CreateLog, TakeLock, LockBusy, Work, Unlock, CloseLog,
     CreateLogFails, CloseLogFails, LockFails, Fault, Goto, Ends, RunType
<1>4. CASE \E p \in Processes : Restart(p)
  BY <1>1, <1>4 DEF Restart, Fault, RunType
<1> QED BY <1>2, <1>3, <1>4 DEF Next

LEMMA AroundInv ==
    ASSUME RInv, Next, Around
    PROVE  RInv'
<1>1. Inv'
  BY NextInv DEF RInv
<1>2. Idle \in VisitType /\ Idle.at = "start" /\ Idle.seen = "none"
  BY DEF Idle, VisitType, Logs
<1>3. RemindersTypeOK'
  BY <1>2 DEF RInv, RemindersTypeOK, Around
<1>4. faults \in Nat /\ errors \in Nat /\ faults' \in {faults, faults + 1}
  BY RunnerStep DEF RInv, Inv, TypeOK, RemindersTypeOK
<1>5. ASSUME NEW i \in Runs PROVE visit'[i] \in {visit[i], Idle} /\ Holding(i)'
  <2>1. visit'[i] = IF run'[i].pc = "work" THEN visit[i] ELSE Idle
    BY DEF Around
  <2>2. run'[i].pc = "work" /\ run'[i].job # RemindersJob => visit[i] = Idle
    BY RunnerStep DEF RInv, Holding
  <2> QED BY <1>2, <2>1, <2>2 DEF RInv, Holding, Around
<1>6. ASSUME NEW k \in Loggable PROVE Counted(k)'
  <2>1. Counted(k) /\ sent' = sent /\ logged' = logged /\ errors' = errors
        /\ sent[k] \in Nat
    BY DEF RInv, Around, RemindersTypeOK
  <2>2. (\E i \in Runs : At(i, "fail")' /\ visit'[i].key = k)
          => \E i \in Runs : At(i, "fail") /\ visit[i].key = k
    BY <1>2, <1>5 DEF At, RInv, Holding
  <2>3. CASE faults' = faults + 1
    BY <1>4, <2>1, <2>3 DEF Counted
  <2>4. CASE faults' = faults
    <3>1. ASSUME NEW i \in Runs, InHand(i, k) PROVE InHand(i, k)'
      <4>1. run'[i].pc = "work"
        BY <1>4, <2>4, <3>1, WorkEnds DEF InHand, At, Around, Finished
      <4> QED BY <3>1, <4>1, RunnerStep DEF InHand, At, Around
    <3> QED BY <2>1, <2>2, <2>4, <3>1 DEF Counted, Settled
  <2> QED BY <1>4, <2>3, <2>4
<1> QED BY <1>1, <1>3, <1>5, <1>6 DEF RInv, DeliveredWasSent, Around

LEMMA RemindersNextInv == RInv /\ [RemindersNext]_allVars => RInv'
<1> SUFFICES ASSUME RInv, [RemindersNext]_allVars PROVE RInv'
  OBVIOUS
<1>1. CASE UNCHANGED allVars
  <2>1. UNCHANGED <<active, run, log, lock, faults, sent, logged, visit, errors>>
    BY <1>1 DEF allVars
  <2>2. Inv'
    BY <2>1, NextInv DEF RInv, vars
  <2>3. /\ RemindersTypeOK' /\ DeliveredWasSent'
        /\ \A i \in Runs : Holding(i)'
        /\ \A k \in Loggable : Counted(k)'
    BY <2>1 DEF RInv, RemindersTypeOK, DeliveredWasSent, Holding, Counted, Settled, InHand, At
  <2> QED BY <2>1, <2>2, <2>3 DEF RInv
<1> QED BY <1>1, RemindInv, AroundInv DEF RemindersNext

\* The variables of the handler keep their types.
THEOREM RemindersTypeCorrect == RemindersSpec => []RemindersTypeOK
<1>1. RInv => RemindersTypeOK
  BY DEF RInv
<1> QED BY <1>1, InitRInv, RemindersNextInv, PTL DEF RemindersSpec

\* With any number of workers and days, each reminder that can be logged goes
\* out at most once more than there were crashes and errors: what trySend reads
\* before it sends is still true when it sends, thanks to the advisory lock.
THEOREM RemindedOnceHolds == RemindersSpec => []RemindedOnce
<1>1. RInv => RemindedOnce
  BY DEF RInv, RemindedOnce, Counted
<1> QED BY <1>1, InitRInv, RemindersNextInv, PTL DEF RemindersSpec

\* No reminder is marked delivered and lost.
THEOREM DeliveredWasSentHolds == RemindersSpec => []DeliveredWasSent
<1>1. RInv => DeliveredWasSent
  BY DEF RInv
<1> QED BY <1>1, InitRInv, RemindersNextInv, PTL DEF RemindersSpec

\* Running the handler in it, step by step, the runner does what JobRunner says:
\* its theorems hold of the composition.
THEOREM RemindersRunAsJobs == RemindersSpec => Spec
<1>1. RemindersInit => Init
  BY DEF RemindersInit
<1>2. [RemindersNext]_allVars => [Next]_vars
  BY DEF RemindersNext, allVars, vars, Remind, RemindFails, Evaluate, Look, LookFails, Send,
     SendFails, SendUnanswered, Write, WriteRejected, WriteFails, RecordFailure, RecordFails
<1> QED BY <1>1, <1>2, PTL DEF RemindersSpec, Spec
=============================================================================
