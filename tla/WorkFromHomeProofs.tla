------------------------- MODULE WorkFromHomeProofs -------------------------
(***************************************************************************)
(* The locks of the submitting and editing handlers make the overlap check *)
(* and the write one step of the calendar, for any requests, periods and   *)
(* handlers.                                                               *)
(***************************************************************************)
EXTENDS WorkFromHome, TLAPS

Active(r) == row[r].status \in ACTIVE_WFH_STATUSES

\* The period p meets no active request that was not loose, but r itself.
Free(r, p) ==
    \A q \in Requests \ {r} :
        Active(q) /\ q \notin loose => ~Calendar!Overlap(p, row[q].period)

\* The holder of the employee's row is the call inside its transaction.
LockInv == \A c \in Calls : call[c].pc \in {"read", "check", "save"} <=> holder = c

Creating == {"lock", "check", "save", "seek", "insert"}

\* What a call in flight knows of its request.
CallInv(c) ==
    /\ call[c].pc # "idle" => call[c].req \in Requests
    /\ call[c].pc \in Creating \cup {"read"} => call[c].period \in Periods
    /\ call[c].pc = "read" => call[c].edits
    /\ call[c].pc \in {"seek", "insert"} => ~call[c].edits
    /\ call[c].pc \in Creating /\ ~call[c].edits =>
          /\ row[call[c].req].status = "none"
          /\ \A d \in Calls \ {c} : call[d].req # call[c].req
    /\ call[c].pc \in {"check", "save"} /\ call[c].edits => row[call[c].req].status = "pending"
    /\ call[c].pc \in {"lock", "read"} /\ call[c].edits => row[call[c].req].status # "none"
    /\ call[c].pc = "write" =>
          /\ row[call[c].req].status # "none"
          /\ call[c].to \in Closing \cup {"approved"}
    /\ call[c].pc = "save" => Free(call[c].req, call[c].period)

\* No two active requests overlap, but for the loose ones.
Apart ==
    \A r \in Requests : Active(r) /\ r \notin loose => Free(r, row[r].period)

LooseInv == \A r \in Requests : row[r].status \in Closing => r \in loose

IInv == TypeOK /\ LockInv /\ (\A c \in Calls : CallInv(c)) /\ Apart /\ LooseInv

USE HomeAssumption

-----------------------------------------------------------------------------
(* The initial states, and handlers that change no request *)

LEMMA OverlapSymmetric ==
    ASSUME NEW p \in Nat \X Nat, NEW q \in Nat \X Nat
    PROVE  Calendar!Overlap(p, q) <=> Calendar!Overlap(q, p)
BY DEF Calendar!Overlap

LEMMA PeriodType == Periods \cup {NoPeriod} \subseteq Nat \X Nat
BY DEF NoPeriod, Calendar!NoPeriod

LEMMA Initial == Init => IInv
<1> SUFFICES ASSUME Init PROVE IInv
  OBVIOUS
<1>1. TypeOK
  BY DEF Init, TypeOK, Row, Call, Idle, Statuses, PCs
<1>2. LockInv
  BY DEF Init, LockInv, Idle
<1>3. \A c \in Calls : CallInv(c)
  BY DEF Init, CallInv, Creating, Idle
<1>4. Apart
  BY DEF Init, Apart, Active, ACTIVE_WFH_STATUSES
<1>5. LooseInv
  BY DEF Init, LooseInv, Closing
<1> QED BY <1>1, <1>2, <1>3, <1>4, <1>5 DEF IInv

\* A step of one call that leaves the requests alone keeps what the others know.
LEMMA Frame ==
    ASSUME IInv, NEW c \in Calls, NEW s \in Call,
           call' = [call EXCEPT ![c] = s], UNCHANGED <<row, loose>>,
           \/ s.req \in {call[c].req, NoRequest}
           \/ \A d \in Calls : call[d].pc \in Creating /\ ~call[d].edits
                                 => call[d].req # s.req
    PROVE  /\ call' \in [Calls -> Call] /\ call'[c] = s
           /\ \A d \in Calls \ {c} : call'[d] = call[d] /\ CallInv(d)'
           /\ Apart' /\ LooseInv'
<1>1. call \in [Calls -> Call] /\ \A d \in Calls : CallInv(d)
  BY DEF IInv, TypeOK
<1>2. call' \in [Calls -> Call] /\ call'[c] = s /\ \A d \in Calls \ {c} : call'[d] = call[d]
  BY <1>1
<1>3. Apart' /\ LooseInv'
  BY DEF IInv, Apart, Active, Free, LooseInv
<1>4. ASSUME NEW d \in Calls \ {c} PROVE CallInv(d)'
  <2>1. CallInv(d) /\ call'[d] = call[d]
    BY <1>1, <1>2
  <2>3. call[d].pc \in Creating /\ ~call[d].edits => call'[c].req # call[d].req
    BY <1>2, <2>1 DEF CallInv, Creating
  <2>4. (call[d].pc = "save" => Free(call[d].req, call[d].period))'
    BY <2>1 DEF CallInv, Creating, Free, Active
  <2>5. call'[d].pc \in Creating /\ ~call'[d].edits =>
          /\ row'[call'[d].req].status = "none"
          /\ \A e \in Calls \ {d} : call'[e].req # call'[d].req
    BY <1>2, <2>1, <2>3 DEF CallInv, Creating
  <2> QED BY <2>1, <2>4, <2>5 DEF CallInv, Creating
<1> QED BY <1>2, <1>3, <1>4
\* The end of a handler, its row unchanged.
LEMMA DoneKeeps ==
    ASSUME IInv, NEW c \in Calls, Done(c), UNCHANGED <<row, loose>>
    PROVE  /\ call' \in [Calls -> Call] /\ holder' \in Calls \cup {NoCall}
           /\ LockInv' /\ (\A d \in Calls : CallInv(d)') /\ Apart' /\ LooseInv'
<1>1. Idle \in Call /\ Idle.pc = "idle" /\ Idle.req = NoRequest
  BY DEF Idle, Call, PCs, Statuses
<1>2. /\ call' \in [Calls -> Call] /\ call'[c] = Idle
      /\ \A d \in Calls \ {c} : call'[d] = call[d] /\ CallInv(d)'
      /\ Apart' /\ LooseInv'
  BY <1>1, Frame DEF Done
<1>3. CallInv(c)'
  BY <1>1, <1>2 DEF CallInv, Creating
<1>4. holder' \in Calls \cup {NoCall}
  BY DEF Done, IInv, TypeOK
<1>5. LockInv'
  BY <1>1, <1>2 DEF IInv, LockInv, Done
<1> QED BY <1>2, <1>3, <1>4, <1>5

\* p and to stand for the period asked for and the decision, whichever there is.
LEMMA StartKeeps ==
    ASSUME IInv, NEW c \in Calls, NEW r \in Requests, NEW p \in Periods \cup {NoPeriod},
           NEW to \in Closing \cup {"approved"},
           \/ p \in Periods /\ (beginCreate(c, r, p) \/ beginBotCreate(c, r, p)
                                  \/ beginUpdate(c, r, p))
           \/ beginDecision(c, r, to)
    PROVE  IInv'
<1> DEFINE create == [Idle EXCEPT !.pc = "lock", !.req = r, !.period = p]
           bot    == [Idle EXCEPT !.pc = "seek", !.req = r, !.period = p]
           update == [Idle EXCEPT !.pc = "lock", !.req = r, !.edits = TRUE, !.period = p]
           decide == [Idle EXCEPT !.pc = "write", !.req = r, !.to = to]
<1>1. /\ {create, bot, update, decide} \subseteq Call
      /\ bot.pc = "seek" /\ bot.req = r /\ ~bot.edits /\ bot.period = p
      /\ create.pc = "lock" /\ create.req = r /\ ~create.edits /\ create.period = p
      /\ update.pc = "lock" /\ update.req = r /\ update.edits /\ update.period = p
      /\ decide.pc = "write" /\ decide.req = r /\ decide.to = to
  BY DEF Idle, Call, PCs, Statuses, ACTIVE_WFH_STATUSES, Closing
<1>2. PICK s \in Call :
          /\ Start(c, s) /\ s.req = r
          /\ \/ /\ s.pc \in {"lock", "seek"} /\ ~s.edits /\ s.period = p /\ p \in Periods
                /\ row[r].status = "none" /\ \A d \in Calls : call[d].req # r
             \/ /\ s.pc = "lock" /\ s.edits /\ s.period = p /\ p \in Periods
                /\ row[r].status # "none"
             \/ s.pc = "write" /\ s.to = to /\ row[r].status # "none"
  <2>1. CASE p \in Periods /\ beginCreate(c, r, p)
    <3> HIDE DEF create
    <3>1. create \in Call /\ Start(c, create)
      BY <1>1, <2>1 DEF create, beginCreate
    <3> QED BY <1>1, <2>1, <3>1 DEF beginCreate
  <2>4. CASE p \in Periods /\ beginBotCreate(c, r, p)
    <3> HIDE DEF bot
    <3>1. bot \in Call /\ Start(c, bot)
      BY <1>1, <2>4 DEF bot, beginBotCreate
    <3> QED BY <1>1, <2>4, <3>1 DEF beginBotCreate
  <2>2. CASE p \in Periods /\ beginUpdate(c, r, p)
    <3> HIDE DEF update
    <3>1. update \in Call /\ Start(c, update)
      BY <1>1, <2>2 DEF update, beginUpdate
    <3> QED BY <1>1, <2>2, <3>1 DEF beginUpdate
  <2>3. CASE beginDecision(c, r, to)
    <3> HIDE DEF decide
    <3>1. decide \in Call /\ Start(c, decide)
      BY <1>1, <2>3 DEF decide, beginDecision
    <3> QED BY <1>1, <2>3, <3>1 DEF beginDecision
  <2> QED BY <2>1, <2>2, <2>3, <2>4
<1>3. \A d \in Calls : call[d].pc \in Creating /\ ~call[d].edits
                         => call[d].req # s.req
  <2> SUFFICES ASSUME NEW d \in Calls, call[d].pc \in Creating, ~call[d].edits
               PROVE  call[d].req # r
    BY <1>2
  <2>1. CallInv(d)
    BY DEF IInv
  <2> QED BY <1>2, <2>1 DEF CallInv, Creating
<1>5. /\ call' \in [Calls -> Call] /\ call'[c] = s
      /\ \A d \in Calls \ {c} : call'[d] = call[d] /\ CallInv(d)'
      /\ Apart' /\ LooseInv'
  BY <1>2, <1>3, Frame DEF Start
<1>6. CallInv(c)'
  <2>1. row' = row
    BY <1>2 DEF Start
  <2> QED BY <1>2, <1>5, <2>1 DEF CallInv, Creating
<1>7. TypeOK'
  BY <1>2, <1>5 DEF IInv, TypeOK, Start
<1>8. LockInv'
  BY <1>2, <1>5 DEF IInv, LockInv, Start
<1> QED BY <1>5, <1>6, <1>7, <1>8 DEF IInv

-----------------------------------------------------------------------------
(* The transaction *)

\* A call that goes on to another statement of its transaction.
LEMMA GotoFrame ==
    ASSUME IInv, NEW c \in Calls, NEW pc \in PCs, Goto(c, pc)
    PROVE  /\ call' \in [Calls -> Call] /\ call'[c] = [call[c] EXCEPT !.pc = pc]
           /\ call'[c].pc = pc /\ call'[c].req = call[c].req
           /\ call'[c].period = call[c].period /\ call'[c].edits = call[c].edits
           /\ \A d \in Calls \ {c} : call'[d] = call[d] /\ CallInv(d)'
           /\ Apart' /\ LooseInv'
<1> DEFINE s == [call[c] EXCEPT !.pc = pc]
<1>1. call[c] \in Call
  BY DEF IInv, TypeOK
<1>2. s \in Call /\ s.req = call[c].req /\ s.period = call[c].period
        /\ s.edits = call[c].edits /\ s.pc = pc
  BY <1>1 DEF Call
<1>3. call' = [call EXCEPT ![c] = s] /\ UNCHANGED <<row, loose>>
  BY DEF Goto
<1> HIDE DEF s
<1>4. /\ call' \in [Calls -> Call] /\ call'[c] = s
      /\ \A d \in Calls \ {c} : call'[d] = call[d] /\ CallInv(d)'
      /\ Apart' /\ LooseInv'
  BY <1>2, <1>3, Frame
<1> QED BY <1>2, <1>4 DEF s

LEMMA LockKeeps ==
    ASSUME IInv, NEW c \in Calls, lockEmployee(c) PROVE IInv'
<1> DEFINE pc == IF call[c].edits THEN "read" ELSE "check"
<1>1. pc \in PCs /\ Goto(c, pc)
  BY DEF lockEmployee, PCs
<1>2. CallInv(c)
  BY DEF IInv
<1>6. row' = row /\ call[c].pc = "lock" /\ holder = NoCall /\ holder' = c
  BY <1>1 DEF Goto, lockEmployee
<1>7. /\ call'[c].pc = pc /\ call'[c].req = call[c].req
      /\ call'[c].period = call[c].period /\ call'[c].edits = call[c].edits
      /\ \A d \in Calls \ {c} : call'[d] = call[d]
  BY <1>1, GotoFrame
<1>3. CallInv(c)'
  <2>1. CASE call[c].edits
    BY <1>2, <1>6, <1>7, <2>1 DEF CallInv, Creating
  <2>2. CASE ~call[c].edits
    BY <1>2, <1>6, <1>7, <2>2 DEF CallInv, Creating
  <2> QED BY <2>1, <2>2
<1>4. LockInv'
  <2>1. \A d \in Calls \ {c} : call[d].pc \notin {"read", "check", "save"}
    BY <1>6 DEF IInv, LockInv
  <2> QED BY <1>6, <1>7, <2>1 DEF LockInv
<1>5. TypeOK'
  BY <1>1, GotoFrame DEF IInv, TypeOK, lockEmployee, Goto
<1> QED BY <1>1, <1>3, <1>4, <1>5, GotoFrame DEF IInv

LEMMA ReadKeeps ==
    ASSUME IInv, NEW c \in Calls, lockRequest(c) PROVE IInv'
<1>1. CASE row[call[c].req].status = "pending"
  <2>1. Goto(c, "check") /\ UNCHANGED holder /\ "check" \in PCs /\ row' = row
    BY <1>1 DEF lockRequest, Goto, PCs
  <2>5. /\ call'[c].pc = "check" /\ call'[c].req = call[c].req
        /\ call'[c].period = call[c].period /\ call'[c].edits = call[c].edits
        /\ \A d \in Calls \ {c} : call'[d] = call[d]
    BY <2>1, GotoFrame
  <2>6. call[c].pc = "read" /\ CallInv(c)
    BY DEF IInv, lockRequest
  <2>2. CallInv(c)'
    BY <1>1, <2>1, <2>5, <2>6 DEF CallInv, Creating
  <2>3. LockInv'
    BY <2>1, <2>5, <2>6 DEF IInv, LockInv
  <2>4. TypeOK'
    BY <2>1, GotoFrame DEF IInv, TypeOK, Goto
  <2> QED BY <2>1, <2>2, <2>3, <2>4, GotoFrame DEF IInv
<1>2. CASE row[call[c].req].status # "pending"
  BY <1>2, DoneKeeps DEF lockRequest, IInv, TypeOK
<1> QED BY <1>1, <1>2

LEMMA CheckKeeps ==
    ASSUME IInv, NEW c \in Calls, assertNoOverlap(c) PROVE IInv'
<1> DEFINE pc == IF call[c].pc = "check" THEN "save" ELSE "insert"
<1>1. CASE /\ Overlapping(call[c].req, call[c].period) = {}
           /\ Goto(c, pc)
           /\ UNCHANGED holder
  <2>1. pc \in PCs /\ row' = row /\ loose' = loose
    BY <1>1 DEF Goto, PCs
  <2>2. Free(call[c].req, call[c].period)
    BY <1>1 DEF Free, Active, Overlapping
  <2>3. (Free(call[c].req, call[c].period))'
    BY <1>1, <2>1, <2>2, GotoFrame DEF Free, Active
  <2>7. /\ call'[c].pc = pc /\ call'[c].req = call[c].req
        /\ call'[c].period = call[c].period /\ call'[c].edits = call[c].edits
        /\ \A d \in Calls \ {c} : call'[d] = call[d]
    BY <1>1, <2>1, GotoFrame
  <2>8. call[c].pc \in {"check", "seek"} /\ CallInv(c)
    BY DEF IInv, assertNoOverlap
  <2>9. (call[c].pc = "save" => Free(call[c].req, call[c].period))'
    BY <2>3
  <2>4. CallInv(c)'
    <3>1. CASE call[c].pc = "check"
      BY <2>1, <2>7, <2>8, <2>9, <3>1 DEF CallInv, Creating
    <3>2. CASE call[c].pc = "seek"
      BY <2>1, <2>7, <2>8, <3>2 DEF CallInv, Creating
    <3> QED BY <2>8, <3>1, <3>2
  <2>5. LockInv'
    BY <1>1, <2>7, <2>8 DEF IInv, LockInv
  <2>6. TypeOK'
    BY <1>1, <2>1, GotoFrame DEF IInv, TypeOK, Goto
  <2> QED BY <1>1, <2>1, <2>4, <2>5, <2>6, GotoFrame DEF IInv
<1>2. CASE Done(c) /\ UNCHANGED <<row, started, faults, loose>>
  BY <1>2, DoneKeeps DEF IInv, TypeOK
<1> QED BY <1>1, <1>2 DEF assertNoOverlap

LEMMA RollbackKeeps ==
    ASSUME IInv, NEW c \in Calls, Rollback(c) PROVE IInv'
<1>1. Done(c) /\ UNCHANGED <<row, started, loose>> /\ faults' \in 0..MaxFaults
  BY DEF Rollback, IInv, TypeOK
<1> QED BY <1>1, DoneKeeps DEF IInv, TypeOK
-----------------------------------------------------------------------------
(* The steps that change a request *)

\* What the transaction knows when it saves.
LEMMA Saving ==
    ASSUME IInv, NEW c \in Calls, savePeriod(c), NEW r, r = call[c].req
    PROVE  /\ r \in Requests /\ call[c].period \in Periods
           /\ row' = [row EXCEPT ![r] = [status |-> "pending", period |-> call[c].period]]
           /\ row[r].status \in {"none", "pending"}
           /\ Free(r, call[c].period)
           /\ call' = [call EXCEPT ![c] = Idle] /\ holder' = NoCall
           /\ \A d \in Calls \ {c} :
                 /\ call[d].pc \notin {"read", "check", "save"}
                 /\ call[d].pc \in Creating /\ ~call[d].edits => call[d].req # r
<1>1. CallInv(c) /\ call[c].pc = "save" /\ holder = c
  BY DEF IInv, savePeriod, LockInv
<1>2. r \in Requests /\ call[c].period \in Periods /\ Free(r, call[c].period)
  BY <1>1 DEF CallInv, Creating
<1>3. row[r] \in Row
  BY <1>2 DEF IInv, TypeOK
<1>4. \A d \in Calls \ {c} : call[d].pc \notin {"read", "check", "save"}
  BY <1>1 DEF IInv, LockInv
<1>5. call' = [call EXCEPT ![c] = Idle] /\ holder' = NoCall
  BY <1>1 DEF savePeriod, Done
<1>6. CASE call[c].edits
  <2>1. row[r].status = "pending"
    BY <1>1, <1>6 DEF CallInv, Creating
  <2>2. [row[r] EXCEPT !.period = call[c].period]
            = [status |-> "pending", period |-> call[c].period]
    BY <1>3, <2>1 DEF Row
  <2>3. \A d \in Calls : call[d].pc \in Creating /\ ~call[d].edits => row[call[d].req].status = "none"
    BY DEF IInv, CallInv, Creating
  <2> QED BY <1>2, <1>4, <1>5, <1>6, <2>1, <2>2, <2>3 DEF savePeriod
<1>7. CASE ~call[c].edits
  BY <1>1, <1>2, <1>4, <1>5, <1>7 DEF savePeriod, CallInv, Creating
<1> QED BY <1>6, <1>7

LEMMA SaveKeeps ==
    ASSUME IInv, NEW c \in Calls, savePeriod(c) PROVE IInv'
<1> DEFINE r == call[c].req
           p == call[c].period
           new == [status |-> "pending", period |-> p]
<1> HIDE DEF r, p
<1>1. /\ r \in Requests /\ p \in Periods /\ row' = [row EXCEPT ![r] = new]
      /\ Free(r, p) /\ loose' = loose /\ started' = started /\ faults' = faults
      /\ call' = [call EXCEPT ![c] = Idle] /\ holder' = NoCall
      /\ \A d \in Calls \ {c} :
            /\ call[d].pc \notin {"read", "check", "save"}
            /\ call[d].pc \in Creating /\ ~call[d].edits => call[d].req # r
  BY Saving DEF savePeriod, r, p
<1>2. row \in [Requests -> Row] /\ call \in [Calls -> Call] /\ Idle \in Call
  BY DEF IInv, TypeOK, Idle, Call, PCs, Statuses
<1>3. new \in Row
  BY <1>1 DEF Row, Statuses, ACTIVE_WFH_STATUSES
<1>4. row' \in [Requests -> Row] /\ row'[r] = new
        /\ \A q \in Requests \ {r} : row'[q] = row[q]
  BY <1>1, <1>2, <1>3
<1>5. call' \in [Calls -> Call] /\ call'[c] = Idle
        /\ \A d \in Calls \ {c} : call'[d] = call[d]
  BY <1>1, <1>2
<1>6. TypeOK'
  BY <1>1, <1>4, <1>5 DEF IInv, TypeOK
<1>7. LockInv'
  BY <1>1, <1>5 DEF LockInv, Idle
<1>8. ASSUME NEW d \in Calls PROVE CallInv(d)'
  <2>1. CASE d = c
    BY <1>5, <2>1 DEF CallInv, Creating, Idle
  <2>2. CASE d # c
    <3>1. CallInv(d) /\ call'[d] = call[d] /\ call'[c].req = NoRequest
      BY <1>5, <2>2 DEF IInv, Idle
    <3>2. call[d].pc \notin {"read", "check", "save"}
            /\ (call[d].pc \in Creating /\ ~call[d].edits => call[d].req # r)
      BY <1>1, <2>2
    <3>3. call[d].pc # "idle" /\ row[call[d].req].status # "none"
            => row'[call[d].req].status # "none"
      BY <1>4, <3>1 DEF CallInv, Creating
    <3>4. call[d].pc \in Creating /\ ~call[d].edits =>
            /\ row'[call[d].req].status = "none"
            /\ \A e \in Calls \ {d} : call'[e].req # call[d].req
      BY <1>4, <1>5, <3>1, <3>2 DEF CallInv, Creating
    <3> QED BY <3>1, <3>2, <3>3, <3>4 DEF CallInv, Creating
  <2> QED BY <2>1, <2>2
<1>9. Apart'
  <2> SUFFICES ASSUME NEW q \in Requests, Active(q)', q \notin loose,
                      NEW x \in Requests \ {q}, Active(x)', x \notin loose
               PROVE  ~Calendar!Overlap(row'[q].period, row'[x].period)
    BY <1>1 DEF Apart, Free
  <2>1. CASE q = r
    BY <1>1, <1>4, <2>1 DEF Free, Active
  <2>2. CASE x = r
    <3>1. ~Calendar!Overlap(p, row[q].period)
      BY <1>1, <1>4, <2>2 DEF Free, Active
    <3>2. p \in Nat \X Nat /\ row[q].period \in Nat \X Nat
      BY <1>1, <1>2, PeriodType DEF Row
    <3> QED BY <1>4, <2>2, <3>1, <3>2, OverlapSymmetric
  <2>3. CASE q # r /\ x # r
    BY <1>4, <2>3 DEF IInv, Apart, Free, Active
  <2> QED BY <2>1, <2>2, <2>3
<1>10. LooseInv'
  BY <1>1, <1>4 DEF IInv, LooseInv, Closing
<1> QED BY <1>6, <1>7, <1>8, <1>9, <1>10 DEF IInv

\* A late decision opens nothing that was not loose before.
LEMMA WriteKeeps ==
    ASSUME IInv, NEW c \in Calls, writeStatus(c) PROVE IInv'
<1> DEFINE r == call[c].req
           to == call[c].to
<1> HIDE DEF r, to
<1>1. /\ call[c].pc = "write" /\ RowFree(r) /\ CallInv(c)
      /\ row' = [row EXCEPT ![r].status = to]
      /\ loose' = IF to \in Closing THEN loose \cup {r} ELSE loose
      /\ Done(c) /\ started' = started /\ faults' = faults
  BY DEF writeStatus, IInv, r, to
<1>2. r \in Requests /\ row[r].status # "none" /\ to \in Closing \cup {"approved"}
  BY <1>1 DEF CallInv, Creating, r, to
<1>3. row \in [Requests -> Row] /\ call \in [Calls -> Call] /\ Idle \in Call
  BY DEF IInv, TypeOK, Idle, Call, PCs, Statuses
<1>4. /\ row' \in [Requests -> Row] /\ row'[r].status = to
      /\ \A q \in Requests : row'[q].period = row[q].period
      /\ \A q \in Requests \ {r} : row'[q] = row[q]
  BY <1>1, <1>2, <1>3 DEF Row, Statuses, ACTIVE_WFH_STATUSES, Closing
<1>5. call' \in [Calls -> Call] /\ call'[c] = Idle
        /\ \A d \in Calls \ {c} : call'[d] = call[d]
  BY <1>1, <1>3 DEF Done
<1>6. TypeOK'
  BY <1>1, <1>2, <1>4, <1>5 DEF IInv, TypeOK, Done
<1>7. LockInv'
  BY <1>1, <1>5 DEF IInv, LockInv, Done, Idle
<1>8. \A q \in Requests : Active(q)' /\ q \notin loose' => Active(q) /\ q \notin loose
  <2>1. r \notin loose => row[r].status \in ACTIVE_WFH_STATUSES
    BY <1>2, <1>3 DEF IInv, LooseInv, Row, Statuses
  <2>2. to \in Closing => r \in loose'
    BY <1>1
  <2>3. loose \subseteq loose' /\ (to \notin Closing => loose' = loose)
    BY <1>1
  <2> QED BY <1>2, <1>4, <2>1, <2>2, <2>3 DEF Active
<1>9. \A q \in Requests, p \in Periods \cup {NoPeriod} : Free(q, p) => Free(q, p)'
  BY <1>4, <1>8 DEF Free
<1>10. ASSUME NEW d \in Calls PROVE CallInv(d)'
  <2>1. CASE d = c
    BY <1>5, <2>1 DEF CallInv, Creating, Idle
  <2>2. CASE d # c
    <3>1. CallInv(d) /\ call'[d] = call[d] /\ call'[c].req = NoRequest
      BY <1>5, <2>2 DEF IInv, Idle
    <3>2. call[d].pc \in {"check", "save"} /\ call[d].edits => call[d].req # r
      BY <1>1 DEF RowFree
    <3>3. call[d].pc # "idle" => call[d].req \in Requests
      BY <3>1 DEF CallInv, Creating
    <3>4. call[d].pc # "idle" =>
             row'[call[d].req].status = (IF call[d].req = r THEN to ELSE row[call[d].req].status)
      BY <1>4, <3>3
    <3>5. to # "none"
      BY <1>2 DEF Closing
    <3>6. call[d].pc \in Creating /\ ~call[d].edits => call[d].req # r
      BY <1>2, <3>1 DEF CallInv, Creating
    <3>7. call[d].pc \in Creating /\ ~call[d].edits =>
             \A e \in Calls \ {d} : call'[e].req # call[d].req
      BY <1>5, <3>1, <3>3 DEF CallInv, Creating
    <3>8. call[d].pc = "save" => (Free(call[d].req, call[d].period))'
      BY <1>9, <3>1, <3>3 DEF CallInv, Creating, Free
    <3> QED BY <3>1, <3>2, <3>3, <3>4, <3>5, <3>6, <3>7, <3>8 DEF CallInv, Creating
  <2> QED BY <2>1, <2>2
<1>11. Apart'
  BY <1>4, <1>8 DEF IInv, Apart, Free
<1>12. LooseInv'
  BY <1>1, <1>2, <1>4 DEF IInv, LooseInv
<1> QED BY <1>6, <1>7, <1>10, <1>11, <1>12 DEF IInv

\* What the bot's submission knows when it inserts.
LEMMA Slipping ==
    ASSUME IInv, NEW c \in Calls, insertUnlocked(c), NEW r, r = call[c].req
    PROVE  /\ r \in Requests /\ call[c].period \in Periods /\ row[r].status = "none"
           /\ row' = [row EXCEPT ![r] = [status |-> "pending", period |-> call[c].period]]
           /\ loose' = loose \cup {r}
           /\ \A d \in Calls \ {c} : call[d].req # r
<1>1. CallInv(c) /\ call[c].pc = "insert"
  BY DEF IInv, insertUnlocked
<1>2. r \in Requests /\ call[c].period \in Periods /\ ~call[c].edits
  BY <1>1 DEF CallInv, Creating
<1>3. row[r].status = "none" /\ \A d \in Calls \ {c} : call[d].req # r
  BY <1>1, <1>2 DEF CallInv, Creating
<1> QED BY <1>2, <1>3 DEF insertUnlocked

\* The request that slips in is loose, and weighs on nobody.
LEMMA SlipKeeps ==
    ASSUME IInv, NEW c \in Calls, insertUnlocked(c) PROVE IInv'
<1> DEFINE new == [status |-> "pending", period |-> call[c].period]
<1> PICK r \in Requests : r = call[c].req
  BY Slipping
<1>1. /\ call[c].period \in Periods /\ row' = [row EXCEPT ![r] = new] /\ loose' = loose \cup {r}
      /\ \A d \in Calls \ {c} : call[d].req # r
  BY Slipping
<1>2. /\ row \in [Requests -> Row] /\ call \in [Calls -> Call] /\ Idle \in Call
      /\ call[c].pc = "insert" /\ Done(c) /\ started' = started /\ faults' = faults
  BY DEF IInv, TypeOK, Idle, Call, PCs, Statuses, insertUnlocked
<1>3. new \in Row /\ new.status = "pending"
  BY <1>1 DEF Row, Statuses, ACTIVE_WFH_STATUSES
<1> HIDE DEF new
<1>4. row' \in [Requests -> Row] /\ row'[r] = new /\ \A q \in Requests \ {r} : row'[q] = row[q]
  BY <1>1, <1>2, <1>3
<1>5. call' \in [Calls -> Call] /\ call'[c] = Idle /\ \A d \in Calls \ {c} : call'[d] = call[d]
  BY <1>2 DEF Done
<1>6. TypeOK'
  BY <1>1, <1>2, <1>4, <1>5 DEF IInv, TypeOK, Done
<1>7. LockInv'
  BY <1>2, <1>5 DEF IInv, LockInv, Done, Idle
<1>8. \A q \in Requests, p \in Periods \cup {NoPeriod} : Free(q, p) => Free(q, p)'
  BY <1>1, <1>4 DEF Free, Active
<1>9. ASSUME NEW d \in Calls PROVE CallInv(d)'
  <2>1. CASE d = c
    BY <1>5, <2>1 DEF CallInv, Creating, Idle
  <2>2. CASE d # c
    <3>1. CallInv(d) /\ call'[d] = call[d] /\ call'[c].req = NoRequest /\ call[d].req # r
      BY <1>1, <1>5, <2>2 DEF IInv, Idle
    <3>2. call[d].pc # "idle" => call[d].req \in Requests /\ row'[call[d].req] = row[call[d].req]
      BY <1>4, <3>1 DEF CallInv
    <3>3. call[d].pc = "save" => (Free(call[d].req, call[d].period))'
      BY <1>8, <3>1, <3>2 DEF CallInv, Creating, Free
    <3>4. call[d].pc \in Creating /\ ~call[d].edits =>
             \A e \in Calls \ {d} : call'[e].req # call[d].req
      BY <1>5, <3>1, <3>2 DEF CallInv, Creating
    <3> QED BY <3>1, <3>2, <3>3, <3>4 DEF CallInv, Creating
  <2> QED BY <2>1, <2>2
<1>10. Apart'
  BY <1>1, <1>4 DEF IInv, Apart, Free, Active
<1>11. LooseInv'
  BY <1>1, <1>4 DEF IInv, LooseInv
<1> QED BY <1>6, <1>7, <1>9, <1>10, <1>11 DEF IInv

LEMMA Inductive == IInv /\ [Next]_vars => IInv'
<1> SUFFICES ASSUME IInv, [Next]_vars PROVE IInv'
  OBVIOUS
<1>1. CASE Next
  <2> PICK c \in Calls :
         \/ \E r \in Requests, p \in Periods :
               beginCreate(c, r, p) \/ beginBotCreate(c, r, p) \/ beginUpdate(c, r, p)
         \/ \E r \in Requests, to \in Closing \cup {"approved"} : beginDecision(c, r, to)
         \/ lockEmployee(c) \/ lockRequest(c) \/ assertNoOverlap(c) \/ savePeriod(c)
         \/ insertUnlocked(c) \/ writeStatus(c) \/ Rollback(c)
    BY <1>1 DEF Next
  <2>1. \A r \in Requests, p \in Periods :
          beginCreate(c, r, p) \/ beginBotCreate(c, r, p) \/ beginUpdate(c, r, p) => IInv'
    <3>1. "approved" \in Closing \cup {"approved"}
      OBVIOUS
    <3> QED BY <3>1, StartKeeps
  <2>2. \A r \in Requests, to \in Closing \cup {"approved"} : beginDecision(c, r, to) => IInv'
    BY StartKeeps
  <2> QED BY <2>1, <2>2, LockKeeps, ReadKeeps, CheckKeeps, SaveKeeps, SlipKeeps,
             WriteKeeps, RollbackKeeps
<1>2. CASE UNCHANGED vars
  <2>1. \A q \in Requests : \A p : Free(q, p)' <=> Free(q, p)
    BY <1>2 DEF vars, Free, Active
  <2>2. \A c \in Calls : CallInv(c)'
    BY <1>2, <2>1 DEF vars, IInv, CallInv, Creating, Free, Active
  <2> QED BY <1>2, <2>2 DEF vars, IInv, TypeOK, LockInv, Apart, Active, Free, LooseInv
<1> QED BY <1>1, <1>2

-----------------------------------------------------------------------------
(* The theorems *)

LEMMA Invariant == Spec => []IInv
BY Initial, Inductive, PTL DEF Spec

\* Every reachable state is well typed.
THEOREM TypeCorrect == Spec => []TypeOK
<1>1. IInv => TypeOK
  BY DEF IInv
<1> QED BY <1>1, Invariant, PTL

\* The lock on the employee's row closes the gap between check and write: two
\* active requests overlap only where one came through the bot, or was closed
\* and brought back by a late decision.
THEOREM NoNewOverlap == Spec => []OverlapOnlyLoose
<1>1. IInv => OverlapOnlyLoose
  BY DEF IInv, Apart, Free, Active, OverlapOnlyLoose
<1> QED BY <1>1, Invariant, PTL

LEMMA TouchesRow ==
    ASSUME [Next]_vars
    PROVE  \/ UNCHANGED <<row, loose>>
           \/ \E c \in Calls : savePeriod(c) \/ insertUnlocked(c) \/ writeStatus(c)
<1>1. CASE UNCHANGED vars
  BY <1>1 DEF vars
<1>2. CASE Next
  <2>1. ASSUME NEW c \in Calls, NEW r \in Requests, NEW p \in Periods,
               beginCreate(c, r, p) \/ beginBotCreate(c, r, p) \/ beginUpdate(c, r, p)
        PROVE  UNCHANGED <<row, loose>>
    BY <2>1 DEF beginCreate, beginBotCreate, beginUpdate, Start
  <2>2. ASSUME NEW c \in Calls, NEW r \in Requests, NEW to \in Closing \cup {"approved"},
               beginDecision(c, r, to)
        PROVE  UNCHANGED <<row, loose>>
    BY <2>2 DEF beginDecision, Start
  <2>3. ASSUME NEW c \in Calls,
               lockEmployee(c) \/ lockRequest(c) \/ assertNoOverlap(c) \/ Rollback(c)
        PROVE  UNCHANGED <<row, loose>>
    BY <2>3 DEF lockEmployee, lockRequest, assertNoOverlap, Rollback, Goto
  <2> QED BY <1>2, <2>1, <2>2, <2>3 DEF Next
<1> QED BY <1>1, <1>2

\* A late decision keeps the period and names a request that exists.
LEMMA Writing ==
    ASSUME IInv, NEW c \in Calls, writeStatus(c), NEW r, r = call[c].req
    PROVE  /\ r \in Requests /\ row[r].status # "none"
           /\ call[c].to \in Closing \cup {"approved"}
           /\ row' = [row EXCEPT ![r].status = call[c].to]
           /\ loose' = IF call[c].to \in Closing THEN loose \cup {r} ELSE loose
BY DEF IInv, CallInv, Creating, writeStatus

\* The pending-only rule survives every race of an edit with a decision.
THEOREM DecidedKept == Spec => DecidedKeepsPeriod
<1>1. ASSUME IInv, [Next]_vars, NEW r \in Requests, row[r].status \notin {"none", "pending"}
      PROVE  row'[r].period = row[r].period
  <2> row \in [Requests -> Row]
    BY <1>1 DEF IInv, TypeOK
  <2>1. CASE UNCHANGED <<row, loose>>
    BY <2>1
  <2>2. ASSUME NEW c \in Calls, savePeriod(c) PROVE row'[r] = row[r]
    BY <1>1, <2>2, Saving
  <2>3. ASSUME NEW c \in Calls, writeStatus(c) PROVE row'[r].period = row[r].period
    <3>1. PICK q \in Requests : row' = [row EXCEPT ![q].status = call[c].to]
      BY <1>1, <2>3, Writing
    <3>2. row[q] \in Row
      BY <1>1 DEF IInv, TypeOK
    <3>3. [row[q] EXCEPT !.status = call[c].to].period = row[q].period
      BY <3>2 DEF Row
    <3> QED BY <3>1, <3>3
  <2>4. ASSUME NEW c \in Calls, insertUnlocked(c) PROVE row'[r] = row[r]
    BY <1>1, <2>4, Slipping
  <2> QED BY <1>1, <2>1, <2>2, <2>3, <2>4, TouchesRow
<1>2. IInv /\ [Next]_vars =>
        [\A r \in Requests :
           row[r].status \notin {"none", "pending"} => row'[r].period = row[r].period]_vars
  BY <1>1
<1> QED BY <1>2, Invariant, PTL DEF Spec, DecidedKeepsPeriod

\* Checking and saving is one step of the calendar.
LEMMA SaveRefines ==
    ASSUME IInv, NEW c \in Calls, savePeriod(c) PROVE Calendar!Next
<1> DEFINE r == call[c].req
           p == call[c].period
<1> HIDE DEF r, p
<1>1. /\ r \in Requests /\ p \in Periods
      /\ row' = [row EXCEPT ![r] = [status |-> "pending", period |-> p]]
      /\ row[r].status \in {"none", "pending"} /\ Free(r, p) /\ loose' = loose
  BY Saving DEF savePeriod, r, p
<1>2. Calendar!Clear(r, p)
  BY <1>1 DEF Calendar!Clear, Calendar!Active, Free, Active, ACTIVE_WFH_STATUSES
<1>3. CASE row[r].status = "none"
  BY <1>1, <1>2, <1>3 DEF Calendar!Next, Calendar!Book
<1>4. CASE row[r].status = "pending"
  <2>1. row[r] \in Row
    BY <1>1 DEF IInv, TypeOK
  <2>2. [row[r] EXCEPT !.period = p] = [status |-> "pending", period |-> p]
    BY <1>4, <2>1 DEF Row
  <2>3. row' = [row EXCEPT ![r].period = p]
    BY <1>1, <2>2
  <2> QED BY <1>1, <1>2, <1>4, <2>3 DEF Calendar!Next, Calendar!Move
<1> QED BY <1>1, <1>3, <1>4

LEMMA WriteRefines ==
    ASSUME IInv, NEW c \in Calls, writeStatus(c) PROVE Calendar!Next
<1> DEFINE r == call[c].req
           to == call[c].to
<1> HIDE DEF r, to
<1>1. /\ r \in Requests /\ row[r].status # "none" /\ to \in Closing \cup {"approved"}
      /\ row' = [row EXCEPT ![r].status = to]
      /\ loose' = IF to \in Closing THEN loose \cup {r} ELSE loose
  BY Writing DEF r, to
<1>2. CASE to = "approved"
  BY <1>1, <1>2 DEF Calendar!Next, Calendar!Approve, Closing
<1>3. CASE to \in Closing
  BY <1>1, <1>3 DEF Calendar!Next, Calendar!Close, Closing
<1> QED BY <1>1, <1>2, <1>3

LEMMA SlipRefines ==
    ASSUME IInv, NEW c \in Calls, insertUnlocked(c) PROVE Calendar!Next
<1>1. PICK r \in Requests : r = call[c].req
  BY Slipping
<1>2. Calendar!Slip(r, call[c].period) /\ call[c].period \in Periods
  BY <1>1, Slipping DEF Calendar!Slip
<1> QED BY <1>2 DEF Calendar!Next

\* The handlers implement the calendar, for any number of them.
THEOREM HomeImplementsCalendar == Spec => ImplementsCalendar
<1>1. Init => Calendar!Init
  BY DEF Init, Calendar!Init, NoPeriod
<1>2. IInv /\ [Next]_vars => [Calendar!Next]_Calendar!vars
  BY TouchesRow, SaveRefines, SlipRefines, WriteRefines DEF Calendar!vars
<1> QED BY <1>1, <1>2, Invariant, PTL DEF Spec, ImplementsCalendar, Calendar!Spec

-----------------------------------------------------------------------------
(* What HomeCalendar promises *)

CalendarInv ==
    /\ row \in [Requests -> Row]
    /\ loose \subseteq Requests
    /\ \A r \in Requests : row[r].status \in Closing => r \in loose
    /\ Apart

\* A request that is put where it is clear keeps the others apart.
LEMMA BookingApart ==
    ASSUME CalendarInv, NEW r \in Requests, NEW p \in Periods, Calendar!Clear(r, p),
           row' = [row EXCEPT ![r] = [status |-> "pending", period |-> p]], loose' = loose
    PROVE  CalendarInv'
<1>1. row' \in [Requests -> Row]
  BY DEF CalendarInv, Row, Statuses, ACTIVE_WFH_STATUSES
<1>2. /\ row'[r].status = "pending" /\ row'[r].period = p
      /\ \A q \in Requests \ {r} : row'[q] = row[q]
  BY DEF CalendarInv
<1>3. \A q \in Requests : row'[q].status \in Closing => q \in loose'
  BY <1>2 DEF CalendarInv, Closing
<1>4. \A q \in Requests \ {r} : Active(q) /\ q \notin loose =>
          ~ Calendar!Overlap(p, row[q].period) /\ ~ Calendar!Overlap(row[q].period, p)
  BY DEF Calendar!Clear, Calendar!Active, Active, ACTIVE_WFH_STATUSES, Calendar!Overlap
<1>5. Apart'
  <2> SUFFICES ASSUME NEW s \in Requests, Active(s)', s \notin loose,
                      NEW q \in Requests \ {s}, Active(q)', q \notin loose
               PROVE  ~ Calendar!Overlap(row'[s].period, row'[q].period)
    BY DEF Apart, Free, Calendar!Overlap
  <2>1. CASE s = r
    BY <1>2, <1>4, <2>1 DEF Active
  <2>2. CASE q = r
    BY <1>2, <1>4, <2>2 DEF Active
  <2>3. CASE s # r /\ q # r
    BY <1>2, <2>3 DEF CalendarInv, Apart, Free, Active
  <2> QED BY <2>1, <2>2, <2>3
<1> QED BY <1>1, <1>3, <1>5 DEF CalendarInv, Row

\* Where nobody is newly active but a loose request, the others stay apart.
LEMMA OthersApart ==
    ASSUME CalendarInv, NEW r \in Requests, row' \in [Requests -> Row],
           \A q \in Requests \ {r} : row'[q] = row[q],
           loose \subseteq loose', loose' \subseteq Requests,
           \/ r \in loose'
           \/ Active(r) /\ row'[r].period = row[r].period /\ row'[r].status \notin Closing
    PROVE  CalendarInv'
<1>1. \A q \in Requests : row'[q].status \in Closing => q \in loose'
  BY DEF CalendarInv
<1>2. ASSUME NEW q \in Requests, Active(q)', q \notin loose'
      PROVE  Active(q) /\ q \notin loose /\ row'[q].period = row[q].period
  <2>1. CASE q = r
    BY <1>2, <2>1
  <2>2. CASE q # r
    BY <1>2, <2>2 DEF Active
  <2> QED BY <2>1, <2>2
<1>3. Apart'
  <2> SUFFICES ASSUME NEW s \in Requests, Active(s)', s \notin loose',
                      NEW q \in Requests \ {s}, Active(q)', q \notin loose'
               PROVE  ~ Calendar!Overlap(row'[s].period, row'[q].period)
    BY DEF Apart, Free, Calendar!Overlap
  <2> QED BY <1>2 DEF CalendarInv, Apart, Free
<1> QED BY <1>1, <1>3 DEF CalendarInv, Row

LEMMA CalendarNext == CalendarInv /\ [Calendar!Next]_Calendar!vars => CalendarInv'
<1> SUFFICES ASSUME CalendarInv, [Calendar!Next]_Calendar!vars PROVE CalendarInv'
  OBVIOUS
<1>0. row \in [Requests -> Row] /\ loose \subseteq Requests
  BY DEF CalendarInv
<1>1. CASE UNCHANGED Calendar!vars
  BY <1>1 DEF Calendar!vars, CalendarInv, Apart, Free, Active, Calendar!Overlap
<1>2. ASSUME NEW r \in Requests, NEW p \in Periods, Calendar!Book(r, p) PROVE CalendarInv'
  BY <1>2, BookingApart DEF Calendar!Book
<1>3. ASSUME NEW r \in Requests, NEW p \in Periods, Calendar!Move(r, p) PROVE CalendarInv'
  <2>1. row' = [row EXCEPT ![r] = [row[r] EXCEPT !.period = p]] /\ row[r].status = "pending"
    BY <1>3 DEF Calendar!Move
  <2>2. [row[r] EXCEPT !.period = p] = [status |-> "pending", period |-> p]
    BY <1>0, <2>1 DEF Row
  <2>3. row' = [row EXCEPT ![r] = [status |-> "pending", period |-> p]]
    BY <2>1, <2>2
  <2> QED BY <1>3, <2>3, BookingApart DEF Calendar!Move
<1>4. ASSUME NEW r \in Requests, NEW p \in Periods, Calendar!Slip(r, p) PROVE CalendarInv'
  <2>1. row' = [row EXCEPT ![r] = [status |-> "pending", period |-> p]] /\ loose' = loose \cup {r}
    BY <1>4 DEF Calendar!Slip
  <2>2. row' \in [Requests -> Row] /\ \A q \in Requests \ {r} : row'[q] = row[q]
    BY <1>0, <2>1 DEF Row, Statuses, ACTIVE_WFH_STATUSES
  <2> QED BY <1>0, <2>1, <2>2, OthersApart
<1>5. ASSUME NEW r \in Requests, NEW status \in Closing, Calendar!Close(r, status)
      PROVE  CalendarInv'
  <2>1. row' = [row EXCEPT ![r].status = status] /\ loose' = loose \cup {r}
    BY <1>5 DEF Calendar!Close
  <2>2. row' \in [Requests -> Row] /\ \A q \in Requests \ {r} : row'[q] = row[q]
    BY <1>0, <2>1 DEF Row, Statuses, Closing
  <2> QED BY <1>0, <2>1, <2>2, OthersApart
<1>6. ASSUME NEW r \in Requests, Calendar!Approve(r) PROVE CalendarInv'
  <2>1. row' = [row EXCEPT ![r].status = "approved"] /\ loose' = loose /\ row[r].status # "none"
    BY <1>6 DEF Calendar!Approve
  <2>2. row' \in [Requests -> Row] /\ \A q \in Requests \ {r} : row'[q] = row[q]
    BY <1>0, <2>1 DEF Row, Statuses, ACTIVE_WFH_STATUSES
  <2>3. row'[r].period = row[r].period /\ row'[r].status \notin Closing
    BY <1>0, <2>1 DEF Closing, Row
  <2>4. r \in loose \/ Active(r)
    BY <1>0, <2>1 DEF CalendarInv, Row, Statuses, Active
  <2> QED BY <1>0, <2>1, <2>2, <2>3, <2>4, OthersApart
<1> QED BY <1>1, <1>2, <1>3, <1>4, <1>5, <1>6 DEF Calendar!Next, Closing

LEMMA CalendarInvHolds == ImplementsCalendar => []CalendarInv
<1>1. Calendar!Init => CalendarInv
  BY DEF Calendar!Init, CalendarInv, Row, Statuses, NoPeriod, Closing, Apart, Active,
     ACTIVE_WFH_STATUSES
<1> QED BY <1>1, CalendarNext, PTL DEF ImplementsCalendar, Calendar!Spec

\* The promise is enough: any service that books by the calendar's rules, with
\* whatever locks, keeps active requests apart but for the loose ones and the
\* periods of decided requests as they are.
THEOREM CalendarSuffices == ImplementsCalendar => []OverlapOnlyLoose /\ DecidedKeepsPeriod
<1>1. CalendarInv => OverlapOnlyLoose
  BY DEF CalendarInv, Apart, Free, Active, OverlapOnlyLoose
<1>2. ASSUME CalendarInv, [Calendar!Next]_Calendar!vars
      PROVE  \A r \in Requests :
                row[r].status \notin {"none", "pending"} => row'[r].period = row[r].period
  <2>0. row \in [Requests -> Row]
    BY <1>2 DEF CalendarInv
  <2>1. SUFFICES ASSUME NEW q \in Requests, row[q].status \notin {"none", "pending"}
                 PROVE  row'[q].period = row[q].period
    OBVIOUS
  <2>2. CASE UNCHANGED Calendar!vars
    BY <2>2 DEF Calendar!vars
  <2>3. ASSUME NEW r \in Requests, NEW p \in Periods,
               Calendar!Book(r, p) \/ Calendar!Slip(r, p) \/ Calendar!Move(r, p)
        PROVE  row'[q].period = row[q].period
    BY <2>0, <2>1, <2>3 DEF Calendar!Book, Calendar!Slip, Calendar!Move
  <2>4. ASSUME NEW r \in Requests, NEW status,
               Calendar!Approve(r) \/ Calendar!Close(r, status)
        PROVE  row'[q].period = row[q].period
    BY <2>0, <2>4 DEF Calendar!Approve, Calendar!Close, Row
  <2> QED BY <1>2, <2>2, <2>3, <2>4 DEF Calendar!Next
<1>3. CalendarInv /\ [Calendar!Next]_Calendar!vars =>
        [\A r \in Requests :
            row[r].status \notin {"none", "pending"} => row'[r].period = row[r].period]_vars
  BY <1>2
<1> QED BY <1>1, <1>3, CalendarInvHolds, PTL
        DEF ImplementsCalendar, Calendar!Spec, DecidedKeepsPeriod
=============================================================================
