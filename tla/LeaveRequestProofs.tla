------------------------- MODULE LeaveRequestProofs -------------------------
(***************************************************************************)
(* What the signatures and the balances keep although no handler locks     *)
(* anything, for any number of handlers, requests and balances.            *)
(***************************************************************************)
EXTENDS LeaveRequest, FiniteSetTheorems, TLAPS

Signed(r) == row[r].signed \cap FirstStage # {}

\* A signature of the first stage comes before HR's, and HR's with the approval.
SignInv(r) ==
    /\ row[r].place.stage = "admin" => Signed(r)
    /\ row[r].place.status = "approved" => "hr" \in row[r].signed
    /\ "hr" \in row[r].signed => Signed(r)

BalInv(b) ==
    /\ balance[b].used + balance[b].left >= balance[b].total
    /\ balance[b].used <= charged[b]

Submitting == {"find", "provision", "insert"}

\* What a handler knows between its statements.
CallInv(c) ==
    /\ call[c].pc # "idle" => call[c].req \in Requests
    /\ call[c].pc \in Submitting =>
          /\ row[call[c].req] = NoRow
          /\ \A d \in Calls \ {c} : call[d].req # call[c].req
    /\ call[c].pc = "provision" => call[c].year \in 1..MaxYear
    /\ call[c].pc \in {"fetch", "write"} =>
          /\ call[c].by = "hr" => Signed(call[c].req) /\ call[c].to = After("hr")
          /\ call[c].by \in FirstStage => call[c].to = After("department_head")
          /\ call[c].by = "none" => /\ call[c].to.status \in {"rejected", "cancelled"}
                                    /\ call[c].to.stage \in {"rejected", "cancelled"}
    /\ call[c].pc = "charge" =>
          /\ call[c].account \in Balances
          /\ balance[call[c].account].year # 0
          /\ call[c].found.used + call[c].found.left >= balance[call[c].account].total
          /\ call[c].found.used <= charged[call[c].account]

IInv ==
    /\ TypeOK
    /\ \A c \in Calls : CallInv(c)
    /\ \A r \in Requests : SignInv(r)
    /\ \A b \in Balances : BalInv(b)

USE LeaveAssumption

-----------------------------------------------------------------------------
(* The initial states, and the frame of a handler's step *)

LEMMA ConstantTypes ==
    /\ NoRow \in Row /\ NoRow.place.stage = "none" /\ NoRow.place.status = "none"
    /\ NoRow.signed = {} /\ NoAccount \in Balance
    /\ NoAccount.year = 0 /\ NoAccount.total = 0 /\ NoAccount.used = 0 /\ NoAccount.left = 0
    /\ NoTemplate \in Template
    /\ Idle \in Call /\ Idle.pc = "idle" /\ Idle.req = NoRequest
<1>1. NoRow.place \in Place /\ NoRow \in Row /\ NoRow.place.stage = "none"
        /\ NoRow.place.status = "none" /\ NoRow.signed = {}
  BY DEF NoRow, Row, Place, Statuses, Stages
<1>2. NoAccount \in Balance /\ NoAccount.year = 0 /\ NoAccount.total = 0
        /\ NoAccount.used = 0 /\ NoAccount.left = 0
  BY DEF NoAccount, Balance
<1>3. NoTemplate \in Template
  BY DEF NoTemplate, Template
<1>4. Idle.pc = "idle" /\ Idle.req = NoRequest
  BY DEF Idle
<1>5. Idle \in Call
  <2> DEFINE p == NoRow.place
  <2>1. p \in Place
    BY <1>1
  <2> HIDE DEF p
  <2>2. [pc |-> "idle", req |-> NoRequest, days |-> 0, tpl |-> NoTemplate,
         to |-> p, by |-> "none", see |-> p, year |-> 0,
         account |-> NoBalance, found |-> NoAccount] \in Call
    BY <1>2, <1>3, <2>1 DEF Call, PCs
  <2> QED BY <2>2 DEF Idle, p
<1> QED BY <1>1, <1>2, <1>3, <1>4, <1>5

LEMMA Initial == Init => IInv
<1> SUFFICES ASSUME Init PROVE IInv
  OBVIOUS
<1>1. TypeOK
  BY ConstantTypes DEF Init, TypeOK
<1>2. \A c \in Calls : CallInv(c)
  BY ConstantTypes DEF Init, CallInv, Submitting
<1>3. \A r \in Requests : SignInv(r)
  BY ConstantTypes DEF Init, SignInv
<1>4. \A b \in Balances : BalInv(b)
  BY ConstantTypes DEF Init, BalInv
<1> QED BY <1>1, <1>2, <1>3, <1>4 DEF IInv

\* A step of c leaves the others what they know if it touches no request but
\* its own, takes no signature away, and keeps the accounts there are.
LEMMA Frame ==
    ASSUME IInv, NEW c \in Calls, NEW s \in Call,
           call' = [call EXCEPT ![c] = s],
           \A r \in Requests : row'[r] = row[r] \/ r = call[c].req,
           \A r \in Requests : row[r].signed \subseteq row'[r].signed,
           \A b \in Balances : balance[b].year # 0 =>
               balance'[b].year = balance[b].year /\ balance'[b].total = balance[b].total,
           \A b \in Balances : charged'[b] >= charged[b] /\ charged'[b] \in Nat,
           \/ s.req \in {call[c].req, NoRequest}
           \/ \A d \in Calls : call[d].pc \in Submitting => call[d].req # s.req
    PROVE  /\ call' \in [Calls -> Call] /\ call'[c] = s
           /\ \A d \in Calls \ {c} : call'[d] = call[d] /\ CallInv(d)'
<1>1. call \in [Calls -> Call] /\ \A d \in Calls : CallInv(d)
  BY DEF IInv, TypeOK
<1>2. call' \in [Calls -> Call] /\ call'[c] = s /\ \A d \in Calls \ {c} : call'[d] = call[d]
  BY <1>1
<1>3. ASSUME NEW d \in Calls \ {c} PROVE CallInv(d)'
  <2>1. CallInv(d) /\ call'[d] = call[d] /\ call[d] \in Call
    BY <1>1, <1>2
  <2>2. call[d].pc \in Submitting =>
          /\ call[d].req \in Requests
          /\ row'[call[d].req] = NoRow
          /\ \A e \in Calls \ {d} : call'[e].req # call[d].req
    <3> SUFFICES ASSUME call[d].pc \in Submitting
                 PROVE  /\ call[d].req \in Requests
                        /\ row'[call[d].req] = NoRow
                        /\ \A e \in Calls \ {d} : call'[e].req # call[d].req
      OBVIOUS
    <3>1. /\ call[d].req \in Requests /\ row[call[d].req] = NoRow
          /\ \A e \in Calls \ {d} : call[e].req # call[d].req
      BY <2>1 DEF CallInv, Submitting
    <3>2. s.req # call[d].req
      BY <3>1
    <3> QED BY <1>2, <3>1, <3>2
  <2>3. call[d].pc # "idle" /\ Signed(call[d].req) => (Signed(call[d].req))'
    BY <2>1 DEF Signed, CallInv
  <2>4. call[d].pc = "charge" =>
          /\ call[d].account \in Balances
          /\ balance'[call[d].account].year # 0
          /\ call[d].found.used + call[d].found.left >= balance'[call[d].account].total
          /\ call[d].found.used <= charged'[call[d].account]
    <3>1. call[d].found.used \in Nat
      BY <2>1 DEF Call, Balance
    <3>2. charged \in [Balances -> Nat]
      BY DEF IInv, TypeOK
    <3> QED BY <2>1, <3>1, <3>2 DEF CallInv
  <2>5. call[d].pc \in {"fetch", "write"} =>
          /\ call[d].by = "hr" => (Signed(call[d].req))' /\ call[d].to = After("hr")
          /\ call[d].by \in FirstStage => call[d].to = After("department_head")
          /\ call[d].by = "none" => /\ call[d].to.status \in {"rejected", "cancelled"}
                                    /\ call[d].to.stage \in {"rejected", "cancelled"}
    BY <2>1, <2>3 DEF CallInv
  <2> QED BY <2>1, <2>2, <2>4, <2>5 DEF CallInv, Signed
<1> QED BY <1>2, <1>3

-----------------------------------------------------------------------------
(* Handlers that start *)

\* A handler that starts changes no row: only what it knows itself is at stake.
LEMMA StartKeeps ==
    ASSUME IInv, NEW c \in Calls, NEW s \in Call, Start(c, s),
           \A d \in Calls : call[d].pc \in Submitting => call[d].req # s.req,
           CallInv(c)'
    PROVE  IInv'
<1>1. /\ call' = [call EXCEPT ![c] = s] /\ started' \in 0..MaxCalls
      /\ UNCHANGED <<tpl, row, balance, year, changes, faults, charged>>
  BY DEF Start, IInv, TypeOK
<1>2. \A b \in Balances : charged'[b] >= charged[b] /\ charged'[b] \in Nat
  BY <1>1 DEF IInv, TypeOK
<1>3. call' \in [Calls -> Call] /\ \A d \in Calls \ {c} : CallInv(d)'
  BY <1>1, <1>2, Frame
<1>4. TypeOK'
  BY <1>1, <1>3 DEF IInv, TypeOK
<1>5. (\A r \in Requests : SignInv(r))' /\ (\A b \in Balances : BalInv(b))'
  BY <1>1 DEF IInv, SignInv, Signed, BalInv
<1> QED BY <1>3, <1>4, <1>5 DEF IInv

LEMMA SubmitKeeps ==
    ASSUME IInv, NEW c \in Calls, NEW r \in Requests, NEW d \in Days, beginSubmit(c, r, d)
    PROVE  IInv'
<1> DEFINE pc == IF tpl.hasAmount THEN "find" ELSE "insert"
           s == [Idle EXCEPT !.pc = pc, !.req = r, !.days = d, !.tpl = tpl]
<1> HIDE DEF pc
<1>1. pc \in {"find", "insert"}
  BY DEF pc
<1>2. tpl \in Template
  BY DEF IInv, TypeOK
<1>3. s \in Call /\ s.pc = pc /\ s.req = r /\ s.days = d
  BY <1>1, <1>2, ConstantTypes DEF Call, PCs
<1> HIDE DEF s
<1>4. /\ Start(c, s) /\ row[r] = NoRow /\ \A e \in Calls : call[e].req # r
  BY DEF beginSubmit, s, pc
<1>5. call' = [call EXCEPT ![c] = s] /\ row' = row /\ call \in [Calls -> Call]
  BY <1>4 DEF Start, IInv, TypeOK
<1>6. CallInv(c)'
  BY <1>1, <1>3, <1>4, <1>5 DEF CallInv
<1> QED BY <1>3, <1>4, <1>6, StartKeeps

LEMMA DecideKeeps ==
    ASSUME IInv, NEW c \in Calls, NEW r \in Requests, NEW to \in Place,
           NEW actor \in LeaveApprovalActor \cup {"none"}, Decide(c, r, to, actor),
           row[r] # NoRow,
           actor = "hr" => Signed(r) /\ to = After("hr"),
           actor \in FirstStage => to = After("department_head"),
           actor = "none" => to.status \in {"rejected", "cancelled"}
                               /\ to.stage \in {"rejected", "cancelled"}
    PROVE  IInv'
<1> DEFINE s == [Idle EXCEPT !.pc = "fetch", !.req = r, !.days = row[r].days, !.tpl = tpl,
                             !.to = to, !.by = actor]
<1>1. tpl \in Template /\ row[r].days \in Days \cup {0}
  BY DEF IInv, TypeOK, Row
<1>2. s \in Call /\ s.pc = "fetch" /\ s.req = r /\ s.days = row[r].days /\ s.to = to
        /\ s.by = actor
  BY <1>1, ConstantTypes DEF Call, PCs
<1> HIDE DEF s
<1>3. Start(c, s)
  BY DEF Decide, s
<1>4. \A d \in Calls : call[d].pc \in Submitting => call[d].req # s.req
  BY <1>2 DEF IInv, CallInv
<1>5. call' = [call EXCEPT ![c] = s] /\ row' = row /\ call \in [Calls -> Call]
  BY <1>3 DEF Start, IInv, TypeOK
<1>6. CallInv(c)'
  BY <1>2, <1>5 DEF CallInv, Submitting, Signed
<1> QED BY <1>2, <1>3, <1>4, <1>6, StartKeeps

LEMMA BeginKeeps ==
    ASSUME IInv, NEW c \in Calls, NEW r \in Requests,
           \/ beginCancel(c, r)
           \/ \E actor \in LeaveApprovalActor : beginApprove(c, r, actor) \/ beginReject(c, r, actor)
    PROVE  IInv'
<1> DEFINE closed(status) == [status |-> status, stage |-> status]
<1>1. \A status \in {"rejected", "cancelled"} :
          /\ closed(status) \in Place
          /\ closed(status).status = status /\ closed(status).stage = status
  BY DEF Place, Statuses, Stages
<1> HIDE DEF closed
<1>2. ASSUME NEW status \in {"rejected", "cancelled"}, Decide(c, r, closed(status), "none"),
             row[r].place.status # "none"
      PROVE  IInv'
  <2>1. row[r] # NoRow
    BY <1>2, ConstantTypes
  <2>2. "none" \notin FirstStage
    BY DEF FirstStage
  <2> QED BY <1>1, <1>2, <2>1, <2>2, DecideKeeps
<1>3. CASE beginCancel(c, r)
  BY <1>2, <1>3 DEF beginCancel, closed
<1>4. ASSUME NEW actor \in LeaveApprovalActor, beginReject(c, r, actor) PROVE IInv'
  BY <1>2, <1>4 DEF beginReject, Pending, closed
<1>5. ASSUME NEW actor \in LeaveApprovalActor, beginApprove(c, r, actor) PROVE IInv'
  <2>1. /\ row[r].place = [status |-> "pending", stage |-> ExpectedStage(actor)]
        /\ Decide(c, r, After(actor), actor)
    BY <1>5 DEF beginApprove, Pending
  <2>2. row[r] # NoRow
    BY <2>1, ConstantTypes
  <2>3. After(actor) \in Place
    BY DEF After, Place, Statuses, Stages
  <2>4. actor # "none" /\ (actor = "hr" <=> actor \notin FirstStage)
    BY DEF LeaveApprovalActor, FirstStage
  <2>5. actor = "hr" => Signed(r)
    BY <2>1 DEF IInv, SignInv, ExpectedStage
  <2>6. actor \in FirstStage => After(actor) = After("department_head")
    BY DEF After, FirstStage
  <2> QED BY <2>1, <2>2, <2>3, <2>4, <2>5, <2>6, DecideKeeps
<1> QED BY <1>3, <1>4, <1>5

-----------------------------------------------------------------------------
(* Handlers that go on *)

\* A handler that goes on and changes neither a request nor a balance.
LEMMA GotoKeeps ==
    ASSUME IInv, NEW c \in Calls, NEW s \in Call, Goto(c, s), UNCHANGED <<row, balance, charged>>,
           s.req \in {call[c].req, NoRequest}, CallInv(c)'
    PROVE  IInv'
<1>1. \A b \in Balances : charged'[b] >= charged[b] /\ charged'[b] \in Nat
  BY DEF IInv, TypeOK
<1>2. call' \in [Calls -> Call] /\ \A d \in Calls \ {c} : CallInv(d)'
  BY <1>1, Frame DEF Goto
<1>3. TypeOK'
  BY <1>2 DEF IInv, TypeOK, Goto
<1>4. (\A r \in Requests : SignInv(r))' /\ (\A b \in Balances : BalInv(b))'
  BY DEF IInv, SignInv, Signed, BalInv
<1> QED BY <1>2, <1>3, <1>4 DEF IInv

\* The end of a handler.
LEMMA EndKeeps ==
    ASSUME IInv, NEW c \in Calls, Goto(c, Idle), UNCHANGED <<row, balance, charged>>
    PROVE  IInv'
<1>1. call'[c] = Idle
  BY DEF Goto, IInv, TypeOK
<1>2. CallInv(c)'
  BY <1>1, ConstantTypes DEF CallInv, Submitting
<1> QED BY <1>2, ConstantTypes, GotoKeeps

LEMMA FailKeeps ==
    ASSUME IInv, NEW c \in Calls, Fail(c) PROVE IInv'
<1>1. \A b \in Balances : charged'[b] >= charged[b] /\ charged'[b] \in Nat
  BY DEF IInv, TypeOK, Fail
<1>2. call' \in [Calls -> Call] /\ call'[c] = Idle /\ \A d \in Calls \ {c} : CallInv(d)'
  BY <1>1, ConstantTypes, Frame DEF Fail
<1>3. CallInv(c)'
  BY <1>2, ConstantTypes DEF CallInv, Submitting
<1>4. TypeOK'
  BY <1>2 DEF IInv, TypeOK, Fail
<1>5. (\A r \in Requests : SignInv(r))' /\ (\A b \in Balances : BalInv(b))'
  BY DEF IInv, SignInv, Signed, BalInv, Fail
<1> QED BY <1>2, <1>3, <1>4, <1>5 DEF IInv

LEMMA AffordType ==
    ASSUME IInv, NEW c \in Calls, call[c].pc \in Submitting, NEW left
    PROVE  /\ Afford(c, left) \in Call /\ Afford(c, left).pc \in {"idle", "insert"}
           /\ Afford(c, left).pc = "insert" => Afford(c, left).req = call[c].req
           /\ Afford(c, left).req \in {call[c].req, NoRequest}
<1>1. call[c] \in Call
  BY DEF IInv, TypeOK
<1>2. [call[c] EXCEPT !.pc = "insert"] \in Call
        /\ [call[c] EXCEPT !.pc = "insert"].pc = "insert"
        /\ [call[c] EXCEPT !.pc = "insert"].req = call[c].req
  BY <1>1 DEF Call, PCs
<1> QED BY <1>2, ConstantTypes DEF Afford

\* What a submitting handler knows of its request it still knows at its next step.
LEMMA StillSubmits ==
    ASSUME IInv, NEW c \in Calls, call[c].pc \in Submitting, NEW s \in Call,
           call' = [call EXCEPT ![c] = s], row' = row,
           s.pc \in {"idle", "provision", "insert"}, s.pc # "idle" => s.req = call[c].req,
           s.pc = "provision" => s.year \in 1..MaxYear
    PROVE  CallInv(c)'
<1>1. call'[c] = s /\ \A d \in Calls \ {c} : call'[d] = call[d]
  BY DEF IInv, TypeOK
<1>2. CallInv(c)
  BY DEF IInv
<1>3. s.pc # "idle" =>
        /\ s.req \in Requests /\ row[s.req] = NoRow
        /\ \A d \in Calls \ {c} : call[d].req # s.req
  BY <1>2 DEF CallInv, Submitting
<1> QED BY <1>1, <1>3 DEF CallInv, Submitting

LEMMA FindKeeps ==
    ASSUME IInv, NEW c \in Calls, findBalance(c) PROVE IInv'
<1> DEFINE s == [call[c] EXCEPT !.pc = "provision", !.year = year]
<1>1. call[c] \in Call /\ year \in 1..MaxYear /\ year \in 0..MaxYear /\ call[c].pc \in Submitting
  BY DEF IInv, TypeOK, findBalance, Submitting
<1>2. s \in Call /\ s.pc = "provision" /\ s.year = year /\ s.req = call[c].req
  BY <1>1 DEF Call, PCs
<1> HIDE DEF s
<1>3. ASSUME Goto(c, s), UNCHANGED <<row, balance, charged>> PROVE IInv'
  <2>1. CallInv(c)'
    BY <1>1, <1>2, <1>3, StillSubmits DEF Goto
  <2> QED BY <1>2, <1>3, <2>1, GotoKeeps
<1>4. ASSUME NEW b \in Balances, Goto(c, Afford(c, balance[b].left)),
             UNCHANGED <<row, balance, charged>>
      PROVE  IInv'
  <2> DEFINE a == Afford(c, balance[b].left)
  <2> HIDE DEF a
  <2>1. /\ a \in Call /\ a.pc \in {"idle", "insert"} /\ (a.pc = "insert" => a.req = call[c].req)
        /\ a.req \in {call[c].req, NoRequest}
    BY <1>1, AffordType DEF a
  <2>2. Goto(c, a)
    BY <1>4 DEF a
  <2>3. CallInv(c)'
    BY <1>1, <1>4, <2>1, <2>2, StillSubmits DEF Goto
  <2> QED BY <1>4, <2>1, <2>2, <2>3, GotoKeeps
<1> QED BY <1>3, <1>4 DEF findBalance, AccountsOf, s

LEMMA ProvisionKeeps ==
    ASSUME IInv, NEW c \in Calls, provision(c) PROVE IInv'
<1> DEFINE total == call[c].tpl.totalDays
           new == [year |-> call[c].year, total |-> total, used |-> 0, left |-> total]
           a == Afford(c, total)
<1> HIDE DEF a, total
<1>1. PICK b \in Balances : balance[b].year = 0 /\ balance' = [balance EXCEPT ![b] = new]
  BY DEF provision, AccountsOf, total
<1>2. call[c] \in Call /\ call[c].pc \in Submitting /\ Goto(c, a)
        /\ UNCHANGED <<row, charged>>
  BY DEF IInv, TypeOK, provision, Submitting, a, total
<1>3. total \in Nat /\ call[c].year \in 1..MaxYear
  <2>1. CallInv(c) /\ call[c].pc = "provision"
    BY DEF IInv, provision
  <2>2. call[c].tpl \in Template
    BY <1>2 DEF Call
  <2>4. total \in Allowances \cup {0}
    BY <2>2 DEF Template, total
  <2>5. Allowances \subseteq Nat
    OBVIOUS
  <2>3. total \in Nat
    BY <2>4, <2>5
  <2> QED BY <2>1, <2>3 DEF CallInv
<1>4. new \in Balance
  BY <1>3 DEF Balance
<1>5. /\ a \in Call /\ a.pc \in {"idle", "insert"} /\ (a.pc = "insert" => a.req = call[c].req)
      /\ a.req \in {call[c].req, NoRequest}
  BY <1>2, AffordType DEF a
<1>6. balance \in [Balances -> Balance] /\ charged \in [Balances -> Nat]
  BY DEF IInv, TypeOK
<1>7. \A x \in Balances : /\ charged'[x] >= charged[x] /\ charged'[x] \in Nat
                          /\ balance[x].year # 0 => balance'[x] = balance[x]
  BY <1>1, <1>2, <1>6
<1>8. call' \in [Calls -> Call] /\ \A d \in Calls \ {c} : CallInv(d)'
  BY <1>2, <1>5, <1>7, Frame DEF Goto
<1>9. CallInv(c)'
  BY <1>2, <1>5, StillSubmits DEF Goto
<1>10. balance' \in [Balances -> Balance]
  BY <1>1, <1>4, <1>6
<1>11. TypeOK'
  BY <1>2, <1>8, <1>10 DEF IInv, TypeOK, Goto
<1>12. ASSUME NEW x \in Balances PROVE BalInv(x)'
  <2>1. CASE x = b
    BY <1>1, <1>2, <1>3, <1>6, <2>1 DEF BalInv
  <2>2. CASE x # b
    BY <1>1, <1>2, <1>6, <2>2 DEF IInv, BalInv
  <2> QED BY <2>1, <2>2
<1>13. (\A r \in Requests : SignInv(r))'
  BY <1>2 DEF IInv, SignInv, Signed
<1> QED BY <1>8, <1>9, <1>11, <1>12, <1>13 DEF IInv

\* A step of c on its own request alone.
LEMMA RowKeeps ==
    ASSUME IInv, NEW c \in Calls, NEW s \in Call, NEW new \in Row,
           Goto(c, s), UNCHANGED <<balance, charged>>,
           call[c].req \in Requests, row' = [row EXCEPT ![call[c].req] = new],
           row[call[c].req].signed \subseteq new.signed,
           s.req \in {call[c].req, NoRequest}, s.pc \in {"idle", "balance"},
           new.place.stage = "admin" => new.signed \cap FirstStage # {},
           new.place.status = "approved" => "hr" \in new.signed,
           "hr" \in new.signed => new.signed \cap FirstStage # {},
           s.pc # "idle" => s.req \in Requests
    PROVE  IInv'
<1>1. row \in [Requests -> Row] /\ \A b \in Balances : charged'[b] >= charged[b] /\ charged'[b] \in Nat
  BY DEF IInv, TypeOK
<1>2. /\ row' \in [Requests -> Row] /\ row'[call[c].req] = new
      /\ \A r \in Requests : row'[r] = row[r] \/ r = call[c].req
      /\ \A r \in Requests : row[r].signed \subseteq row'[r].signed
  BY <1>1
<1>3. call' \in [Calls -> Call] /\ call'[c] = s /\ \A d \in Calls \ {c} : CallInv(d)'
  BY <1>1, <1>2, Frame DEF Goto
<1>4. CallInv(c)'
  BY <1>3 DEF CallInv, Submitting
<1>5. TypeOK'
  BY <1>2, <1>3 DEF IInv, TypeOK, Goto
<1>6. (\A r \in Requests : SignInv(r))'
  BY <1>2 DEF IInv, SignInv, Signed
<1>7. (\A b \in Balances : BalInv(b))'
  BY DEF IInv, BalInv
<1> QED BY <1>3, <1>4, <1>5, <1>6, <1>7 DEF IInv

LEMMA InsertKeeps ==
    ASSUME IInv, NEW c \in Calls, insertRequest(c) PROVE IInv'
<1> DEFINE place == [status |-> "pending", stage |-> "dept_head"]
           new == [place |-> place, signed |-> {}, days |-> call[c].days]
<1>1. call[c] \in Call /\ call[c].req \in Requests /\ row[call[c].req] = NoRow
  BY DEF IInv, TypeOK, CallInv, insertRequest, Submitting
<1>2. place \in Place /\ place.stage # "admin" /\ place.status # "approved"
  BY DEF Place, Statuses, Stages
<1>3. row' = [row EXCEPT ![call[c].req] = new] /\ Goto(c, Idle) /\ UNCHANGED <<balance, charged>>
  BY DEF insertRequest
<1> HIDE DEF place
<1>4. new \in Row /\ new.signed = {} /\ new.place = place
  BY <1>1, <1>2 DEF Row, Call
<1> HIDE DEF new
<1>5. row[call[c].req].signed = {}
  BY <1>1, ConstantTypes
<1> QED BY <1>1, <1>2, <1>3, <1>4, <1>5, ConstantTypes, RowKeeps

LEMMA FetchKeeps ==
    ASSUME IInv, NEW c \in Calls, fetch(c) PROVE IInv'
<1> DEFINE place == row[call[c].req].place
           s == [call[c] EXCEPT !.pc = "write", !.see = place]
<1>1. call[c] \in Call /\ call[c].pc = "fetch" /\ CallInv(c) /\ call[c].req \in Requests
  BY DEF IInv, TypeOK, CallInv, fetch
<1>2. place \in Place
  BY <1>1 DEF IInv, TypeOK, Row
<1> HIDE DEF place
<1>3. s \in Call /\ s.pc = "write" /\ s.req = call[c].req /\ s.by = call[c].by /\ s.to = call[c].to
  BY <1>1, <1>2 DEF Call, PCs
<1> HIDE DEF s
<1>4. Goto(c, s) /\ UNCHANGED <<row, balance, charged>>
  BY DEF fetch, s, place
<1>5. call'[c] = s
  BY <1>4 DEF Goto, IInv, TypeOK
<1>6. CallInv(c)'
  BY <1>1, <1>3, <1>4, <1>5 DEF CallInv, Submitting, Signed
<1> QED BY <1>3, <1>4, <1>6, GotoKeeps

LEMMA WriteKeeps ==
    ASSUME IInv, NEW c \in Calls, write(c) PROVE IInv'
<1> DEFINE cl == call[c]
           old == row[cl.req]
           new == [old EXCEPT !.place = Saved(old.place, cl.see, cl.to),
                              !.signed = old.signed \cup ({cl.by} \ {"none"})]
           s == IF cl.by = "hr" /\ cl.tpl.hasAmount THEN [cl EXCEPT !.pc = "balance"] ELSE Idle
<1>1. cl \in Call /\ cl.pc = "write" /\ CallInv(c) /\ cl.req \in Requests /\ old \in Row
        /\ SignInv(cl.req)
  BY DEF IInv, TypeOK, CallInv, write
<1>2. /\ old.place \in Place /\ old.signed \subseteq LeaveApprovalActor /\ cl.to \in Place
      /\ cl.by \in FirstStage \cup {"hr", "none"}
  BY <1>1 DEF Row, Call, LeaveApprovalActor
<1>3. row' = [row EXCEPT ![cl.req] = new] /\ Goto(c, s) /\ UNCHANGED <<balance, charged>>
  BY DEF write
<1>4. /\ Saved(old.place, cl.see, cl.to) \in Place
      /\ Saved(old.place, cl.see, cl.to).stage \in {old.place.stage, cl.to.stage}
      /\ Saved(old.place, cl.see, cl.to).status \in {old.place.status, cl.to.status}
  BY <1>2 DEF Saved, Place
<1>5. /\ new \in Row /\ new.place = Saved(old.place, cl.see, cl.to)
      /\ new.signed = old.signed \cup ({cl.by} \ {"none"})
  BY <1>1, <1>2, <1>4 DEF Row, LeaveApprovalActor
<1>6. s \in Call /\ s.req \in {cl.req, NoRequest} /\ s.pc \in {"idle", "balance"}
        /\ (s.pc # "idle" => s.req \in Requests)
  <2>1. [cl EXCEPT !.pc = "balance"] \in Call /\ [cl EXCEPT !.pc = "balance"].pc = "balance"
          /\ [cl EXCEPT !.pc = "balance"].req = cl.req
    BY <1>1 DEF Call, PCs
  <2> QED BY <1>1, <2>1, ConstantTypes
<1> HIDE DEF s, new
<1>7. /\ cl.by = "hr" => Signed(cl.req) /\ cl.to.stage = "approved" /\ cl.to.status = "approved"
      /\ cl.by \in FirstStage => cl.to.stage = "admin" /\ cl.to.status = "pending"
      /\ cl.by = "none" => cl.to.stage # "admin" /\ cl.to.status # "approved"
  BY <1>1 DEF CallInv, After
<1>8. new.place.stage = "admin" => new.signed \cap FirstStage # {}
  <2>1. CASE old.place.stage = "admin"
    BY <1>1, <1>5, <2>1 DEF SignInv, Signed
  <2>2. CASE old.place.stage # "admin"
    <3>1. new.place.stage = "admin" => cl.by \in FirstStage
      BY <1>2, <1>4, <1>5, <1>7, <2>2
    <3> QED BY <1>5, <3>1 DEF FirstStage
  <2> QED BY <2>1, <2>2
<1>9. new.place.status = "approved" => "hr" \in new.signed
  <2>1. CASE old.place.status = "approved"
    BY <1>1, <1>5, <2>1 DEF SignInv
  <2>2. CASE old.place.status # "approved"
    BY <1>2, <1>4, <1>5, <1>7, <2>2
  <2> QED BY <2>1, <2>2
<1>10. "hr" \in new.signed => new.signed \cap FirstStage # {}
  <2>1. "hr" \in new.signed => "hr" \in old.signed \/ cl.by = "hr"
    BY <1>5
  <2> QED BY <1>1, <1>5, <1>7, <2>1 DEF SignInv, Signed
<1>11. old.signed \subseteq new.signed
  BY <1>5
<1> QED BY <1>1, <1>3, <1>5, <1>6, <1>8, <1>9, <1>10, <1>11, RowKeeps

LEMMA FindChargedKeeps ==
    ASSUME IInv, NEW c \in Calls, findCharged(c) PROVE IInv'
<1>1. ASSUME NEW b \in AccountsOf(year),
             Goto(c, [call[c] EXCEPT !.pc = "charge", !.account = b, !.found = balance[b]]),
             UNCHANGED <<row, balance, charged>>
      PROVE  IInv'
  <2> DEFINE s == [call[c] EXCEPT !.pc = "charge", !.account = b, !.found = balance[b]]
  <2>1. /\ call[c] \in Call /\ call[c].pc = "balance" /\ call[c].req \in Requests
        /\ b \in Balances /\ balance[b] \in Balance /\ balance[b].year # 0 /\ BalInv(b)
    <3>1. call[c].pc = "balance" /\ b \in Balances /\ balance[b].year = year
      BY <1>1 DEF findCharged, AccountsOf
    <3>2. call[c] \in Call /\ year # 0 /\ balance[b] \in Balance /\ BalInv(b) /\ CallInv(c)
      BY <3>1 DEF IInv, TypeOK
    <3> QED BY <3>1, <3>2 DEF CallInv
  <2>2. s \in Call /\ s.pc = "charge" /\ s.account = b /\ s.found = balance[b]
          /\ s.req = call[c].req
    BY <2>1 DEF Call, PCs
  <2> HIDE DEF s
  <2>3. Goto(c, s)
    BY <1>1 DEF s
  <2>4. call'[c] = s
    BY <2>3 DEF Goto, IInv, TypeOK
  <2>5. CallInv(c)'
    BY <1>1, <2>1, <2>2, <2>4 DEF CallInv, Submitting, BalInv
  <2> QED BY <1>1, <2>2, <2>3, <2>5, GotoKeeps
<1> QED BY <1>1, EndKeeps DEF findCharged

\* Both columns come from one read; the one that is skipped had nothing left.
LEMMA ChargeKeeps ==
    ASSUME IInv, NEW c \in Calls, charge(c) PROVE IInv'
<1> DEFINE b == call[c].account
           d == call[c].days
           found == call[c].found
           used == found.used + d
           left == IF found.left = 0 THEN balance[b].left ELSE Left(found, d)
<1>1. call[c] \in Call /\ CallInv(c) /\ call[c].pc = "charge" /\ charge(c)
  BY DEF IInv, TypeOK, charge
<1>2. found \in Balance /\ d \in Nat
  <2>1. found \in Balance /\ d \in Days \cup {0}
    BY <1>1 DEF Call
  <2>2. Days \cup {0} \subseteq Nat
    OBVIOUS
  <2> HIDE DEF d, found
  <2> QED BY <2>1, <2>2
<1>3. b \in Balances /\ balance[b] \in Balance /\ charged[b] \in Nat /\ balance[b].year # 0
        /\ found.used + found.left >= balance[b].total /\ found.used <= charged[b]
  BY <1>1 DEF IInv, TypeOK, CallInv
<1>4. /\ balance' = [balance EXCEPT ![b].used = used, ![b].left = left]
      /\ charged' = [charged EXCEPT ![b] = @ + d]
      /\ Goto(c, Idle) /\ UNCHANGED row
  BY DEF charge, Charge
<1> HIDE DEF b, d, found
<1>5. /\ used \in Nat /\ left \in Nat
      /\ used + left >= balance[b].total /\ used <= charged[b] + d
  <2>1. found.used \in Nat /\ found.left \in Nat /\ balance[b].left \in Nat /\ balance[b].total \in Nat
    BY <1>2, <1>3 DEF Balance
  <2> QED BY <1>2, <1>3, <2>1 DEF Left
<1> HIDE DEF used, left
<1>6. balance \in [Balances -> Balance] /\ charged \in [Balances -> Nat]
  BY DEF IInv, TypeOK
<1>7. /\ balance' \in [Balances -> Balance]
      /\ balance'[b].used = used /\ balance'[b].left = left
      /\ balance'[b].year = balance[b].year /\ balance'[b].total = balance[b].total
      /\ \A x \in Balances \ {b} : balance'[x] = balance[x]
  <2>1. [[balance[b] EXCEPT !.used = used] EXCEPT !.left = left] \in Balance
    BY <1>3, <1>5 DEF Balance
  <2>2. balance' = [balance EXCEPT ![b] = [[balance[b] EXCEPT !.used = used] EXCEPT !.left = left]]
    BY <1>3, <1>4, <1>6
  <2> QED BY <1>3, <1>5, <1>6, <2>1, <2>2 DEF Balance
<1>8. /\ charged' \in [Balances -> Nat] /\ charged'[b] = charged[b] + d
      /\ \A x \in Balances \ {b} : charged'[x] = charged[x]
  BY <1>2, <1>3, <1>4, <1>6
<1>9. \A x \in Balances : charged'[x] >= charged[x] /\ charged'[x] \in Nat
  <2>1. \A x \in Balances : charged[x] \in Nat
    BY <1>6
  <2> QED BY <1>2, <1>8, <2>1
<1>10. call' \in [Calls -> Call] /\ call'[c] = Idle /\ \A e \in Calls \ {c} : CallInv(e)'
  BY <1>4, <1>7, <1>9, ConstantTypes, Frame DEF Goto
<1>11. CallInv(c)'
  BY <1>10, ConstantTypes DEF CallInv, Submitting
<1>12. TypeOK'
  BY <1>4, <1>7, <1>8, <1>10 DEF IInv, TypeOK, Goto
<1>13. (\A r \in Requests : SignInv(r))'
  BY <1>4 DEF IInv, SignInv, Signed
<1>14. ASSUME NEW x \in Balances PROVE BalInv(x)'
  <2>1. CASE x = b
    BY <1>5, <1>7, <1>8, <2>1 DEF BalInv
  <2>2. CASE x # b
    BY <1>7, <1>8, <2>2 DEF IInv, BalInv
  <2> QED BY <2>1, <2>2
<1> QED BY <1>10, <1>11, <1>12, <1>13, <1>14 DEF IInv

-----------------------------------------------------------------------------
(* The invariant and the theorems *)

LEMMA SurroundingsKeep ==
    ASSUME IInv, \/ \E t \in Template : changeTemplate(t)
                 \/ NextYear
                 \/ UNCHANGED vars
    PROVE  IInv'
<1>1. UNCHANGED <<row, balance, call, charged>>
  BY DEF changeTemplate, NextYear, vars
<1>2. TypeOK'
  BY DEF IInv, TypeOK, changeTemplate, NextYear, vars
<1>3. \A c \in Calls : CallInv(c)'
  BY <1>1 DEF IInv, CallInv, Signed
<1>4. (\A r \in Requests : SignInv(r))' /\ (\A b \in Balances : BalInv(b))'
  BY <1>1 DEF IInv, SignInv, Signed, BalInv
<1> QED BY <1>2, <1>3, <1>4 DEF IInv

LEMMA Inductive == IInv /\ [Next]_vars => IInv'
<1> SUFFICES ASSUME IInv, [Next]_vars PROVE IInv'
  OBVIOUS
<1>1. \A c \in Calls, r \in Requests, d \in Days : beginSubmit(c, r, d) => IInv'
  BY SubmitKeeps
<1>2. \A c \in Calls, r \in Requests :
        \/ beginCancel(c, r)
        \/ \E actor \in LeaveApprovalActor : beginApprove(c, r, actor) \/ beginReject(c, r, actor)
        => IInv'
  BY BeginKeeps
<1>3. \A c \in Calls : \/ findBalance(c) \/ provision(c) \/ insertRequest(c)
                       \/ fetch(c) \/ write(c) \/ findCharged(c) \/ charge(c) \/ Fail(c)
                       => IInv'
  BY FindKeeps, ProvisionKeeps, InsertKeeps, FetchKeeps, WriteKeeps, FindChargedKeeps,
     ChargeKeeps, FailKeeps
<1> QED BY <1>1, <1>2, <1>3, SurroundingsKeep DEF Next

LEMMA Invariant == Spec => []IInv
BY Initial, Inductive, PTL DEF Spec

\* Every reachable state is well typed; no balance has fewer than no days left.
THEOREM TypeCorrect == Spec => []TypeOK
<1>1. IInv => TypeOK
  BY DEF IInv
<1> QED BY <1>1, Invariant, PTL

\* No race of approvals, rejections and cancellations approves a request that
\* lacks one of the two signatures.
THEOREM Signatures == Spec => []ApprovedIsSigned
<1>1. IInv => ApprovedIsSigned
  BY DEF IInv, SignInv, Signed, ApprovedIsSigned
<1> QED BY <1>1, Invariant, PTL

\* Charges computed from stale balances lose no day of the allowance.
THEOREM NothingVanishes == Spec => []AllowanceAccounted
<1>1. IInv => AllowanceAccounted
  BY DEF IInv, BalInv, AllowanceAccounted
<1> QED BY <1>1, Invariant, PTL

\* Nor do they take more days than were charged.
THEOREM NothingOvercharged == Spec => []NoMoreThanCharged
<1>1. IInv => NoMoreThanCharged
  BY DEF IInv, BalInv, NoMoreThanCharged
<1> QED BY <1>1, Invariant, PTL

-----------------------------------------------------------------------------
(* How many balances a year can have *)

\* The handlers about to create a balance of year y.
Provisioning(y) == {c \in Calls : call[c].pc = "provision" /\ call[c].year = y}

\* Once there is a balance, only the handlers that missed it can add another.
RaceInv ==
    \A y \in 1..MaxYear :
        \/ AccountsOf(y) = {}
        \/ Cardinality(AccountsOf(y)) + Cardinality(Provisioning(y)) <= Cardinality(Calls)

LEMMA Finite ==
    /\ \A y : /\ IsFiniteSet(AccountsOf(y)) /\ IsFiniteSet(Provisioning(y))
              /\ Cardinality(AccountsOf(y)) \in Nat /\ Cardinality(Provisioning(y)) \in Nat
              /\ Cardinality(Provisioning(y)) <= Cardinality(Calls)
    /\ Cardinality(Calls) \in Nat
<1>1. IsFiniteSet(Calls) /\ IsFiniteSet(Balances)
  OBVIOUS
<1>2. \A y : AccountsOf(y) \in SUBSET Balances /\ Provisioning(y) \in SUBSET Calls
  BY DEF AccountsOf, Provisioning
<1> QED BY <1>1, <1>2, FS_Subset, FS_CardinalityType

\* Fewer handlers about to create, and the balances there were.
LEMMA FewerProvision ==
    ASSUME RaceInv, NEW y \in 1..MaxYear, AccountsOf(y)' = AccountsOf(y),
           Provisioning(y)' \subseteq Provisioning(y)
    PROVE  \/ AccountsOf(y)' = {}
           \/ Cardinality(AccountsOf(y)') + Cardinality(Provisioning(y)') <= Cardinality(Calls)
<1>1. /\ Provisioning(y)' \in SUBSET Provisioning(y) /\ IsFiniteSet(Provisioning(y))
      /\ Cardinality(AccountsOf(y)) \in Nat /\ Cardinality(Provisioning(y)) \in Nat
      /\ Cardinality(Calls) \in Nat
  BY Finite
<1>2. Cardinality(Provisioning(y)') <= Cardinality(Provisioning(y))
        /\ IsFiniteSet(Provisioning(y)')
  BY <1>1, FS_Subset
<1>3. Cardinality(Provisioning(y)') \in Nat
  BY <1>2, FS_CardinalityType
<1>4. \/ AccountsOf(y) = {}
      \/ Cardinality(AccountsOf(y)) + Cardinality(Provisioning(y)) <= Cardinality(Calls)
  BY DEF RaceInv
<1> QED BY <1>1, <1>2, <1>3, <1>4

\* A step of c to a state other than creating, the balances keeping their years.
LEMMA QuietStep ==
    ASSUME IInv, RaceInv, NEW c \in Calls, NEW s, s.pc # "provision",
           call' = [call EXCEPT ![c] = s],
           \A b \in Balances : balance'[b].year = balance[b].year
    PROVE  RaceInv'
<1>1. \A y \in 1..MaxYear : AccountsOf(y)' = AccountsOf(y)
  BY DEF AccountsOf
<1>2. call'[c] = s /\ \A d \in Calls \ {c} : call'[d] = call[d]
  BY DEF IInv, TypeOK
<1>3. \A y \in 1..MaxYear : Provisioning(y)' \subseteq Provisioning(y)
  BY <1>2 DEF Provisioning
<1> QED BY <1>1, <1>3, FewerProvision DEF RaceInv

LEMMA FindRace ==
    ASSUME IInv, RaceInv, NEW c \in Calls, findBalance(c) PROVE RaceInv'
<1>1. CASE AccountsOf(year) = {} /\ Goto(c, [call[c] EXCEPT !.pc = "provision", !.year = year])
  <2>1. call[c] \in Call /\ balance' = balance
    BY DEF IInv, TypeOK, findBalance
  <2>2. /\ call'[c] = [call[c] EXCEPT !.pc = "provision", !.year = year]
        /\ \A d \in Calls \ {c} : call'[d] = call[d]
    BY <1>1 DEF Goto, IInv, TypeOK
  <2>3. call'[c].year = year
    BY <2>1, <2>2 DEF Call
  <2>4. \A y \in 1..MaxYear : AccountsOf(y)' = AccountsOf(y)
    BY <2>1 DEF AccountsOf
  <2>5. \A y \in 1..MaxYear : y # year => Provisioning(y)' \subseteq Provisioning(y)
    BY <2>2, <2>3 DEF Provisioning
  <2> QED BY <1>1, <2>4, <2>5, FewerProvision DEF RaceInv
<1>2. ASSUME NEW left, Goto(c, Afford(c, left)), UNCHANGED balance, call[c].pc \in Submitting
      PROVE  RaceInv'
  <2>1. Afford(c, left).pc # "provision"
    BY <1>2, AffordType
  <2> QED BY <1>2, <2>1, QuietStep DEF Goto
<1>3. call[c].pc \in Submitting /\ balance' = balance
  BY DEF findBalance, Submitting
<1> QED BY <1>1, <1>2, <1>3 DEF findBalance

LEMMA ProvisionRace ==
    ASSUME IInv, RaceInv, NEW c \in Calls, provision(c) PROVE RaceInv'
<1> DEFINE a == Afford(c, call[c].tpl.totalDays)
<1> HIDE DEF a
<1> PICK y0 \in 1..MaxYear : y0 = call[c].year
  BY DEF IInv, CallInv, provision
<1>1. PICK b \in Balances :
        /\ balance[b].year = 0
        /\ balance' = [balance EXCEPT ![b] = [year |-> y0, total |-> call[c].tpl.totalDays,
                                              used |-> 0, left |-> call[c].tpl.totalDays]]
  BY DEF provision, AccountsOf
<1>2. /\ balance'[b].year = y0 /\ y0 \in 1..MaxYear
      /\ \A x \in Balances \ {b} : balance'[x] = balance[x]
  BY <1>1 DEF IInv, TypeOK
<1>3. /\ call'[c] = a /\ a.pc # "provision" /\ c \in Provisioning(y0)
      /\ \A d \in Calls \ {c} : call'[d] = call[d]
  <2>1. call[c].pc = "provision" /\ Goto(c, a)
    BY DEF provision, a
  <2>2. a.pc \in {"idle", "insert"}
    BY <2>1, AffordType DEF Submitting, a
  <2> QED BY <2>1, <2>2 DEF Goto, IInv, TypeOK, Provisioning
<1>4. ASSUME NEW y \in 1..MaxYear, y # y0
      PROVE  AccountsOf(y)' = AccountsOf(y) /\ Provisioning(y)' \subseteq Provisioning(y)
  BY <1>1, <1>2, <1>3, <1>4 DEF AccountsOf, Provisioning
<1>5. /\ AccountsOf(y0)' = AccountsOf(y0) \cup {b} /\ b \notin AccountsOf(y0)
      /\ Provisioning(y0)' = Provisioning(y0) \ {c}
  <2>1. y0 # 0
    BY <1>2
  <2>2. AccountsOf(y0)' = AccountsOf(y0) \cup {b}
    BY <1>2 DEF AccountsOf
  <2>3. b \notin AccountsOf(y0)
    BY <1>1, <2>1 DEF AccountsOf
  <2>4. Provisioning(y0)' = Provisioning(y0) \ {c}
    BY <1>3 DEF Provisioning
  <2> QED BY <2>2, <2>3, <2>4
<1>6. /\ Cardinality(AccountsOf(y0)') = Cardinality(AccountsOf(y0)) + 1
      /\ Cardinality(Provisioning(y0)') = Cardinality(Provisioning(y0)) - 1
  <2>1. IsFiniteSet(AccountsOf(y0)) /\ IsFiniteSet(Provisioning(y0))
    BY Finite
  <2>2. Cardinality(AccountsOf(y0) \cup {b}) = Cardinality(AccountsOf(y0)) + 1
    BY <1>5, <2>1, FS_AddElement
  <2>3. Cardinality(Provisioning(y0) \ {c}) = Cardinality(Provisioning(y0)) - 1
    BY <1>3, <2>1, FS_RemoveElement
  <2> QED BY <1>5, <2>2, <2>3
<1>7. AccountsOf(y0) = {} => Cardinality(AccountsOf(y0)) = 0
  BY FS_EmptySet
<1>8. \/ AccountsOf(y0) = {}
      \/ Cardinality(AccountsOf(y0)) + Cardinality(Provisioning(y0)) <= Cardinality(Calls)
  BY <1>2 DEF RaceInv
<1>9. Cardinality(AccountsOf(y0)') + Cardinality(Provisioning(y0)') <= Cardinality(Calls)
  BY <1>6, <1>7, <1>8, Finite
<1>10. ASSUME NEW y \in 1..MaxYear, y # y0
       PROVE  \/ AccountsOf(y)' = {}
              \/ Cardinality(AccountsOf(y)') + Cardinality(Provisioning(y)') <= Cardinality(Calls)
  BY <1>4, <1>10, FewerProvision
<1>11. ASSUME NEW y \in 1..MaxYear
       PROVE  (\/ AccountsOf(y) = {}
               \/ Cardinality(AccountsOf(y)) + Cardinality(Provisioning(y)) <= Cardinality(Calls))'
  <2>1. CASE y = y0
    <3>1. AccountsOf(y)' = AccountsOf(y0)' /\ Provisioning(y)' = Provisioning(y0)'
      BY <2>1 DEF AccountsOf, Provisioning
    <3> QED BY <1>9, <3>1
  <2>2. CASE y # y0
    BY <1>10, <2>2
  <2> QED BY <2>1, <2>2
<1> QED BY <1>11 DEF RaceInv

LEMMA OthersRace ==
    ASSUME IInv, RaceInv, [Next]_vars,
           \A c \in Calls : ~findBalance(c) /\ ~provision(c)
    PROVE  RaceInv'
<1>1. ASSUME NEW c \in Calls, NEW s, Start(c, s), s.pc # "provision" PROVE RaceInv'
  BY <1>1, QuietStep DEF Start
<1>2. ASSUME NEW c \in Calls, NEW s, Goto(c, s), s.pc # "provision",
             \A b \in Balances : balance'[b].year = balance[b].year
      PROVE  RaceInv'
  BY <1>2, QuietStep DEF Goto
<1>3. ASSUME NEW c \in Calls, NEW r \in Requests, NEW d \in Days, beginSubmit(c, r, d)
      PROVE  RaceInv'
  <2> DEFINE pc == IF tpl.hasAmount THEN "find" ELSE "insert"
             s == [Idle EXCEPT !.pc = pc, !.req = r, !.days = d, !.tpl = tpl]
  <2> HIDE DEF pc
  <2>1. s.pc = pc
    BY DEF Idle
  <2>2. pc # "provision"
    BY DEF pc
  <2> HIDE DEF s
  <2>3. Start(c, s)
    BY <1>3 DEF beginSubmit, s, pc
  <2> QED BY <1>1, <2>1, <2>2, <2>3
<1>4. ASSUME NEW c \in Calls, NEW r, NEW to, NEW actor, Decide(c, r, to, actor) PROVE RaceInv'
  <2>1. [Idle EXCEPT !.pc = "fetch", !.req = r, !.days = row[r].days, !.tpl = tpl,
                     !.to = to, !.by = actor].pc = "fetch"
    BY DEF Idle
  <2> QED BY <1>1, <1>4, <2>1 DEF Decide
<1>5. ASSUME NEW c \in Calls, NEW r \in Requests,
             \/ beginCancel(c, r)
             \/ \E actor \in LeaveApprovalActor : beginApprove(c, r, actor) \/ beginReject(c, r, actor)
      PROVE  RaceInv'
  BY <1>4, <1>5 DEF beginCancel, beginApprove, beginReject
<1>6. ASSUME NEW c \in Calls, insertRequest(c) \/ Fail(c) PROVE RaceInv'
  <2>1. call' = [call EXCEPT ![c] = Idle] /\ balance' = balance
    BY <1>6 DEF insertRequest, Fail, Goto
  <2> QED BY <2>1, ConstantTypes, QuietStep
<1>7. ASSUME NEW c \in Calls, fetch(c) PROVE RaceInv'
  <2>1. call[c] \in Call
    BY DEF IInv, TypeOK
  <2>2. [call[c] EXCEPT !.pc = "write", !.see = row[call[c].req].place].pc = "write"
    BY <2>1 DEF Call
  <2> QED BY <1>2, <1>7, <2>2 DEF fetch
<1>8. ASSUME NEW c \in Calls, write(c) PROVE RaceInv'
  <2>1. [call[c] EXCEPT !.pc = "balance"].pc = "balance"
    BY DEF IInv, TypeOK, Call
  <2> QED BY <1>2, <1>8, <2>1, ConstantTypes DEF write
<1>9. ASSUME NEW c \in Calls, findCharged(c) PROVE RaceInv'
  <2>1. call[c] \in Call
    BY DEF IInv, TypeOK
  <2>2. \A b : [call[c] EXCEPT !.pc = "charge", !.account = b, !.found = balance[b]].pc = "charge"
    BY <2>1 DEF Call
  <2> QED BY <1>2, <1>9, <2>2, ConstantTypes DEF findCharged
<1>10. ASSUME NEW c \in Calls, charge(c) PROVE RaceInv'
  <2>1. \A used, left : balance' = [balance EXCEPT ![call[c].account].used = used,
                                                   ![call[c].account].left = left]
          => \A b \in Balances : balance'[b].year = balance[b].year
    BY DEF IInv, TypeOK, Balance
  <2> QED BY <1>2, <1>10, <2>1, ConstantTypes DEF charge, Charge
<1>11. ASSUME \/ \E t \in Template : changeTemplate(t)
              \/ NextYear
              \/ UNCHANGED vars
       PROVE  RaceInv'
  <2>1. UNCHANGED <<balance, call>>
    BY <1>11 DEF changeTemplate, NextYear, vars
  <2> QED BY <2>1 DEF RaceInv, AccountsOf, Provisioning
<1> QED BY <1>3, <1>5, <1>6, <1>7, <1>8, <1>9, <1>10, <1>11 DEF Next

\* A year has more than one balance only if as many submissions raced for it.
THEOREM Accounts == Spec => []AccountsOnlyByRace
<1>1. Init => RaceInv
  BY ConstantTypes DEF Init, RaceInv, AccountsOf
<1>2. IInv /\ RaceInv /\ [Next]_vars => RaceInv'
  BY FindRace, ProvisionRace, OthersRace
<1>3. RaceInv => AccountsOnlyByRace
  BY Finite, FS_EmptySet DEF RaceInv, AccountsOnlyByRace
<1> QED BY <1>1, <1>2, <1>3, Invariant, PTL DEF Spec
=============================================================================
