------------------------ MODULE EmploymentChangeProofs ------------------------
(***************************************************************************)
(* Theorems of EmploymentChange, for every number of requests and calls,   *)
(* every roster and every calendar.                                        *)
(***************************************************************************)
EXTENDS EmploymentChange, SequenceTheorems, TLAPS

USE EmploymentChangeAssumption

LEMMA Singleton ==
    ASSUME NEW S, NEW s \in S
    PROVE  <<s>> \in Seq(S) /\ Len(<<s>>) = 1
OBVIOUS

\* A role stage is a sequence of at most that stage.
LEMMA RoleStageType ==
    ASSUME NEW stage \in Stages, NEW u \in Users, NEW authority
    PROVE  RoleStage(stage, u, authority) \in Seq(Stages)
BY Singleton, EmptySeq DEF RoleStage

\* The chain a request is submitted with is a non-empty sequence of stages:
\* the final approver's stage is always there, since somebody is an admin and
\* an admin may not initiate.
LEMMA ChainType ==
    ASSUME NEW u \in Users, NEW kind \in Kinds, MayInitiate(u)
    PROVE  /\ BuildApprovalChain(u, kind) \in Seq(Stages)
           /\ Len(BuildApprovalChain(u, kind)) > 0
           /\ \E k \in DOMAIN BuildApprovalChain(u, kind) : BuildApprovalChain(u, kind)[k] = "ADMIN"
<1> DEFINE A == IF Manager \notin {NoUser, u} THEN <<"MANAGER">> ELSE << >>
           B == RoleStage("HR", u, {"HR_MANAGER", "BUSINESS_ADMIN"})
           C == IF HasSalary(kind)
                THEN RoleStage("FINANCE", u, {"FINANCE_MANAGER", "BUSINESS_ADMIN"})
                ELSE << >>
           D == RoleStage("ADMIN", u, {"BUSINESS_ADMIN"})
<1>1. A \in Seq(Stages)
  BY Singleton, EmptySeq DEF Stages
<1>2. B \in Seq(Stages) /\ C \in Seq(Stages)
  BY RoleStageType, EmptySeq DEF Stages
<1>3. D = <<"ADMIN">>
  <2>1. RoleAt("ADMIN") = "BUSINESS_ADMIN"
    BY DEF RoleAt
  <2>2. RolesOf[u] \cap {"BUSINESS_ADMIN"} = {}
    BY DEF MayInitiate
  <2> QED BY <2>1, <2>2 DEF RoleStage, MayInitiate
<1>4. BuildApprovalChain(u, kind) = ((A \o B) \o C) \o D
  BY DEF BuildApprovalChain
<1> HIDE DEF A, B, C, D
<1>d. D \in Seq(Stages) /\ Len(D) = 1
  BY <1>3, Singleton DEF Stages
<1>5. A \o B \in Seq(Stages)
  BY <1>1, <1>2, ConcatProperties
<1>6. (A \o B) \o C \in Seq(Stages)
  BY <1>2, <1>5, ConcatProperties
<1>7. /\ ((A \o B) \o C) \o D \in Seq(Stages)
      /\ Len(((A \o B) \o C) \o D) = Len((A \o B) \o C) + Len(D)
  BY <1>6, <1>d, ConcatProperties
<1>8. Len((A \o B) \o C) \in Nat
  BY <1>6, LenProperties
<1>9. \E k \in DOMAIN (((A \o B) \o C) \o D) : (((A \o B) \o C) \o D)[k] = "ADMIN"
  <2> DEFINE k == Len((A \o B) \o C) + 1
  <2>1. k \in DOMAIN (((A \o B) \o C) \o D) /\ (((A \o B) \o C) \o D)[k] = "ADMIN"
    BY <1>3, <1>6, <1>d, <1>7, <1>8, ConcatProperties
  <2> HIDE DEF k
  <2> QED BY <2>1
<1>10. Len(((A \o B) \o C) \o D) > 0
  BY <1>d, <1>7, <1>8
<1> QED BY <1>4, <1>7, <1>9, <1>10

-----------------------------------------------------------------------------
(* Type correctness.  A recorded approval is typed because a call that has *)
(* read a pending row holds a stage, a request and a user: CallShape.      *)

InScope(cl) ==
    /\ cl.pc \notin {"idle", "insert"} => cl.req \in Reqs
    /\ cl.pc \in {"offer", "recheck", "log"} => cl.user \in Users
    /\ cl.pc \in {"insert", "log"} => cl.snap.stage \in Stages

StageWhilePending == \A r \in Reqs : row[r].status = "PENDING" => row[r].stage \in Stages

CallShape == \A p \in Procs : InScope(call[p])

TypeInv == TypeOK /\ StageWhilePending /\ CallShape

LEMMA NoRowType == NoRow \in RowType
BY EmptySeq DEF NoRow, RowType, Statuses, Kinds, Amounts, Days, Stages, Completed

LEMMA IdleType == Idle \in CallType /\ InScope(Idle)
BY NoRowType DEF Idle, CallType, PCs, InScope

LEMMA TargetType ==
    ASSUME NEW stage \in Stages
    PROVE  /\ UserAt(stage) \in Users \cup {NoUser}
           /\ RoleAt(stage) \in RoleKeys \cup {NoRole}
BY DEF UserAt, RoleAt, Stages, RoleKeys

\* A column keeps the type its old and new value have.
LEMMA ColType ==
    ASSUME NEW S, NEW old, NEW new \in S, NEW current \in S
    PROVE  Col(old, new, current) \in S
BY DEF Col

\* The rows the handlers write are typed, and pending ones have a stage.
LEMMA RetargetType ==
    ASSUME NEW req \in RowType, NEW snap \in RowType, snap.idx < Len(snap.chain)
    PROVE  /\ Retarget(req, snap) \in RowType
           /\ Retarget(req, snap).status = req.status
           /\ Retarget(req, snap).chain = req.chain
           /\ Retarget(req, snap).by = req.by
           /\ Retarget(req, snap).idx = snap.idx + 1
           /\ Retarget(req, snap).stage
                = Col(snap.stage, snap.chain[snap.idx + 1], req.stage)
           /\ req.stage \in Stages => Retarget(req, snap).stage \in Stages
<1> DEFINE next  == snap.chain[snap.idx + 1]
           stage == Col(snap.stage, next, req.stage)
           user  == Col(snap.apprUser, UserAt(next), req.apprUser)
           role  == Col(snap.apprRole, RoleAt(next), req.apprRole)
<1>1. next \in Stages /\ snap.idx + 1 \in Nat
  BY DEF RowType
<1>2. /\ req.stage \in Stages \cup {Completed}
      /\ req.apprUser \in Users \cup {NoUser}
      /\ req.apprRole \in RoleKeys \cup {NoRole}
  BY DEF RowType
<1>3. /\ stage \in Stages \cup {Completed}
      /\ req.stage \in Stages => stage \in Stages
      /\ user \in Users \cup {NoUser}
      /\ role \in RoleKeys \cup {NoRole}
  BY <1>1, <1>2, ColType, TargetType
<1>4. Retarget(req, snap) =
        [req EXCEPT !.stage = stage, !.apprUser = user, !.apprRole = role,
                    !.idx = snap.idx + 1]
  BY DEF Retarget
<1>5. Retarget(req, snap).stage = stage
  BY <1>4 DEF RowType
<1> HIDE DEF stage, user, role
<1>6. Retarget(req, snap) \in RowType
  <2>1. Retarget(req, snap) =
          [status |-> req.status, deleted |-> req.deleted, by |-> req.by, kind |-> req.kind,
           amount |-> req.amount, rec |-> req.rec, base |-> req.base, date |-> req.date,
           stage |-> stage, apprUser |-> user, apprRole |-> role,
           chain |-> req.chain, idx |-> snap.idx + 1]
    BY <1>4 DEF RowType
  <2> QED BY <1>1, <1>3, <2>1 DEF RowType
<1>7. /\ Retarget(req, snap).status = req.status
      /\ Retarget(req, snap).chain = req.chain
  BY <1>4 DEF RowType
<1>8. /\ Retarget(req, snap).by = req.by
      /\ Retarget(req, snap).idx = snap.idx + 1
  BY <1>1, <1>4 DEF RowType
<1> QED BY <1>3, <1>5, <1>6, <1>7, <1>8 DEF stage

LEMMA SettledType ==
    ASSUME NEW req \in RowType, NEW snap \in RowType, NEW status \in Statuses,
           NEW stage \in Stages \cup {Completed}
    PROVE  /\ Settled(req, snap, status, stage) \in RowType
           /\ Settled(req, snap, status, stage).status = status
           /\ Settled(req, snap, status, stage).stage = stage
           /\ Settled(req, snap, status, stage).chain = req.chain
           /\ Settled(req, snap, status, stage).by = req.by
           /\ Settled(req, snap, status, stage).idx = req.idx
<1> DEFINE user == Col(snap.apprUser, NoUser, req.apprUser)
           role == Col(snap.apprRole, NoRole, req.apprRole)
<1>1. /\ req.apprUser \in Users \cup {NoUser}
      /\ req.apprRole \in RoleKeys \cup {NoRole}
  BY DEF RowType
<1>2. user \in Users \cup {NoUser} /\ role \in RoleKeys \cup {NoRole}
  BY <1>1, ColType
<1>3. Settled(req, snap, status, stage) =
        [req EXCEPT !.status = status, !.stage = stage, !.apprUser = user,
                    !.apprRole = role]
  BY DEF Settled
<1> HIDE DEF user, role
<1>4. Settled(req, snap, status, stage) \in RowType
  <2>1. Settled(req, snap, status, stage) =
          [status |-> status, deleted |-> req.deleted, by |-> req.by, kind |-> req.kind,
           amount |-> req.amount, rec |-> req.rec, base |-> req.base, date |-> req.date,
           stage |-> stage, apprUser |-> user, apprRole |-> role,
           chain |-> req.chain, idx |-> req.idx]
    BY <1>3 DEF RowType
  <2> QED BY <1>2, <2>1 DEF RowType
<1>5. /\ Settled(req, snap, status, stage).status = status
      /\ Settled(req, snap, status, stage).stage = stage
      /\ Settled(req, snap, status, stage).chain = req.chain
  BY <1>3 DEF RowType
<1>6. /\ Settled(req, snap, status, stage).by = req.by
      /\ Settled(req, snap, status, stage).idx = req.idx
  BY <1>3 DEF RowType
<1> QED BY <1>4, <1>5, <1>6

LEMMA EditedType ==
    ASSUME NEW req \in RowType, NEW snap \in RowType, NEW amount \in Amounts, NEW date \in Days
    PROVE  /\ Edited(req, snap, amount, date) \in RowType
           /\ Edited(req, snap, amount, date).status = req.status
           /\ Edited(req, snap, amount, date).stage = req.stage
           /\ Edited(req, snap, amount, date).chain = req.chain
           /\ Edited(req, snap, amount, date).by = req.by
           /\ Edited(req, snap, amount, date).idx = snap.idx
<1> DEFINE a == Col(snap.amount, amount, req.amount)
           d == Col(snap.date, date, req.date)
           o == Col(snap.rec, 0, req.rec)
<1>1. req.amount \in Amounts /\ req.date \in Days /\ req.rec \in Amounts
  BY DEF RowType
<1>2. 0 \in Amounts
  BY DEF Amounts
<1>3. a \in Amounts /\ d \in Days /\ o \in Amounts
  BY <1>1, <1>2, ColType
<1>4. Edited(req, snap, amount, date) =
        [req EXCEPT !.amount = a, !.date = d, !.rec = o, !.idx = snap.idx]
  BY DEF Edited
<1> HIDE DEF a, d, o
<1>5. Edited(req, snap, amount, date) \in RowType
  <2>1. Edited(req, snap, amount, date) =
          [status |-> req.status, deleted |-> req.deleted, by |-> req.by, kind |-> req.kind,
           amount |-> a, rec |-> o, base |-> req.base, date |-> d,
           stage |-> req.stage, apprUser |-> req.apprUser, apprRole |-> req.apprRole,
           chain |-> req.chain, idx |-> snap.idx]
    BY <1>4 DEF RowType
  <2> QED BY <1>3, <2>1 DEF RowType
<1>6. /\ Edited(req, snap, amount, date).status = req.status
      /\ Edited(req, snap, amount, date).stage = req.stage
      /\ Edited(req, snap, amount, date).chain = req.chain
  BY <1>4 DEF RowType
<1>7. /\ Edited(req, snap, amount, date).by = req.by
      /\ Edited(req, snap, amount, date).idx = snap.idx
  BY <1>4 DEF RowType
<1> QED BY <1>5, <1>6, <1>7

\* A step that saves one row and moves one call on.
LEMMA SaveType ==
    ASSUME TypeInv, NEW r \in Reqs, NEW new \in RowType, Save(r, new),
           new.status = "PENDING" => new.stage \in Stages
    PROVE  row' \in [Reqs -> RowType] /\ StageWhilePending'
BY DEF TypeInv, TypeOK, Save, StageWhilePending

LEMMA FinishType ==
    ASSUME TypeInv, NEW p \in Procs, Finish(p)
    PROVE  call' \in [Procs -> CallType] /\ CallShape'
BY IdleType DEF TypeInv, TypeOK, Finish, CallShape

LEMMA GotoType ==
    ASSUME TypeInv, NEW p \in Procs, NEW pc \in PCs \ {"idle", "insert", "log", "offer"},
           Goto(p, pc), call[p].pc \notin {"idle", "insert"},
           pc = "recheck" => call[p].pc = "offer"
    PROVE  call' \in [Procs -> CallType] /\ CallShape'
BY DEF TypeInv, TypeOK, Goto, CallShape, InScope, CallType

LEMMA StartType ==
    ASSUME TypeInv, NEW c \in Calls, NEW u \in Users, NEW r \in Reqs \cup {NoReq},
           NEW pc \in PCs, NEW snap \in RowType, Start(c, u, r, pc, snap),
           pc # "insert" => r \in Reqs,
           pc \in {"insert", "log"} => snap.stage \in Stages
    PROVE  TypeInv'
<1> DEFINE new == [pc |-> pc, user |-> u, req |-> r, snap |-> snap]
<1>1. new \in CallType /\ InScope(new)
  BY DEF CallType, InScope
<1> HIDE DEF new
<1>2. call' = [call EXCEPT ![c] = new]
  BY DEF Start, new
<1>3. call' \in [Procs -> CallType] /\ CallShape'
  BY <1>1, <1>2 DEF TypeInv, TypeOK, CallShape, Procs
<1>4. started' \in 0 .. MaxCalls
  BY DEF TypeInv, TypeOK, Start
<1> QED BY <1>3, <1>4 DEF TypeInv, TypeOK, Start, StageWhilePending

LEMMA TypeUserCall ==
    ASSUME TypeInv, NEW c \in Calls, NEW u \in Users, UserCall(c, u)
    PROVE  TypeInv'
<1>1. ASSUME NEW kind \in UsedKinds, NEW amount \in Salaries \cup {0}, NEW date \in Days,
             BeginCreate(c, u, kind, amount, date)
      PROVE  TypeInv'
  <2> DEFINE chain == BuildApprovalChain(u, kind)
             base == IF HasSalary(kind) THEN emp.salary ELSE 0
             user == UserAt(chain[1])
             role == RoleAt(chain[1])
             snap == [NoRow EXCEPT !.status = "PENDING", !.by = u, !.kind = kind,
                               !.amount = amount, !.date = date, !.base = base,
                               !.stage = chain[1], !.apprUser = user,
                               !.apprRole = role, !.chain = chain]
  <2>1. kind \in Kinds
    OBVIOUS
  <2>2. chain \in Seq(Stages) /\ Len(chain) > 0
    BY <1>1, <2>1, ChainType DEF BeginCreate
  <2> HIDE DEF chain
  <2>3. chain[1] \in Stages
    BY <2>2
  <2>4. base \in Amounts /\ amount \in Amounts
    BY DEF TypeInv, TypeOK, Amounts
  <2>5. user \in Users \cup {NoUser} /\ role \in RoleKeys \cup {NoRole}
    BY <2>3, TargetType
  <2> HIDE DEF base, user, role
  <2>6. snap \in RowType /\ snap.stage \in Stages
    BY <2>1, <2>2, <2>3, <2>4, <2>5, NoRowType DEF RowType, Statuses, Open
  <2>7. Start(c, u, NoReq, "insert", snap)
    BY <1>1 DEF BeginCreate, chain, base, user, role
  <2> HIDE DEF snap
  <2> QED BY <2>6, <2>7, StartType DEF PCs
<1>2. ASSUME NEW r \in Reqs, BeginImmediate(c, u, r)
      PROVE  TypeInv'
  <2> DEFINE new == [NoRow EXCEPT !.status = "APPLIED", !.by = u, !.date = today]
             cl == [Idle EXCEPT !.pc = "immTitle", !.user = u, !.req = r]
  <2>1. new \in RowType /\ new.status = "APPLIED"
    BY NoRowType DEF TypeInv, TypeOK, RowType, Statuses, Terminal
  <2>2. cl \in CallType /\ InScope(cl)
    BY IdleType DEF CallType, PCs, InScope
  <2>3. Save(r, new) /\ call' = [call EXCEPT ![c] = cl]
    BY <1>2 DEF BeginImmediate
  <2> HIDE DEF new, cl
  <2>4. row' \in [Reqs -> RowType] /\ StageWhilePending'
    BY <2>1, <2>3, SaveType
  <2>5. call' \in [Procs -> CallType] /\ CallShape'
    BY <2>2, <2>3 DEF TypeInv, TypeOK, CallShape, Procs
  <2>6. started' \in 0 .. MaxCalls
    BY <1>2 DEF TypeInv, TypeOK, BeginImmediate
  <2> QED BY <1>2, <2>4, <2>5, <2>6 DEF TypeInv, TypeOK, BeginImmediate
<1>3. ASSUME NEW r \in Reqs,
             \/ BeginApprove(c, u, r) \/ BeginReject(c, u, r) \/ BeginCancel(c, u, r)
             \/ BeginDelete(c, u, r) \/ BeginCounter(c, u, r) \/ BeginUpdate(c, u, r)
      PROVE  TypeInv'
  <2>1. PICK pc \in PCs \ {"insert"} :
           Start(c, u, r, pc, row[r]) /\ (pc = "log" => row[r].status = "PENDING")
    BY <1>3 DEF BeginApprove, BeginReject, BeginCancel, BeginDelete, BeginCounter,
                BeginUpdate, AwaitingApprovalOf, PCs
  <2>2. row[r] \in RowType /\ (pc = "log" => row[r].stage \in Stages)
    BY <2>1 DEF TypeInv, TypeOK, StageWhilePending
  <2> QED BY <2>1, <2>2, StartType
<1> QED
  BY <1>1, <1>2, <1>3 DEF UserCall

LEMMA TypeCallStep ==
    ASSUME TypeInv, NEW c \in Calls, CallStep(c)
    PROVE  TypeInv'
<1> DEFINE cl == call[c]
<1>0. /\ c \in Procs /\ cl \in CallType /\ cl.snap \in RowType /\ InScope(cl)
      /\ cl.pc \notin {"idle", "insert"} => row[cl.req] \in RowType
  BY DEF Procs, CallType, TypeInv, TypeOK, CallShape, InScope
<1> USE DEF TypeInv, TypeOK
<1>1. ASSUME NEW r \in Reqs, Insert(c, r) PROVE TypeInv'
  BY <1>0, <1>1, SaveType, FinishType DEF Insert, InScope
<1>2. ASSUME NEW amount \in Salaries, Offer(c, amount) PROVE TypeInv'
  <2>1. CASE Visible(cl.req)
    <3> DEFINE new == [row[cl.req] EXCEPT !.rec = amount]
    <3>1. cl.req \in Reqs /\ row[cl.req] \in RowType
      BY <1>0, <1>2 DEF Offer, InScope
    <3>2. /\ new \in RowType
          /\ new.status = row[cl.req].status /\ new.stage = row[cl.req].stage
      BY <3>1 DEF RowType, Amounts
    <3>3. Save(cl.req, new) /\ Goto(c, "recheck")
      BY <1>2, <2>1 DEF Offer
    <3> HIDE DEF new
    <3>4. row' \in [Reqs -> RowType] /\ StageWhilePending'
      BY <3>1, <3>2, <3>3, SaveType DEF StageWhilePending
    <3>5. call' \in [Procs -> CallType] /\ CallShape'
      BY <1>0, <1>2, <3>3, GotoType DEF Offer, PCs
    <3> QED BY <1>2, <3>4, <3>5 DEF Offer
  <2>2. CASE ~Visible(cl.req)
    BY <1>0, <1>2, <2>2, FinishType DEF Offer, StageWhilePending
  <2> QED BY <2>1, <2>2
<1>3. CASE Recheck(c)
  <2>1. CASE AwaitingApprovalOf(cl.user, cl.req)
    <3> DEFINE new == [cl EXCEPT !.pc = "log", !.snap = row[cl.req]]
    <3>1. cl.req \in Reqs /\ cl.user \in Users /\ row[cl.req].stage \in Stages
      BY <1>0, <1>3, <2>1 DEF Recheck, InScope, AwaitingApprovalOf, StageWhilePending
    <3>2. new \in CallType /\ InScope(new)
      BY <1>0, <3>1 DEF CallType, InScope, PCs
    <3>3. call' = [call EXCEPT ![c] = new]
      BY <1>0, <1>3, <2>1 DEF Recheck
    <3> HIDE DEF new
    <3> QED BY <1>3, <3>2, <3>3 DEF Recheck, CallShape, StageWhilePending
  <2>2. CASE ~AwaitingApprovalOf(cl.user, cl.req)
    BY <1>0, <1>3, <2>2, FinishType DEF Recheck, StageWhilePending
  <2> QED BY <2>1, <2>2
<1>4. CASE LogApproval(c)
  <2>1. cl.req \in Reqs /\ cl.user \in Users /\ cl.snap.stage \in Stages
    BY <1>0, <1>4 DEF LogApproval, InScope
  <2>2. acts' \subseteq ActType
    BY <1>4, <2>1 DEF LogApproval, ActType
  <2>3. call' \in [Procs -> CallType] /\ CallShape'
    BY <1>0, <1>4, GotoType DEF LogApproval, PCs
  <2> QED BY <1>4, <2>2, <2>3 DEF LogApproval, StageWhilePending
<1>5. CASE SetApprovalTarget(c)
  <2>1. cl.req \in Reqs /\ row[cl.req] \in RowType
    BY <1>0, <1>5 DEF SetApprovalTarget, InScope
  <2> DEFINE new == Retarget(row[cl.req], cl.snap)
  <2>2. /\ new \in RowType /\ new.status = row[cl.req].status
        /\ row[cl.req].stage \in Stages => new.stage \in Stages
    BY <1>0, <1>5, <2>1, RetargetType DEF SetApprovalTarget
  <2>3. Save(cl.req, new)
    BY <1>5 DEF SetApprovalTarget
  <2> HIDE DEF new
  <2>4. row' \in [Reqs -> RowType] /\ StageWhilePending'
    BY <2>1, <2>2, <2>3, SaveType DEF StageWhilePending
  <2> QED BY <1>0, <1>5, <2>4, FinishType DEF SetApprovalTarget
<1>6. CASE FinalizeApproval(c)
  <2>1. cl.req \in Reqs /\ row[cl.req] \in RowType
    BY <1>0, <1>6 DEF FinalizeApproval, InScope
  <2>2. PICK status \in {"SCHEDULED", "APPROVED"} :
           /\ Save(cl.req, Settled(row[cl.req], cl.snap, status, Completed))
           /\ Finish(c) \/ Goto(c, FirstWrite(cl.snap.kind))
    BY <1>6 DEF FinalizeApproval
  <2>3. row' \in [Reqs -> RowType] /\ StageWhilePending'
    BY <1>0, <2>1, <2>2, SettledType, SaveType DEF Statuses, Open
  <2>4. call' \in [Procs -> CallType] /\ CallShape'
    BY <1>0, <1>6, <2>2, FinishType, GotoType DEF FinalizeApproval, FirstWrite, PCs
  <2> QED BY <1>6, <2>3, <2>4 DEF FinalizeApproval
<1>7. CASE Reject(c) \/ Cancel(c)
  <2>1. PICK status \in {"REJECTED", "CANCELLED"} :
           Close(c, IF status = "REJECTED" THEN "reject" ELSE "cancel", status)
    BY <1>7 DEF Reject, Cancel
  <2>2. cl.req \in Reqs /\ row[cl.req] \in RowType
    BY <1>0, <2>1 DEF Close, InScope
  <2>3. row[cl.req].stage \in Stages \cup {Completed}
    BY <2>2 DEF RowType
  <2> DEFINE new == Settled(row[cl.req], cl.snap, status, row[cl.req].stage)
  <2>4. new \in RowType /\ new.status = status
    <3>1. cl.snap \in RowType /\ status \in Statuses
      BY <1>0 DEF Statuses, Terminal
    <3> HIDE DEF cl, TypeInv, TypeOK
    <3>2. ASSUME NEW q \in RowType, NEW s \in RowType, NEW g \in Stages \cup {Completed}
          PROVE  Settled(q, s, status, g) \in RowType /\ Settled(q, s, status, g).status = status
      BY <3>1, SettledType
    <3> QED BY <2>2, <2>3, <3>1, <3>2
  <2>5. Save(cl.req, new)
    BY <2>1 DEF Close
  <2> HIDE DEF new
  <2>6. row' \in [Reqs -> RowType] /\ StageWhilePending'
    BY <2>2, <2>4, <2>5, SaveType
  <2> QED BY <1>0, <2>1, <2>6, FinishType DEF Close
<1>8. CASE DeleteOwn(c)
  <2> DEFINE new == [row[cl.req] EXCEPT !.deleted = TRUE]
  <2>1. cl.req \in Reqs /\ row[cl.req] \in RowType
    BY <1>0, <1>8 DEF DeleteOwn, InScope
  <2>2. new \in RowType /\ new.status = row[cl.req].status /\ new.stage = row[cl.req].stage
    BY <2>1 DEF RowType
  <2>3. Save(cl.req, new)
    BY <1>8 DEF DeleteOwn
  <2> HIDE DEF new
  <2>4. row' \in [Reqs -> RowType] /\ StageWhilePending'
    BY <2>1, <2>2, <2>3, SaveType DEF StageWhilePending
  <2> QED BY <1>0, <1>8, <2>4, FinishType DEF DeleteOwn
<1>9. ASSUME NEW amount \in Salaries \cup {0}, NEW date \in Days, UpdateOwn(c, amount, date)
      PROVE  TypeInv'
  <2>1. cl.req \in Reqs /\ row[cl.req] \in RowType /\ amount \in Amounts
    BY <1>0, <1>9 DEF UpdateOwn, InScope, Amounts
  <2> DEFINE new == Edited(row[cl.req], cl.snap, amount, date)
  <2>2. /\ new \in RowType /\ new.status = row[cl.req].status
        /\ new.stage = row[cl.req].stage
    <3>1. cl.snap \in RowType
      BY <1>0
    <3> HIDE DEF cl, TypeInv, TypeOK
    <3>2. ASSUME NEW q \in RowType, NEW s \in RowType
          PROVE  /\ Edited(q, s, amount, date) \in RowType
                 /\ Edited(q, s, amount, date).status = q.status
                 /\ Edited(q, s, amount, date).stage = q.stage
      BY <2>1, EditedType
    <3> QED BY <2>1, <3>1, <3>2
  <2>3. Save(cl.req, new)
    BY <1>9 DEF UpdateOwn
  <2> HIDE DEF new
  <2>4. row' \in [Reqs -> RowType] /\ StageWhilePending'
    BY <2>1, <2>2, <2>3, SaveType DEF StageWhilePending
  <2> QED BY <1>0, <1>9, <2>4, FinishType DEF UpdateOwn
<1>10. CASE ImmediateTitle(c)
  BY <1>0, <1>10, GotoType DEF ImmediateTitle, CallType, PCs, StageWhilePending
<1>11. CASE ImmediateDone(c)
  BY <1>0, <1>11, FinishType DEF ImmediateDone, StageWhilePending
<1> QED
  BY <1>1, <1>2, <1>3, <1>4, <1>5, <1>6, <1>7, <1>8, <1>9, <1>10, <1>11 DEF CallStep

LEMMA TypeApplyStep ==
    ASSUME TypeInv, NEW p \in Procs, ApplyStep(p)
    PROVE  TypeInv'
<1> DEFINE cl == call[p]
<1>0. /\ cl \in CallType /\ cl.snap \in RowType /\ InScope(cl)
      /\ cl.pc \notin {"idle", "insert"} => cl.req \in Reqs /\ row[cl.req] \in RowType
  BY DEF CallType, TypeInv, TypeOK, CallShape, InScope
<1> USE DEF TypeInv, TypeOK
<1>1. CASE ApplyTitle(p)
  BY <1>0, <1>1, GotoType DEF ApplyTitle, CallType, PCs, StageWhilePending
<1>2. CASE ApplySalary(p)
  <2>1. FinalSalary(cl.snap) \in Amounts
    BY <1>0 DEF FinalSalary, RowType
  <2> QED BY <1>0, <1>2, <2>1, GotoType DEF ApplySalary, PCs, StageWhilePending
<1>3. CASE MarkApplied(p)
  <2> DEFINE new == [row[cl.req] EXCEPT !.status = "APPLIED", !.idx = cl.snap.idx]
  <2>1. cl.req \in Reqs /\ row[cl.req] \in RowType /\ cl.snap.idx \in Nat
    BY <1>0, <1>3 DEF MarkApplied, RowType
  <2>2. new \in RowType /\ new.status = "APPLIED"
    BY <2>1 DEF RowType, Statuses, Terminal
  <2>3. Save(cl.req, new)
    BY <1>3 DEF MarkApplied
  <2> HIDE DEF new
  <2>4. row' \in [Reqs -> RowType] /\ StageWhilePending'
    BY <2>1, <2>2, <2>3, SaveType
  <2> QED BY <1>3, <2>4, FinishType DEF MarkApplied
<1> QED BY <1>1, <1>2, <1>3 DEF ApplyStep

LEMMA TypeJob ==
    ASSUME TypeInv, JobScan \/ JobNext
    PROVE  TypeInv'
<1> USE DEF TypeInv, TypeOK
<1>1. CASE JobScan
  <2>1. due' \subseteq DueType
    BY <1>1 DEF JobScan, DueType
  <2> QED BY <1>1, <2>1 DEF JobScan, StageWhilePending, CallShape
<1>2. CASE JobNext
  <2>1. PICK d \in due :
           /\ call' = [call EXCEPT ![Job] =
                         [pc |-> FirstWrite(d.snap.kind), user |-> NoUser,
                          req |-> d.req, snap |-> d.snap]]
           /\ due' = due \ {d}
    BY <1>2 DEF JobNext
  <2> DEFINE new == [pc |-> FirstWrite(d.snap.kind), user |-> NoUser,
                     req |-> d.req, snap |-> d.snap]
  <2>2. d \in DueType
    OBVIOUS
  <2>3. new \in CallType /\ InScope(new)
    BY <2>2 DEF CallType, InScope, DueType, FirstWrite, PCs
  <2> HIDE DEF new
  <2>4. call' \in [Procs -> CallType] /\ CallShape'
    BY <2>1, <2>3 DEF Procs, CallShape, new
  <2> QED BY <1>2, <2>1, <2>4 DEF JobNext, StageWhilePending
<1> QED BY <1>1, <1>2

LEMMA TypeImmediateFails ==
    ASSUME TypeInv, NEW c \in Calls, ImmediateFails(c)
    PROVE  TypeInv'
<1> DEFINE new == [NoRow EXCEPT !.status = "DESTROYED"]
<1>1. call[c].req \in Reqs /\ c \in Procs
  BY DEF TypeInv, TypeOK, CallShape, InScope, ImmediateFails, Procs
<1>2. new \in RowType /\ new.status = "DESTROYED"
  BY NoRowType DEF RowType, Statuses
<1>3. Save(call[c].req, new)
  BY DEF ImmediateFails
<1> HIDE DEF new
<1>4. row' \in [Reqs -> RowType] /\ StageWhilePending'
  BY <1>1, <1>2, <1>3, SaveType
<1>5. call' \in [Procs -> CallType] /\ CallShape'
  BY <1>1, FinishType DEF ImmediateFails
<1> QED BY <1>4, <1>5 DEF TypeInv, TypeOK, ImmediateFails

LEMMA TypeEnvironment ==
    ASSUME TypeInv, NextDay \/ \E p \in Procs : Abort(p)
    PROVE  TypeInv'
<1> USE DEF TypeInv, TypeOK
<1>1. CASE NextDay
  <2>1. today' \in Days
    BY <1>1 DEF NextDay, Days
  <2> QED BY <1>1, <2>1 DEF NextDay, StageWhilePending, CallShape
<1>2. ASSUME NEW p \in Procs, Abort(p) PROVE TypeInv'
  BY <1>2, FinishType DEF Abort, StageWhilePending
<1> QED BY <1>1, <1>2

LEMMA TypeInit == Init => TypeInv
<1> SUFFICES ASSUME Init PROVE TypeInv
  OBVIOUS
<1>1. NoRow.status # "PENDING"
  BY DEF NoRow
<1>2. TypeOK
  BY NoRowType, IdleType DEF Init, TypeOK, Days, Amounts
<1> QED BY <1>1, <1>2, IdleType DEF Init, TypeInv, StageWhilePending, CallShape

LEMMA TypeStep == TypeInv /\ [Next]_vars => TypeInv'
<1> SUFFICES ASSUME TypeInv, [Next]_vars PROVE TypeInv'
  OBVIOUS
<1>1. CASE UNCHANGED vars
  BY <1>1 DEF vars, TypeInv, TypeOK, StageWhilePending, CallShape
<1>2. CASE Next
  BY <1>2, TypeUserCall, TypeCallStep, TypeApplyStep, TypeJob, TypeImmediateFails,
     TypeEnvironment DEF Next, JobStep, Procs
<1> QED BY <1>1, <1>2

\* Every variable keeps its type in every behaviour.
THEOREM TypeCorrect == Spec => []TypeOK
<1>1. TypeInv => TypeOK
  BY DEF TypeInv
<1> QED BY <1>1, TypeInit, TypeStep, PTL DEF Spec

-----------------------------------------------------------------------------
(* No stage is skipped.  The stage, approver and index columns are written *)
(* on their own, from snapshots of different ages, so neither column alone *)
(* says how far a request got.  What does hold of a row and of every       *)
(* snapshot of it is Progress: each stage before approvalIndex, and each    *)
(* stage before the one the stage column names, has an approval on record, *)
(* and so has the one at approvalIndex when the stage column lags behind it. *)

Done(r, q) == \A k \in DOMAIN q.chain : q.chain[k] \in ApprovedStages(r)

Progress(r, q) ==
    \/ Done(r, q)
    \/ /\ \A k \in DOMAIN q.chain : k < q.idx => q.chain[k] \in ApprovedStages(r)
       /\ \E j \in DOMAIN q.chain :
             /\ q.stage = q.chain[j]
             /\ \A k \in DOMAIN q.chain : k < j => q.chain[k] \in ApprovedStages(r)
             /\ j < q.idx /\ q.idx \in DOMAIN q.chain
                   => q.chain[q.idx] \in ApprovedStages(r)

\* What a salary request asks for, or was offered, exceeds the salary it saw.
Raise(q) == HasSalary(q.kind) => q.amount > q.base /\ (q.rec = 0 \/ q.rec > q.base)

RowOK(r, q) ==
    /\ Progress(r, q)
    /\ q.status \in InForce => Done(r, q)
    /\ Raise(q)

\* A snapshot of r agrees with r on the columns no handler changes.
SnapOK(r, q) ==
    /\ row[r].status # "ABSENT"
    /\ q.chain = row[r].chain /\ q.kind = row[r].kind /\ q.base = row[r].base
    /\ Progress(r, q)
    /\ Raise(q)

Fresh(q) ==
    /\ q.status = "PENDING" /\ q.idx = 1
    /\ q.chain # << >> /\ q.stage = q.chain[1]
    /\ Raise(q)

CallOK(cl) ==
    /\ cl.pc \notin {"idle", "insert"} => SnapOK(cl.req, cl.snap)
    /\ cl.pc = "insert" => Fresh(cl.snap)
    /\ cl.pc = "update" => cl.snap.idx = 1
    /\ cl.pc = "move" => cl.snap.stage \in ApprovedStages(cl.req)
    /\ cl.pc \in {"title", "salary", "mark"} => Done(cl.req, cl.snap)
    /\ cl.pc = "salary" => HasSalary(cl.snap.kind)
    /\ cl.pc \in {"immTitle", "immLog"} => cl.snap = NoRow

ChainInv ==
    /\ \A r \in Reqs : RowOK(r, row[r])
    /\ \A p \in Procs : CallOK(call[p])
    /\ \A d \in due : SnapOK(d.req, d.snap) /\ Done(d.req, d.snap)

\* Nothing a step does to the rows takes an approval back or changes the
\* chain, the kind or the base salary of a request.
Keeps ==
    /\ acts \subseteq acts'
    /\ \A r \in Reqs : row[r].status # "ABSENT" =>
          /\ row'[r].status # "ABSENT"
          /\ row'[r].chain = row[r].chain
          /\ row'[r].kind = row[r].kind
          /\ row'[r].base = row[r].base

LEMMA ApprovalsGrow ==
    ASSUME Keeps, NEW r \in Reqs
    PROVE  ApprovedStages(r) \subseteq ApprovedStages(r)'
BY DEF Keeps, ApprovedStages

LEMMA DoneGrows ==
    ASSUME Keeps, NEW r \in Reqs, NEW q \in RowType
    PROVE  /\ Done(r, q) => Done(r, q)'
           /\ Progress(r, q) => Progress(r, q)'
<1>1. ApprovedStages(r) \subseteq ApprovedStages(r)'
  BY ApprovalsGrow
<1>2. Done(r, q) => Done(r, q)'
  BY <1>1 DEF Done
<1>3. ASSUME Progress(r, q), ~Done(r, q) PROVE Progress(r, q)'
  <2>1. \A k \in DOMAIN q.chain : k < q.idx => q.chain[k] \in ApprovedStages(r)'
    BY <1>1, <1>3 DEF Progress
  <2>2. PICK j \in DOMAIN q.chain :
             /\ q.stage = q.chain[j]
             /\ \A k \in DOMAIN q.chain : k < j => q.chain[k] \in ApprovedStages(r)
             /\ j < q.idx /\ q.idx \in DOMAIN q.chain
                   => q.chain[q.idx] \in ApprovedStages(r)
    BY <1>3 DEF Progress
  <2> QED BY <1>1, <2>1, <2>2 DEF Progress
<1> QED BY <1>2, <1>3 DEF Progress

LEMMA SnapKept ==
    ASSUME Keeps, NEW r \in Reqs, NEW q \in RowType, SnapOK(r, q)
    PROVE  SnapOK(r, q)'
<1>1. Progress(r, q)'
  BY DoneGrows DEF SnapOK
<1>2. Raise(q)' /\ row[r].status # "ABSENT"
  BY DEF SnapOK, Raise, HasSalary
<1> QED BY <1>1, <1>2 DEF SnapOK, Keeps

LEMMA CallKept ==
    ASSUME Keeps, NEW cl \in CallType, InScope(cl), CallOK(cl)
    PROVE  CallOK(cl)'
<1>1. cl.snap \in RowType /\ (cl.pc \notin {"idle", "insert"} => cl.req \in Reqs)
  BY DEF CallType, InScope
<1>2. cl.pc \notin {"idle", "insert"} => SnapOK(cl.req, cl.snap)'
  BY <1>1, SnapKept DEF CallOK
<1>3. cl.pc \in {"title", "salary", "mark"} => Done(cl.req, cl.snap)'
  BY <1>1, DoneGrows DEF CallOK
<1>4. cl.pc = "move" => cl.snap.stage \in ApprovedStages(cl.req)'
  BY <1>1, ApprovalsGrow DEF CallOK
<1>5. Fresh(cl.snap) = Fresh(cl.snap)' /\ HasSalary(cl.snap.kind) = HasSalary(cl.snap.kind)'
  BY DEF Fresh, Raise, HasSalary
<1> QED BY <1>2, <1>3, <1>4, <1>5 DEF CallOK

LEMMA RowKept ==
    ASSUME Keeps, NEW r \in Reqs, NEW q \in RowType, RowOK(r, q)
    PROVE  RowOK(r, q)'
<1>1. Raise(q)' /\ Progress(r, q)'
  BY DoneGrows DEF RowOK, Raise, HasSalary
<1>2. q.status \in InForce => Done(r, q)'
  BY DoneGrows DEF RowOK
<1> QED BY <1>1, <1>2 DEF RowOK

\* A step that saves at most one row and moves at most one call on keeps the
\* invariant if that row and that call satisfy it afterwards.
LEMMA Frame ==
    ASSUME TypeInv, TypeInv', ChainInv, Keeps, due' \subseteq due,
           NEW p \in Procs, CallOK(call[p])',
           \A o \in Procs \ {p} : call'[o] = call[o],
           NEW r \in Reqs \cup {NoReq}, r \in Reqs => RowOK(r, row[r])',
           \A s \in Reqs \ {r} : row'[s] = row[s]
    PROVE  ChainInv'
<1>1. ASSUME NEW s \in Reqs, s # r PROVE RowOK(s, row[s])'
  <2>1. row[s] \in RowType /\ RowOK(s, row[s]) /\ row'[s] = row[s]
    BY <1>1 DEF TypeInv, TypeOK, ChainInv
  <2> QED BY <2>1, RowKept
<1>2. ASSUME NEW o \in Procs, o # p PROVE CallOK(call[o])'
  <2>1. /\ call[o] \in CallType /\ InScope(call[o]) /\ CallOK(call[o])
        /\ call'[o] = call[o]
    BY <1>2 DEF TypeInv, TypeOK, CallShape, ChainInv
  <2> QED BY <2>1, CallKept
<1>3. ASSUME NEW d \in due' PROVE SnapOK(d.req, d.snap)' /\ Done(d.req, d.snap)'
  <2>1. d \in due /\ d.req \in Reqs /\ d.snap \in RowType
    BY <1>3 DEF TypeInv, TypeOK, DueType
  <2>2. SnapOK(d.req, d.snap) /\ Done(d.req, d.snap)
    BY <2>1 DEF ChainInv
  <2> QED BY <2>1, <2>2, SnapKept, DoneGrows
<1>4. \A s \in Reqs : RowOK(s, row[s])'
  BY <1>1
<1>5. \A o \in Procs : CallOK(call[o])'
  BY <1>2
<1> QED BY <1>3, <1>4, <1>5 DEF ChainInv

LEMMA SaveStep ==
    ASSUME TypeInv, TypeInv', ChainInv, acts' = acts, due' \subseteq due,
           NEW r \in Reqs, NEW new \in RowType, Save(r, new), RowOK(r, new),
           row[r].status # "ABSENT" => /\ new.status # "ABSENT"
                                       /\ new.chain = row[r].chain
                                       /\ new.kind = row[r].kind
                                       /\ new.base = row[r].base,
           NEW p \in Procs, NEW cl \in CallType, InScope(cl), CallOK(cl),
           call' = [call EXCEPT ![p] = cl]
    PROVE  ChainInv'
<1>1. row'[r] = new /\ \A s \in Reqs \ {r} : row'[s] = row[s]
  BY DEF Save, TypeInv, TypeOK
<1>2. Keeps
  BY <1>1 DEF Keeps
<1>3. RowOK(r, row[r])'
  BY <1>1, <1>2, RowKept
<1>4. call'[p] = cl /\ \A o \in Procs \ {p} : call'[o] = call[o]
  BY DEF TypeInv, TypeOK
<1>5. CallOK(call[p])'
  BY <1>2, <1>4, CallKept
<1> QED BY <1>1, <1>2, <1>3, <1>4, <1>5, Frame

\* A step that touches no row and moves one call on.
LEMMA MoveStep ==
    ASSUME TypeInv, TypeInv', ChainInv, row' = row, acts' = acts, due' \subseteq due,
           NEW p \in Procs, NEW cl \in CallType, InScope(cl), CallOK(cl),
           call' = [call EXCEPT ![p] = cl]
    PROVE  ChainInv'
<1>1. Keeps
  BY DEF Keeps
<1>2. call'[p] = cl /\ \A o \in Procs \ {p} : call'[o] = call[o]
  BY DEF TypeInv, TypeOK
<1>3. CallOK(call[p])'
  BY <1>1, <1>2, CallKept
<1>4. NoReq \notin Reqs
  OBVIOUS
<1> QED BY <1>1, <1>2, <1>3, <1>4, Frame

\* What the request is about survives every write.
LEMMA RetargetKeeps ==
    ASSUME NEW req \in RowType, NEW snap \in RowType
    PROVE  LET new == Retarget(req, snap)
           IN  /\ new.kind = req.kind /\ new.base = req.base
               /\ new.amount = req.amount /\ new.rec = req.rec
BY DEF Retarget, RowType

LEMMA SettledKeeps ==
    ASSUME NEW req \in RowType, NEW snap \in RowType, NEW status, NEW stage
    PROVE  LET new == Settled(req, snap, status, stage)
           IN  /\ new.kind = req.kind /\ new.base = req.base
               /\ new.amount = req.amount /\ new.rec = req.rec
BY DEF Settled, RowType

LEMMA EditedKeeps ==
    ASSUME NEW req \in RowType, NEW snap \in RowType, NEW amount, NEW date
    PROVE  LET new == Edited(req, snap, amount, date)
           IN  /\ new.kind = req.kind /\ new.base = req.base
               /\ new.amount = Col(snap.amount, amount, req.amount)
               /\ new.rec = Col(snap.rec, 0, req.rec)
BY DEF Edited, RowType

LEMMA IdleOK == CallOK(Idle)
BY DEF CallOK, Idle

\* The heart of the argument: after an approval of the stage a snapshot names
\* is on record, the row that moves the request on from that snapshot makes
\* progress, whatever the row has become in the meantime.
LEMMA RetargetProgress ==
    ASSUME NEW r \in Reqs, NEW req \in RowType, NEW snap \in RowType,
           Progress(r, req), Progress(r, snap), req.chain = snap.chain,
           snap.stage \in ApprovedStages(r), snap.idx < Len(snap.chain)
    PROVE  Progress(r, Retarget(req, snap))
<1> DEFINE new   == Retarget(req, snap)
           app   == ApprovedStages(r)
           chain == snap.chain
           i     == snap.idx + 1
<1> SUFFICES Progress(r, new)
  OBVIOUS
<1>1. /\ new.chain = chain /\ new.idx = i
      /\ new.stage = Col(snap.stage, chain[i], req.stage)
  BY RetargetType
<1>2. snap.idx \in Nat /\ Len(chain) \in Nat /\ DOMAIN chain = 1 .. Len(chain)
  BY DEF RowType
<1>3. CASE Done(r, snap)
  BY <1>1, <1>3 DEF Progress, Done
<1>4. CASE ~Done(r, snap)
  <2>1. \A k \in DOMAIN chain : k < snap.idx => chain[k] \in app
    BY <1>4 DEF Progress
  <2>2. PICK j \in DOMAIN chain :
             /\ snap.stage = chain[j]
             /\ \A k \in DOMAIN chain : k < j => chain[k] \in app
             /\ j < snap.idx /\ snap.idx \in DOMAIN chain => chain[snap.idx] \in app
    BY <1>4 DEF Progress
  <2>3. ASSUME NEW k \in DOMAIN chain, k < i PROVE chain[k] \in app
    BY <1>2, <2>1, <2>2, <2>3
  <2>4. CASE chain[i] # snap.stage
    <3>1. new.stage = chain[i] /\ i \in DOMAIN chain
      BY <1>1, <1>2, <2>4 DEF Col
    <3> HIDE DEF new, i
    <3> QED BY <1>1, <1>2, <2>3, <3>1 DEF Progress
  <2>5. CASE chain[i] = snap.stage
    <3>1. new.stage = req.stage /\ chain[i] \in app
      BY <1>1, <2>5 DEF Col
    <3>2. CASE Done(r, req)
      BY <1>1, <3>2 DEF Progress, Done
    <3>3. CASE ~Done(r, req)
      <4>1. PICK l \in DOMAIN chain :
               req.stage = chain[l] /\ \A k \in DOMAIN chain : k < l => chain[k] \in app
        BY <3>3 DEF Progress
      <4> HIDE DEF new, i
      <4> QED BY <1>1, <2>3, <3>1, <4>1 DEF Progress
    <3> QED BY <3>2, <3>3
  <2> QED BY <2>4, <2>5
<1> QED BY <1>3, <1>4

\* A snapshot at the end of its chain whose stage is approved has them all.
LEMMA LastStageDone ==
    ASSUME NEW r \in Reqs, NEW snap \in RowType, Progress(r, snap),
           snap.stage \in ApprovedStages(r), snap.idx >= Len(snap.chain)
    PROVE  Done(r, snap)
<1>1. snap.idx \in Nat /\ Len(snap.chain) \in Nat /\ DOMAIN snap.chain = 1 .. Len(snap.chain)
  BY DEF RowType
<1> SUFFICES ASSUME ~Done(r, snap) PROVE FALSE
  OBVIOUS
<1> DEFINE chain == snap.chain
           app   == ApprovedStages(r)
<1>2. \A k \in DOMAIN chain : k < snap.idx => chain[k] \in app
  BY DEF Progress
<1>3. PICK j \in DOMAIN chain :
             /\ snap.stage = chain[j]
             /\ \A k \in DOMAIN chain : k < j => chain[k] \in app
             /\ j < snap.idx /\ snap.idx \in DOMAIN chain => chain[snap.idx] \in app
  BY DEF Progress
<1>4. ASSUME NEW k \in DOMAIN chain PROVE chain[k] \in app
  BY <1>1, <1>2, <1>3, <1>4
<1> QED BY <1>4 DEF Done

\* What a handler past its first read knows of its request.
LEMMA InFlight ==
    ASSUME TypeInv, ChainInv, NEW p \in Procs, call[p].pc \notin {"idle", "insert"}
    PROVE  /\ call[p].req \in Reqs
           /\ row[call[p].req] \in RowType /\ RowOK(call[p].req, row[call[p].req])
           /\ call[p].snap \in RowType /\ SnapOK(call[p].req, call[p].snap)
           /\ CallOK(call[p])
<1>1. call[p] \in CallType /\ InScope(call[p]) /\ CallOK(call[p])
  BY DEF TypeInv, TypeOK, CallShape, ChainInv
<1> QED BY <1>1 DEF TypeInv, TypeOK, InScope, ChainInv, CallOK, CallType

LEMMA ChainInsert ==
    ASSUME TypeInv, TypeInv', ChainInv, NEW c \in Calls, NEW r \in Reqs, Insert(c, r)
    PROVE  ChainInv'
<1> DEFINE new == call[c].snap
<1>1. c \in Procs /\ new \in RowType /\ Fresh(new)
  BY DEF Procs, TypeInv, TypeOK, CallType, ChainInv, CallOK, Insert
<1> HIDE DEF new
<1>2. Progress(r, new)
  <2>1. DOMAIN new.chain = 1 .. Len(new.chain) /\ Len(new.chain) > 0
    BY <1>1, EmptySeq DEF RowType, Fresh
  <2> QED BY <1>1, <2>1 DEF Progress, Fresh
<1>3. RowOK(r, new)
  BY <1>1, <1>2 DEF RowOK, Fresh, InForce
<1> QED BY <1>1, <1>3, IdleOK, IdleType, SaveStep DEF Insert, Finish, new

LEMMA ChainOffer ==
    ASSUME TypeInv, TypeInv', ChainInv, NEW c \in Calls, NEW amount \in Salaries,
           Offer(c, amount)
    PROVE  ChainInv'
<1> DEFINE cl == call[c]
<1>1. c \in Procs /\ cl.pc = "offer" /\ cl \in CallType /\ InScope(cl)
  BY DEF Procs, Offer, TypeInv, TypeOK, CallShape
<1>2. /\ cl.req \in Reqs /\ row[cl.req] \in RowType /\ RowOK(cl.req, row[cl.req])
      /\ SnapOK(cl.req, cl.snap) /\ CallOK(cl)
  BY <1>1, InFlight
<1>3. CASE Visible(cl.req)
  <2> DEFINE new == [row[cl.req] EXCEPT !.rec = amount]
             to  == [cl EXCEPT !.pc = "recheck"]
  <2>1. Save(cl.req, new) /\ call' = [call EXCEPT ![c] = to]
    BY <1>3 DEF Offer, Goto
  <2>2. /\ new.status = row[cl.req].status /\ new.chain = row[cl.req].chain
        /\ new.kind = row[cl.req].kind /\ new.base = row[cl.req].base
        /\ new.stage = row[cl.req].stage /\ new.idx = row[cl.req].idx
        /\ new.amount = row[cl.req].amount /\ new.rec = amount
        /\ new \in RowType /\ amount > new.base
    BY <1>2 DEF RowType, Amounts, SnapOK, Offer
  <2>3. to \in CallType /\ InScope(to) /\ CallOK(to)
    BY <1>1, <1>2 DEF CallType, PCs, InScope, CallOK
  <2> HIDE DEF new, to
  <2>4. RowOK(cl.req, new)
    BY <1>2, <2>2 DEF RowOK, Progress, Done, Raise
  <2> QED BY <1>1, <1>2, <2>1, <2>2, <2>3, <2>4, SaveStep DEF Offer
<1>4. CASE ~Visible(cl.req)
  BY <1>1, <1>4, IdleOK, IdleType, MoveStep DEF Offer, Finish
<1> QED BY <1>3, <1>4

LEMMA ChainRecheck ==
    ASSUME TypeInv, TypeInv', ChainInv, NEW c \in Calls, Recheck(c)
    PROVE  ChainInv'
<1> DEFINE cl == call[c]
<1>1. c \in Procs /\ cl.pc = "recheck" /\ cl \in CallType /\ InScope(cl)
  BY DEF Procs, Recheck, TypeInv, TypeOK, CallShape
<1>2. /\ cl.req \in Reqs /\ row[cl.req] \in RowType /\ RowOK(cl.req, row[cl.req])
      /\ SnapOK(cl.req, cl.snap) /\ CallOK(cl)
  BY <1>1, InFlight
<1>3. CASE AwaitingApprovalOf(cl.user, cl.req)
  <2> DEFINE to == [cl EXCEPT !.pc = "log", !.snap = row[cl.req]]
  <2>1. call' = [call EXCEPT ![c] = to]
    BY <1>3 DEF Recheck
  <2>2. to \in CallType /\ to.pc = "log" /\ to.snap = row[cl.req] /\ to.req = cl.req
    BY <1>1, <1>2 DEF CallType, PCs
  <2>3. InScope(to)
    BY <1>1, <1>2, <1>3 DEF InScope, AwaitingApprovalOf, TypeInv, StageWhilePending
  <2> HIDE DEF to
  <2>4. CallOK(to)
    BY <1>2, <2>2 DEF CallOK, SnapOK, RowOK
  <2> QED BY <1>1, <2>1, <2>2, <2>3, <2>4, MoveStep DEF Recheck
<1>4. CASE ~AwaitingApprovalOf(cl.user, cl.req)
  BY <1>1, <1>4, IdleOK, IdleType, MoveStep DEF Recheck, Finish
<1> QED BY <1>3, <1>4

LEMMA ChainLogApproval ==
    ASSUME TypeInv, TypeInv', ChainInv, NEW c \in Calls, LogApproval(c)
    PROVE  ChainInv'
<1>1. c \in Procs /\ call[c].pc = "log" /\ call[c] \in CallType /\ InScope(call[c])
  BY DEF Procs, LogApproval, TypeInv, TypeOK, CallShape
<1>2. PICK to \in CallType : to = [call[c] EXCEPT !.pc = "move"]
  BY <1>1 DEF CallType, PCs
<1>3. /\ to.pc = "move" /\ to.req \in Reqs /\ to.snap \in RowType
      /\ SnapOK(to.req, to.snap)
  <2>1. SnapOK(call[c].req, call[c].snap) /\ call[c].req \in Reqs
    BY <1>1, InFlight
  <2> QED BY <1>1, <1>2, <2>1 DEF CallType
<1>4. Keeps
  BY DEF LogApproval, Keeps
<1>5. SnapOK(to.req, to.snap)'
  BY <1>3, <1>4, SnapKept
<1>6. to.snap.stage \in ApprovedStages(to.req)'
  <2>1. [req |-> to.req, stage |-> to.snap.stage, actor |-> call[c].user] \in acts'
    BY <1>1, <1>2 DEF LogApproval, CallType
  <2> QED BY <2>1 DEF ApprovedStages
<1>7. CallOK(to)'
  BY <1>3, <1>5, <1>6 DEF CallOK
<1>8. call'[c] = to /\ \A o \in Procs \ {c} : call'[o] = call[o]
  BY <1>1, <1>2 DEF LogApproval, Goto, TypeInv, TypeOK
<1>9. CallOK(call[c])'
  BY <1>7, <1>8
<1>10. NoReq \notin Reqs /\ row' = row /\ due' = due
  BY DEF LogApproval
<1> QED BY <1>1, <1>4, <1>8, <1>9, <1>10, Frame

LEMMA ChainSetApprovalTarget ==
    ASSUME TypeInv, TypeInv', ChainInv, NEW c \in Calls, SetApprovalTarget(c)
    PROVE  ChainInv'
<1> DEFINE cl  == call[c]
           new == Retarget(row[cl.req], cl.snap)
<1>1. /\ c \in Procs /\ cl.pc = "move" /\ cl.snap.idx < Len(cl.snap.chain)
      /\ Save(cl.req, new) /\ Finish(c)
  BY DEF Procs, SetApprovalTarget
<1>2. /\ cl.req \in Reqs /\ row[cl.req] \in RowType /\ RowOK(cl.req, row[cl.req])
      /\ cl.snap \in RowType /\ SnapOK(cl.req, cl.snap) /\ CallOK(cl)
  BY <1>1, InFlight
<1> HIDE DEF cl
<1>3. /\ new \in RowType /\ new.status = row[cl.req].status
      /\ new.chain = row[cl.req].chain
  BY <1>1, <1>2, RetargetType
<1>4. /\ new.kind = row[cl.req].kind /\ new.base = row[cl.req].base
      /\ new.amount = row[cl.req].amount /\ new.rec = row[cl.req].rec
  BY <1>2, RetargetKeeps
<1>5. Progress(cl.req, new)
  BY <1>1, <1>2, RetargetProgress DEF CallOK, SnapOK, RowOK
<1> HIDE DEF new
<1>6. RowOK(cl.req, new)
  BY <1>2, <1>3, <1>4, <1>5 DEF RowOK, Done, Raise
<1> QED BY <1>1, <1>2, <1>3, <1>4, <1>6, IdleOK, IdleType, SaveStep
        DEF SetApprovalTarget, Finish

LEMMA ChainFinalizeApproval ==
    ASSUME TypeInv, TypeInv', ChainInv, NEW c \in Calls, FinalizeApproval(c)
    PROVE  ChainInv'
<1> DEFINE cl == call[c]
           to == [cl EXCEPT !.pc = FirstWrite(cl.snap.kind)]
<1>1. /\ c \in Procs /\ cl.pc = "move" /\ cl.snap.idx >= Len(cl.snap.chain)
      /\ cl \in CallType /\ InScope(cl)
  BY DEF Procs, FinalizeApproval, TypeInv, TypeOK, CallShape
<1>2. /\ cl.req \in Reqs /\ row[cl.req] \in RowType /\ RowOK(cl.req, row[cl.req])
      /\ cl.snap \in RowType /\ SnapOK(cl.req, cl.snap) /\ CallOK(cl)
  BY <1>1, InFlight
<1>3. PICK status \in {"SCHEDULED", "APPROVED"} :
         /\ Save(cl.req, Settled(row[cl.req], cl.snap, status, Completed))
         /\ \/ Finish(c)
            \/ call' = [call EXCEPT ![c] = to]
  BY DEF FinalizeApproval, Goto
<1>4. status \in Statuses /\ Completed \in Stages \cup {Completed}
  BY DEF Statuses, Open
<1>5. Done(cl.req, cl.snap)
  BY <1>1, <1>2, LastStageDone DEF SnapOK, CallOK
<1>6. to \in CallType /\ InScope(to) /\ CallOK(to)
  <2>1. /\ to.pc \in {"title", "salary"} /\ to.pc \in PCs
        /\ to.pc = "salary" => HasSalary(cl.snap.kind)
        /\ to.req = cl.req /\ to.snap = cl.snap
    BY <1>1, <1>2 DEF FirstWrite, HasTitle, HasSalary, CallType, RowType, Kinds, PCs
  <2>2. to \in CallType
    BY <1>1, <2>1 DEF CallType
  <2> QED BY <1>2, <1>5, <2>1, <2>2 DEF InScope, CallOK
<1> DEFINE new == Settled(row[cl.req], cl.snap, status, Completed)
<1> HIDE DEF cl, to
<1>7. /\ new \in RowType /\ new.status = status /\ new.chain = row[cl.req].chain
  BY <1>2, <1>4, SettledType
<1>8. /\ new.kind = row[cl.req].kind /\ new.base = row[cl.req].base
      /\ new.amount = row[cl.req].amount /\ new.rec = row[cl.req].rec
  BY <1>2, SettledKeeps
<1>9. Save(cl.req, new)
  BY <1>3
<1> HIDE DEF new
<1>10. RowOK(cl.req, new)
  BY <1>2, <1>5, <1>7, <1>8 DEF RowOK, Progress, Done, Raise, SnapOK
<1>11. \E to2 \in CallType : /\ InScope(to2) /\ CallOK(to2)
                            /\ call' = [call EXCEPT ![c] = to2]
  BY <1>3, <1>6, IdleOK, IdleType DEF Finish
<1>12. status # "ABSENT" /\ acts' = acts /\ due' = due
  BY <1>3 DEF FinalizeApproval
<1> QED BY <1>1, <1>2, <1>7, <1>8, <1>9, <1>10, <1>11, <1>12, SaveStep

LEMMA ChainClose ==
    ASSUME TypeInv, TypeInv', ChainInv, NEW c \in Calls, Reject(c) \/ Cancel(c)
    PROVE  ChainInv'
<1> DEFINE cl == call[c]
<1>1. PICK status \in {"REJECTED", "CANCELLED"} :
         Close(c, IF status = "REJECTED" THEN "reject" ELSE "cancel", status)
  BY DEF Reject, Cancel
<1>2. /\ c \in Procs /\ cl.pc \in {"reject", "cancel"} /\ Finish(c)
      /\ Save(cl.req, Settled(row[cl.req], cl.snap, status, row[cl.req].stage))
  BY <1>1 DEF Procs, Close
<1>3. /\ cl.req \in Reqs /\ row[cl.req] \in RowType /\ RowOK(cl.req, row[cl.req])
      /\ cl.snap \in RowType
  BY <1>2, InFlight
<1>4. status \in Statuses /\ row[cl.req].stage \in Stages \cup {Completed}
  BY <1>3 DEF Statuses, Terminal, RowType
<1> HIDE DEF cl
<1> DEFINE new == Settled(row[cl.req], cl.snap, status, row[cl.req].stage)
<1>5. /\ new \in RowType /\ new.status = status /\ new.chain = row[cl.req].chain
      /\ new.stage = row[cl.req].stage /\ new.idx = row[cl.req].idx
  <2>1. ASSUME NEW q \in RowType, NEW s \in RowType, q.stage \in Stages \cup {Completed}
        PROVE  /\ Settled(q, s, status, q.stage) \in RowType
               /\ Settled(q, s, status, q.stage).status = status
               /\ Settled(q, s, status, q.stage).chain = q.chain
               /\ Settled(q, s, status, q.stage).stage = q.stage
               /\ Settled(q, s, status, q.stage).idx = q.idx
    <3>1. status \in Statuses
      BY <1>4
    <3> QED BY <2>1, <3>1, SettledType
  <2> QED BY <1>3, <1>4, <2>1
<1>6. /\ new.kind = row[cl.req].kind /\ new.base = row[cl.req].base
      /\ new.amount = row[cl.req].amount /\ new.rec = row[cl.req].rec
  BY <1>3, SettledKeeps
<1>7. Save(cl.req, new)
  BY <1>2
<1> HIDE DEF new
<1>8. RowOK(cl.req, new)
  BY <1>3, <1>5, <1>6 DEF RowOK, Progress, Done, Raise, InForce
<1>9. status # "ABSENT" /\ acts' = acts /\ due' = due
  BY <1>1 DEF Close
<1> QED BY <1>2, <1>3, <1>5, <1>6, <1>7, <1>8, <1>9, IdleOK, IdleType, SaveStep
        DEF Finish

LEMMA ChainDeleteOwn ==
    ASSUME TypeInv, TypeInv', ChainInv, NEW c \in Calls, DeleteOwn(c)
    PROVE  ChainInv'
<1> DEFINE cl  == call[c]
           new == [row[cl.req] EXCEPT !.deleted = TRUE]
<1>1. /\ c \in Procs /\ cl.pc = "delete" /\ Finish(c) /\ Save(cl.req, new)
  BY DEF Procs, DeleteOwn
<1>2. /\ cl.req \in Reqs /\ row[cl.req] \in RowType /\ RowOK(cl.req, row[cl.req])
  BY <1>1, InFlight
<1> HIDE DEF cl
<1>3. /\ new \in RowType /\ new.status = row[cl.req].status
      /\ new.chain = row[cl.req].chain /\ new.stage = row[cl.req].stage
      /\ new.idx = row[cl.req].idx /\ new.kind = row[cl.req].kind
      /\ new.base = row[cl.req].base /\ new.amount = row[cl.req].amount
      /\ new.rec = row[cl.req].rec
  BY <1>2 DEF RowType
<1> HIDE DEF new
<1>4. RowOK(cl.req, new)
  BY <1>2, <1>3 DEF RowOK, Progress, Done, Raise
<1> QED BY <1>1, <1>2, <1>3, <1>4, IdleOK, IdleType, SaveStep DEF DeleteOwn, Finish

LEMMA ChainUpdateOwn ==
    ASSUME TypeInv, TypeInv', ChainInv, NEW c \in Calls,
           NEW amount \in Salaries \cup {0}, NEW date \in Days, UpdateOwn(c, amount, date)
    PROVE  ChainInv'
<1> DEFINE cl  == call[c]
           new == Edited(row[cl.req], cl.snap, amount, date)
<1>1. /\ c \in Procs /\ cl.pc = "update" /\ Finish(c) /\ Save(cl.req, new)
      /\ HasSalary(cl.snap.kind) => amount > cl.snap.base
  BY DEF Procs, UpdateOwn
<1>2. /\ cl.req \in Reqs /\ row[cl.req] \in RowType /\ RowOK(cl.req, row[cl.req])
      /\ cl.snap \in RowType /\ SnapOK(cl.req, cl.snap) /\ cl.snap.idx = 1
  BY <1>1, InFlight DEF CallOK
<1> HIDE DEF cl
<1>3. amount \in Amounts
  BY DEF Amounts
<1>4. /\ new \in RowType /\ new.status = row[cl.req].status
      /\ new.chain = row[cl.req].chain /\ new.stage = row[cl.req].stage
      /\ new.idx = 1
  <2>1. ASSUME NEW q \in RowType, NEW s \in RowType
        PROVE  /\ Edited(q, s, amount, date) \in RowType
               /\ Edited(q, s, amount, date).status = q.status
               /\ Edited(q, s, amount, date).chain = q.chain
               /\ Edited(q, s, amount, date).stage = q.stage
               /\ Edited(q, s, amount, date).idx = s.idx
    BY <1>3, EditedType
  <2> QED BY <1>2, <2>1
<1>5. /\ new.kind = row[cl.req].kind /\ new.base = row[cl.req].base
      /\ new.amount = Col(cl.snap.amount, amount, row[cl.req].amount)
      /\ new.rec = Col(cl.snap.rec, 0, row[cl.req].rec)
  BY <1>2, EditedKeeps
<1>6. Save(cl.req, new)
  BY <1>1
<1> HIDE DEF new
<1>7. Progress(cl.req, new)
  <2>1. Progress(cl.req, row[cl.req])
    BY <1>2 DEF RowOK
  <2>2. CASE Done(cl.req, row[cl.req])
    BY <1>4, <2>2 DEF Progress, Done
  <2>3. CASE ~Done(cl.req, row[cl.req])
    <3>1. PICK j \in DOMAIN new.chain :
             /\ new.stage = new.chain[j]
             /\ \A k \in DOMAIN new.chain :
                   k < j => new.chain[k] \in ApprovedStages(cl.req)
      BY <1>4, <2>1, <2>3 DEF Progress
    <3>2. DOMAIN new.chain \subseteq Nat \ {0}
      BY <1>4 DEF RowType
    <3> QED BY <1>4, <3>1, <3>2 DEF Progress
  <2> QED BY <2>2, <2>3
<1>8. Raise(new)
  BY <1>1, <1>2, <1>5 DEF RowOK, SnapOK, Raise, Col
<1>9. RowOK(cl.req, new)
  BY <1>2, <1>4, <1>7, <1>8 DEF RowOK, Done
<1> QED BY <1>1, <1>2, <1>4, <1>5, <1>6, <1>9, IdleOK, IdleType, SaveStep
        DEF UpdateOwn, Finish

LEMMA ChainImmediateEnds ==
    ASSUME TypeInv, TypeInv', ChainInv, NEW c \in Calls,
           ImmediateTitle(c) \/ ImmediateDone(c)
    PROVE  ChainInv'
<1>1. c \in Procs /\ row' = row /\ acts' = acts /\ due' = due
  BY DEF Procs, ImmediateTitle, ImmediateDone
<1>2. CASE ImmediateTitle(c)
  <2> DEFINE to == [call[c] EXCEPT !.pc = "immLog"]
  <2>1. call[c] \in CallType /\ InScope(call[c]) /\ CallOK(call[c]) /\ call[c].pc = "immTitle"
    BY <1>1, <1>2 DEF ImmediateTitle, TypeInv, TypeOK, CallShape, ChainInv
  <2>2. to \in CallType /\ InScope(to) /\ CallOK(to)
    BY <2>1 DEF CallType, InScope, CallOK, PCs
  <2>3. call' = [call EXCEPT ![c] = to]
    BY <1>2 DEF ImmediateTitle, Goto
  <2> HIDE DEF to
  <2> QED BY <1>1, <2>2, <2>3, MoveStep
<1>3. CASE ImmediateDone(c)
  BY <1>1, <1>3, IdleOK, IdleType, MoveStep DEF ImmediateDone, Finish
<1> QED BY <1>2, <1>3

LEMMA ChainCallStep ==
    ASSUME TypeInv, TypeInv', ChainInv, NEW c \in Calls, CallStep(c)
    PROVE  ChainInv'
BY ChainInsert, ChainOffer, ChainRecheck, ChainLogApproval, ChainSetApprovalTarget,
   ChainFinalizeApproval, ChainClose, ChainDeleteOwn, ChainUpdateOwn, ChainImmediateEnds
   DEF CallStep

LEMMA ChainApplyStep ==
    ASSUME TypeInv, TypeInv', ChainInv, NEW p \in Procs, ApplyStep(p)
    PROVE  ChainInv'
<1> DEFINE cl == call[p]
<1>1. cl.pc \in {"title", "salary", "mark"}
  BY DEF ApplyStep, ApplyTitle, ApplySalary, MarkApplied
<1>2. /\ cl.req \in Reqs /\ row[cl.req] \in RowType /\ RowOK(cl.req, row[cl.req])
      /\ cl.snap \in RowType /\ SnapOK(cl.req, cl.snap) /\ CallOK(cl)
      /\ cl \in CallType /\ InScope(cl)
  BY <1>1, InFlight DEF TypeInv, TypeOK, CallShape
<1>3. Done(cl.req, cl.snap) /\ Done(cl.req, row[cl.req])
  BY <1>1, <1>2 DEF CallOK, SnapOK, Done
<1>4. CASE ApplyTitle(p) \/ ApplySalary(p)
  <2>1. PICK pc \in {"salary", "mark"} :
           /\ call' = [call EXCEPT ![p].pc = pc]
           /\ pc = "salary" => HasSalary(cl.snap.kind)
    BY <1>4 DEF ApplyTitle, ApplySalary, Goto
  <2> DEFINE to == [cl EXCEPT !.pc = pc]
  <2>2. to \in CallType /\ to.pc = pc /\ to.req = cl.req /\ to.snap = cl.snap
    BY <1>2 DEF CallType, PCs
  <2>3. call' = [call EXCEPT ![p] = to]
    BY <2>1
  <2> HIDE DEF to, cl
  <2>4. InScope(to) /\ CallOK(to)
    BY <1>2, <1>3, <2>1, <2>2 DEF InScope, CallOK
  <2>5. row' = row /\ acts' = acts /\ due' = due
    BY <1>4 DEF ApplyTitle, ApplySalary
  <2> QED BY <2>2, <2>3, <2>4, <2>5, MoveStep
<1>5. CASE MarkApplied(p)
  <2> DEFINE new == [row[cl.req] EXCEPT !.status = "APPLIED", !.idx = cl.snap.idx]
  <2>1. /\ new \in RowType /\ new.status = "APPLIED"
        /\ new.chain = row[cl.req].chain /\ new.kind = row[cl.req].kind
        /\ new.base = row[cl.req].base /\ new.amount = row[cl.req].amount
        /\ new.rec = row[cl.req].rec
    BY <1>2 DEF RowType, Statuses, Terminal
  <2>2. Save(cl.req, new) /\ Finish(p) /\ acts' = acts /\ due' = due
    BY <1>5 DEF MarkApplied
  <2> HIDE DEF new, cl
  <2>3. RowOK(cl.req, new)
    BY <1>2, <1>3, <2>1 DEF RowOK, Progress, Done, Raise
  <2> QED BY <1>2, <2>1, <2>2, <2>3, IdleOK, IdleType, SaveStep DEF Finish
<1> QED BY <1>4, <1>5 DEF ApplyStep

LEMMA ChainJob ==
    ASSUME TypeInv, TypeInv', ChainInv, JobScan \/ JobNext
    PROVE  ChainInv'
<1>1. Keeps
  BY DEF JobScan, JobNext, Keeps
<1>2. CASE JobScan
  <2>1. row' = row /\ acts' = acts /\ call' = call
    BY <1>2 DEF JobScan
  <2>2. ASSUME NEW d \in due' PROVE SnapOK(d.req, d.snap) /\ Done(d.req, d.snap)
    <3>1. PICK r \in Reqs : IsDue(r) /\ d = [req |-> r, snap |-> row[r]]
      BY <1>2, <2>2 DEF JobScan
    <3>2. RowOK(r, row[r]) /\ row[r].status = "SCHEDULED"
      BY <3>1 DEF ChainInv, IsDue
    <3> QED BY <3>1, <3>2 DEF RowOK, SnapOK, InForce
  <2>3. ASSUME NEW d \in due' PROVE SnapOK(d.req, d.snap)' /\ Done(d.req, d.snap)'
    <3>1. d.req \in Reqs /\ d.snap \in RowType
      BY <2>3 DEF TypeInv, TypeOK, DueType
    <3> QED BY <1>1, <2>2, <3>1, SnapKept, DoneGrows
  <2>4. ASSUME NEW r \in Reqs PROVE RowOK(r, row[r])'
    BY <1>1, <2>1, RowKept DEF ChainInv, TypeInv, TypeOK
  <2>5. ASSUME NEW p \in Procs PROVE CallOK(call[p])'
    BY <1>1, <2>1, CallKept DEF ChainInv, TypeInv, TypeOK, CallShape
  <2> QED BY <2>3, <2>4, <2>5 DEF ChainInv
<1>3. CASE JobNext
  <2>1. PICK d \in due :
           /\ call' = [call EXCEPT ![Job] =
                         [pc |-> FirstWrite(d.snap.kind), user |-> NoUser,
                          req |-> d.req, snap |-> d.snap]]
           /\ due' = due \ {d}
    BY <1>3 DEF JobNext
  <2> DEFINE to == [pc |-> FirstWrite(d.snap.kind), user |-> NoUser,
                    req |-> d.req, snap |-> d.snap]
  <2>2. d.req \in Reqs /\ d.snap \in RowType /\ SnapOK(d.req, d.snap) /\ Done(d.req, d.snap)
    BY DEF TypeInv, TypeOK, DueType, ChainInv
  <2>3. /\ to.pc \in {"title", "salary"} /\ to.pc \in PCs
        /\ to.pc = "salary" => HasSalary(d.snap.kind)
    BY <2>2 DEF FirstWrite, HasTitle, HasSalary, RowType, Kinds, PCs
  <2>4. to \in CallType /\ InScope(to) /\ CallOK(to)
    BY <2>2, <2>3 DEF CallType, InScope, CallOK
  <2> HIDE DEF to
  <2>5. call' = [call EXCEPT ![Job] = to] /\ due' \subseteq due /\ Job \in Procs
    BY <2>1 DEF to, Procs
  <2> QED BY <1>3, <2>4, <2>5, MoveStep DEF JobNext
<1> QED BY <1>2, <1>3

LEMMA ChainEnvironment ==
    ASSUME TypeInv, TypeInv', ChainInv, NextDay \/ \E p \in Procs : Abort(p)
    PROVE  ChainInv'
<1>1. CASE NextDay
  <2>1. /\ row' = row /\ acts' = acts /\ due' = due
        /\ call' = [call EXCEPT ![Job] = call[Job]]
    BY <1>1 DEF NextDay, TypeInv, TypeOK, Procs
  <2>2. /\ Job \in Procs /\ call[Job] \in CallType /\ InScope(call[Job])
        /\ CallOK(call[Job])
    BY DEF Procs, TypeInv, TypeOK, CallShape, ChainInv
  <2> QED BY <2>1, <2>2, MoveStep
<1>2. ASSUME NEW p \in Procs, Abort(p) PROVE ChainInv'
  <2>1. row' = row /\ acts' = acts /\ due' \subseteq due /\ Finish(p)
    BY <1>2 DEF Abort
  <2> QED BY <2>1, IdleOK, IdleType, MoveStep DEF Finish
<1> QED BY <1>1, <1>2

\* The row that fails is the call's own: it has no chain, and is nobody else's
\* but a row with no chain.
LEMMA ChainImmediateFails ==
    ASSUME TypeInv, TypeInv', ChainInv, NEW c \in Calls, ImmediateFails(c)
    PROVE  ChainInv'
<1> DEFINE cl  == call[c]
           new == [NoRow EXCEPT !.status = "DESTROYED"]
<1>1. c \in Procs /\ cl.pc \in {"immTitle", "immLog"} /\ Finish(c) /\ Save(cl.req, new)
  BY DEF Procs, ImmediateFails
<1>2. cl.req \in Reqs /\ SnapOK(cl.req, cl.snap) /\ cl.snap = NoRow
  BY <1>1, InFlight DEF CallOK
<1> HIDE DEF cl
<1>3. /\ new \in RowType /\ new.status = "DESTROYED" /\ new.kind = NoRow.kind
      /\ new.chain = NoRow.chain /\ new.base = NoRow.base
      /\ NoRow.chain = << >> /\ new.kind = "TITLE"
  BY NoRowType DEF RowType, Statuses, NoRow
<1> HIDE DEF new
<1>4. RowOK(cl.req, new)
  BY <1>3 DEF RowOK, Progress, Done, Raise, HasSalary, InForce
<1>5. acts' = acts /\ due' = due
  BY DEF ImmediateFails
<1> QED BY <1>1, <1>2, <1>3, <1>4, <1>5, IdleOK, IdleType, SaveStep DEF SnapOK, Finish

LEMMA ChainUserCall ==
    ASSUME TypeInv, TypeInv', ChainInv, NEW c \in Calls, NEW u \in Users, UserCall(c, u)
    PROVE  ChainInv'
<1>0. c \in Procs
  BY DEF Procs
<1>1. ASSUME NEW kind \in UsedKinds, NEW amount \in Salaries \cup {0}, NEW date \in Days,
             BeginCreate(c, u, kind, amount, date)
      PROVE  ChainInv'
  <2> DEFINE chain == BuildApprovalChain(u, kind)
             base == IF HasSalary(kind) THEN emp.salary ELSE 0
             snap == [NoRow EXCEPT !.status = "PENDING", !.by = u, !.kind = kind,
                               !.amount = amount, !.date = date, !.base = base,
                               !.stage = chain[1], !.apprUser = UserAt(chain[1]),
                               !.apprRole = RoleAt(chain[1]), !.chain = chain]
             to == [pc |-> "insert", user |-> u, req |-> NoReq, snap |-> snap]
  <2>1. kind \in Kinds
    OBVIOUS
  <2>2. chain \in Seq(Stages) /\ Len(chain) > 0
    BY <1>1, <2>1, ChainType DEF BeginCreate
  <2>3. HasSalary(kind) => amount > base
    BY <1>1 DEF BeginCreate
  <2>4. /\ row' = row /\ acts' = acts /\ due' = due
        /\ call' = [call EXCEPT ![c] = to]
    BY <1>1 DEF BeginCreate, Start
  <2> HIDE DEF chain, base
  <2>5. /\ snap.status = "PENDING" /\ snap.idx = 1 /\ snap.chain = chain
        /\ snap.stage = chain[1] /\ snap.kind = kind /\ snap.amount = amount
        /\ snap.base = base /\ snap.rec = 0
    BY DEF NoRow
  <2>6. call'[c] = to
    BY <1>0, <2>4 DEF TypeInv, TypeOK
  <2>7. to.pc = "insert" /\ to.snap = snap
    OBVIOUS
  <2> HIDE DEF snap, to
  <2>8. to \in CallType /\ InScope(to)
    BY <1>0, <2>6 DEF TypeInv, TypeOK, CallShape
  <2>9. Fresh(snap)
    BY <2>2, <2>3, <2>5 DEF Fresh, Raise
  <2>10. CallOK(to)
    BY <2>7, <2>9 DEF CallOK
  <2> QED BY <1>0, <2>4, <2>8, <2>10, MoveStep
<1>2. ASSUME NEW r \in Reqs, BeginImmediate(c, u, r)
      PROVE  ChainInv'
  <2> DEFINE new == [NoRow EXCEPT !.status = "APPLIED", !.by = u, !.date = today]
             to  == [Idle EXCEPT !.pc = "immTitle", !.user = u, !.req = r]
  <2>1. /\ row[r].status = "ABSENT" /\ row' = [row EXCEPT ![r] = new]
        /\ call' = [call EXCEPT ![c] = to] /\ acts' = acts /\ due' = due
    BY <1>2 DEF BeginImmediate, Save
  <2>2. /\ new.status = "APPLIED" /\ new.chain = NoRow.chain /\ new.kind = NoRow.kind
        /\ new.base = NoRow.base /\ NoRow.chain = << >> /\ NoRow.kind = "TITLE"
    BY DEF NoRow
  <2>3. /\ to.pc = "immTitle" /\ to.req = r /\ to.snap = NoRow
    BY DEF Idle
  <2>4. row'[r] = new /\ call'[c] = to
    BY <1>0, <2>1 DEF TypeInv, TypeOK
  <2>5. /\ \A s \in Reqs \ {r} : row'[s] = row[s]
        /\ \A o \in Procs \ {c} : call'[o] = call[o]
    BY <2>1 DEF TypeInv, TypeOK
  <2> HIDE DEF new, to
  <2>6. Keeps
    BY <2>1, <2>5 DEF Keeps
  <2>7. ASSUME NEW q, q.chain = << >>, q.kind = "TITLE" PROVE RowOK(r, q)'
    BY <2>7 DEF RowOK, Progress, Done, Raise, HasSalary
  <2>8. RowOK(r, row[r])'
    BY <2>2, <2>4, <2>7
  <2>9. SnapOK(r, NoRow)'
    <3>1. RowOK(r, NoRow)'
      BY <2>2, <2>7
    <3> QED BY <2>2, <2>4, <3>1 DEF SnapOK, RowOK
  <2>10. CallOK(call[c])'
    BY <2>3, <2>4, <2>9 DEF CallOK
  <2> QED BY <1>0, <2>1, <2>5, <2>6, <2>8, <2>10, Frame
<1>3. ASSUME NEW r \in Reqs,
             \/ BeginApprove(c, u, r) \/ BeginReject(c, u, r) \/ BeginCancel(c, u, r)
             \/ BeginDelete(c, u, r) \/ BeginCounter(c, u, r) \/ BeginUpdate(c, u, r)
      PROVE  ChainInv'
  <2>1. PICK pc \in {"log", "reject", "cancel", "delete", "offer", "update"} :
           /\ Start(c, u, r, pc, row[r]) /\ Visible(r)
           /\ pc = "update" => row[r].idx = 1
    BY <1>3 DEF BeginApprove, BeginReject, BeginCancel, BeginDelete, BeginCounter,
                BeginUpdate, AwaitingApprovalOf
  <2> DEFINE to == [pc |-> pc, user |-> u, req |-> r, snap |-> row[r]]
  <2>2. /\ row' = row /\ acts' = acts /\ due' = due
        /\ call' = [call EXCEPT ![c] = to]
    BY <2>1 DEF Start
  <2>3. call'[c] = to
    BY <1>0, <2>2 DEF TypeInv, TypeOK
  <2>4. to \in CallType /\ InScope(to)
    BY <1>0, <2>3 DEF TypeInv, TypeOK, CallShape, InScope
  <2>5. SnapOK(r, row[r])
    BY <2>1 DEF SnapOK, Visible, ChainInv, RowOK
  <2>6. CallOK(to)
    BY <2>1, <2>5 DEF CallOK
  <2> HIDE DEF to
  <2> QED BY <1>0, <2>2, <2>4, <2>6, MoveStep
<1> QED
  BY <1>1, <1>2, <1>3 DEF UserCall

LEMMA ChainInit == Init => ChainInv
BY DEF Init, ChainInv, RowOK, Progress, Done, Raise, HasSalary, InForce, NoRow, CallOK, Idle

LEMMA ChainStep == TypeInv /\ TypeInv' /\ ChainInv /\ [Next]_vars => ChainInv'
<1> SUFFICES ASSUME TypeInv, TypeInv', ChainInv, [Next]_vars PROVE ChainInv'
  OBVIOUS
<1>1. CASE UNCHANGED vars
  <2>1. /\ row' = row /\ acts' = acts /\ due' = due
        /\ call' = [call EXCEPT ![Job] = call[Job]]
    BY <1>1 DEF vars, TypeInv, TypeOK, Procs
  <2>2. /\ Job \in Procs /\ call[Job] \in CallType /\ InScope(call[Job])
        /\ CallOK(call[Job])
    BY DEF Procs, TypeInv, TypeOK, CallShape, ChainInv
  <2> QED BY <2>1, <2>2, MoveStep
<1>2. CASE Next
  BY <1>2, ChainUserCall, ChainCallStep, ChainApplyStep, ChainJob, ChainImmediateFails,
     ChainEnvironment DEF Next, JobStep, Procs
<1> QED BY <1>1, <1>2

LEMMA ChainImplies == TypeInv /\ ChainInv => NoStageSkipped
BY DEF TypeInv, ChainInv, RowOK, NoStageSkipped, FullyApproved, Done

\* No handler, in any interleaving, puts a request in force before every stage
\* of its chain has approved it.
THEOREM NoStageSkippedHolds == Spec => []NoStageSkipped
<1> QED BY TypeInit, TypeStep, ChainInit, ChainStep, ChainImplies, PTL DEF Spec

LEMMA SalaryWrite ==
    ASSUME TypeInv, ChainInv, NEW p \in Procs, ApplySalary(p)
    PROVE  /\ call[p].pc = "salary" /\ FullyApproved(call[p].req)
           /\ emp'.salary > call[p].snap.base
<1> DEFINE cl == call[p]
<1>1. cl.pc = "salary" /\ emp'.salary = FinalSalary(cl.snap)
  BY DEF ApplySalary, TypeInv, TypeOK
<1>2. /\ cl.req \in Reqs /\ SnapOK(cl.req, cl.snap) /\ CallOK(cl)
      /\ cl.snap \in RowType
  BY <1>1, InFlight
<1> HIDE DEF cl
<1>3. FullyApproved(cl.req)
  BY <1>1, <1>2 DEF CallOK, SnapOK, FullyApproved, Done
<1>4. FinalSalary(cl.snap) > cl.snap.base
  BY <1>1, <1>2 DEF CallOK, SnapOK, Raise, FinalSalary
<1> QED BY <1>1, <1>3, <1>4 DEF cl

LEMMA SalaryFrame ==
    ASSUME TypeInv, [Next]_vars, emp'.salary # emp.salary
    PROVE  \E p \in Procs : ApplySalary(p)
<1>1. ASSUME emp' = emp PROVE FALSE
  BY <1>1
<1>2. ASSUME NEW r \in Reqs, emp' = [emp EXCEPT !.title = r] PROVE FALSE
  BY <1>2 DEF TypeInv, TypeOK
<1>3. ASSUME NEW p \in Procs, ApplyTitle(p) PROVE FALSE
  <2>1. call[p].req \in Reqs
    BY <1>3 DEF ApplyTitle, TypeInv, CallShape, InScope
  <2> QED BY <1>2, <1>3, <2>1 DEF ApplyTitle
<1>4. ASSUME NEW c \in Calls, ImmediateTitle(c) PROVE FALSE
  <2>1. call[c].req \in Reqs
    BY <1>4 DEF ImmediateTitle, TypeInv, CallShape, InScope, Procs
  <2> QED BY <1>2, <1>4, <2>1 DEF ImmediateTitle
<1>5. ASSUME NEW c \in Calls, NEW u \in Users, UserCall(c, u) PROVE FALSE
  BY <1>1, <1>5 DEF UserCall, BeginCreate, BeginApprove, BeginReject, BeginCancel,
     BeginDelete, BeginImmediate, BeginCounter, BeginUpdate, Start
<1>6. ASSUME NEW c \in Calls, CallStep(c) PROVE FALSE
  BY <1>1, <1>4, <1>6 DEF CallStep, Insert, Offer, Recheck, LogApproval,
     SetApprovalTarget, FinalizeApproval, Reject, Cancel, Close, DeleteOwn, UpdateOwn,
     ImmediateDone
<1>7. ASSUME NEW c \in Calls, ImmediateFails(c) PROVE FALSE
  BY <1>1, <1>7 DEF ImmediateFails
<1>8. JobScan \/ JobNext \/ NextDay \/ (\E p \in Procs : Abort(p)) \/ UNCHANGED vars => FALSE
  BY <1>1 DEF JobScan, JobNext, NextDay, Abort, vars
<1>9. ASSUME NEW p \in Procs, ApplyStep(p) PROVE ApplySalary(p)
  BY <1>1, <1>3, <1>9 DEF ApplyStep, MarkApplied
<1> QED BY <1>5, <1>6, <1>7, <1>8, <1>9 DEF Next, JobStep, Procs

\* The base salary is only ever written by a handler applying a request whose
\* chain has fully approved it, and only upwards from the salary it was
\* submitted against, in every behaviour.
THEOREM SalaryOnlyWithApprovalHolds == Spec => SalaryOnlyWithApproval
<1> DEFINE A == emp'.salary # emp.salary =>
          \E p \in Procs : /\ call[p].pc = "salary"
                           /\ FullyApproved(call[p].req)
                           /\ emp'.salary > call[p].snap.base
<1>1. TypeInv /\ ChainInv /\ [Next]_vars => [A]_vars
  BY SalaryWrite, SalaryFrame
<1> QED BY <1>1, TypeInit, TypeStep, ChainInit, ChainStep, PTL
        DEF Spec, SalaryOnlyWithApproval

-----------------------------------------------------------------------------
(* The right person approves.  Each of the stage, user and role columns is *)
(* written only where it differs from the writer's snapshot.  They stay in *)
(* step because the manager's stage is the only one with a user id, it is  *)
(* the first of the chain, and no handler goes back to it: so a decision   *)
(* that was not the manager's never meets a row that is.                   *)

\* A chain names only stages that somebody other than the requester can sign,
\* and the manager only first.
StaffedFor(s, u) ==
    \A k \in DOMAIN s :
        IF s[k] = "MANAGER"
        THEN k = 1 /\ Manager \notin {NoUser, u}
        ELSE RoleAt(s[k]) \notin RolesOf[u] /\ UsersWith(RoleAt(s[k])) # {}

Staffed(q) == StaffedFor(q.chain, q.by)

\* The stage, user and role columns speak of one and the same stage of the chain.
Coherent(q) ==
    /\ \E k \in DOMAIN q.chain : q.stage = q.chain[k]
    /\ q.apprUser = UserAt(q.stage)
    /\ q.apprRole = RoleAt(q.stage)

Seated(q) ==
    /\ Staffed(q)
    /\ q.idx >= 1
    /\ q.status = "PENDING" => Coherent(q)

\* The approver a snapshot names is still not the manager once it was not.
CallSeated(cl) ==
    /\ Seated(cl.snap)
    /\ cl.pc \in {"insert", "log", "move"} => cl.snap.status = "PENDING"
    /\ cl.pc \in {"log", "move"} =>
          /\ CanActAsCurrentApprover(cl.user, cl.snap)
          /\ cl.snap.by = row[cl.req].by
          /\ cl.snap.stage # "MANAGER" => row[cl.req].stage # "MANAGER"

\* An approval on record, read against its row.
Authorised(sig) ==
    /\ row[sig.req].status # "ABSENT"
    /\ sig.actor # row[sig.req].by
    /\ IF sig.stage = "MANAGER" THEN sig.actor = Manager
       ELSE RoleAt(sig.stage) \in RolesOf[sig.actor]

RosterInv ==
    /\ \A r \in Reqs : Seated(row[r])
    /\ \A p \in Procs : CallSeated(call[p])
    /\ \A d \in due : Seated(d.snap)
    /\ \A sig \in acts : Authorised(sig)

\* The chain a request is submitted with is such a chain: a stage is skipped
\* when the requester has its authority, or when nobody has.
LEMMA RoleStageStaffed ==
    ASSUME NEW u \in Users, NEW stage \in Stages \ {"MANAGER"}, NEW authority,
           RoleAt(stage) \in authority
    PROVE  LET s == RoleStage(stage, u, authority)
           IN  /\ s \in Seq(Stages)
               /\ StaffedFor(s, u)
               /\ \A k \in DOMAIN s : s[k] # "MANAGER"
<1>1. RoleStage(stage, u, authority) \in Seq(Stages)
  BY RoleStageType
<1>2. CASE RolesOf[u] \cap authority = {} /\ UsersWith(RoleAt(stage)) # {}
  BY <1>1, <1>2 DEF RoleStage, StaffedFor
<1>3. CASE ~(RolesOf[u] \cap authority = {} /\ UsersWith(RoleAt(stage)) # {})
  <2>1. RoleStage(stage, u, authority) = << >>
    BY <1>3 DEF RoleStage
  <2> QED BY <1>1, <2>1 DEF StaffedFor
<1> QED BY <1>2, <1>3

LEMMA ConcatStaffed ==
    ASSUME NEW u \in Users, NEW s \in Seq(Stages), NEW t \in Seq(Stages),
           StaffedFor(s, u), StaffedFor(t, u), \A k \in DOMAIN t : t[k] # "MANAGER"
    PROVE  s \o t \in Seq(Stages) /\ StaffedFor(s \o t, u)
<1>1. s \o t \in Seq(Stages) /\ Len(s \o t) = Len(s) + Len(t)
  BY ConcatProperties
<1>2. ASSUME NEW k \in DOMAIN (s \o t)
      PROVE  \/ k \in DOMAIN s /\ (s \o t)[k] = s[k]
             \/ k - Len(s) \in DOMAIN t /\ (s \o t)[k] = t[k - Len(s)]
  BY <1>1, <1>2, ConcatProperties
<1>3. ASSUME NEW k \in DOMAIN (s \o t)
      PROVE  IF (s \o t)[k] = "MANAGER"
             THEN k = 1 /\ Manager \notin {NoUser, u}
             ELSE /\ RoleAt((s \o t)[k]) \notin RolesOf[u]
                  /\ UsersWith(RoleAt((s \o t)[k])) # {}
  <2>1. CASE k \in DOMAIN s /\ (s \o t)[k] = s[k]
    BY <2>1 DEF StaffedFor
  <2>2. CASE k - Len(s) \in DOMAIN t /\ (s \o t)[k] = t[k - Len(s)]
    BY <2>2 DEF StaffedFor
  <2> QED BY <1>2, <1>3, <2>1, <2>2
<1> QED BY <1>1, <1>3 DEF StaffedFor

LEMMA ChainStaffed ==
    ASSUME NEW u \in Users, NEW kind \in Kinds
    PROVE  StaffedFor(BuildApprovalChain(u, kind), u)
<1> DEFINE A == IF Manager \notin {NoUser, u} THEN <<"MANAGER">> ELSE << >>
           B == RoleStage("HR", u, {"HR_MANAGER", "BUSINESS_ADMIN"})
           F == RoleStage("FINANCE", u, {"FINANCE_MANAGER", "BUSINESS_ADMIN"})
           C == IF HasSalary(kind) THEN F ELSE << >>
           D == RoleStage("ADMIN", u, {"BUSINESS_ADMIN"})
<1> DEFINE Good(s) == /\ s \in Seq(Stages) /\ StaffedFor(s, u)
                      /\ \A k \in DOMAIN s : s[k] # "MANAGER"
<1>1. A \in Seq(Stages) /\ StaffedFor(A, u)
  <2>1. CASE Manager \notin {NoUser, u}
    BY <2>1, Singleton DEF Stages, StaffedFor
  <2>2. CASE Manager \in {NoUser, u}
    BY <2>2, EmptySeq DEF StaffedFor
  <2> QED BY <2>1, <2>2
<1>2. Good(B) /\ Good(F) /\ Good(D)
  BY RoleStageStaffed DEF Stages, RoleAt
<1>3. Good(<< >>)
  BY EmptySeq DEF StaffedFor
<1>4. BuildApprovalChain(u, kind) = ((A \o B) \o C) \o D
  BY DEF BuildApprovalChain
<1>5. Good(C)
  BY <1>2, <1>3
<1> HIDE DEF A, B, C, D
<1>6. A \o B \in Seq(Stages) /\ StaffedFor(A \o B, u)
  BY <1>1, <1>2, ConcatStaffed
<1>7. (A \o B) \o C \in Seq(Stages) /\ StaffedFor((A \o B) \o C, u)
  BY <1>5, <1>6, ConcatStaffed
<1>8. StaffedFor(((A \o B) \o C) \o D, u)
  BY <1>2, <1>7, ConcatStaffed
<1> QED BY <1>4, <1>8

\* What a step must leave of a request that somebody may be deciding on.
SeatsKept ==
    \A r \in Reqs : row[r].status # "ABSENT" =>
        /\ row'[r].status # "ABSENT"
        /\ row[r].stage # "MANAGER" => row'[r].stage # "MANAGER"
        /\ row[r].chain # << >> => row'[r].by = row[r].by
        /\ row'[r].by \in {row[r].by, NoUser}

LEMMA RolesDiffer ==
    ASSUME NEW s \in Stages, NEW t \in Stages, RoleAt(s) = RoleAt(t)
    PROVE  s = t
BY DEF Stages, RoleAt, NoRole

\* A decision in flight keeps its approver whatever the step does to its row.
LEMMA CallSeatKept ==
    ASSUME TypeInv, ChainInv, RosterInv, SeatsKept, NEW p \in Procs
    PROVE  CallSeated(call[p])'  \/ call'[p] # call[p]
<1> SUFFICES ASSUME call'[p] = call[p] PROVE CallSeated(call[p])'
  OBVIOUS
<1> DEFINE cl == call[p]
<1>1. CallSeated(cl) /\ CallOK(cl) /\ cl \in CallType /\ InScope(cl)
  BY DEF RosterInv, ChainInv, TypeInv, TypeOK, CallShape
<1>2. CASE cl.pc \notin {"log", "move"}
  BY <1>1, <1>2 DEF CallSeated, Seated, Staffed, StaffedFor, Coherent
<1>3. CASE cl.pc \in {"log", "move"}
  <2>1. cl.req \in Reqs /\ SnapOK(cl.req, cl.snap) /\ Coherent(cl.snap)
    BY <1>1, <1>3 DEF InScope, CallOK, CallSeated, Seated
  <2>2. row[cl.req].status # "ABSENT" /\ row[cl.req].chain # << >>
    BY <2>1 DEF SnapOK, Coherent
  <2>3. /\ row'[cl.req].by = row[cl.req].by
        /\ row[cl.req].stage # "MANAGER" => row'[cl.req].stage # "MANAGER"
    BY <2>1, <2>2 DEF SeatsKept
  <2>4. /\ Seated(cl.snap)' = Seated(cl.snap)
        /\ CanActAsCurrentApprover(cl.user, cl.snap)' = CanActAsCurrentApprover(cl.user, cl.snap)
    BY DEF Seated, Staffed, StaffedFor, Coherent,
       CanActAsCurrentApprover
  <2> QED BY <1>1, <1>3, <2>3, <2>4 DEF CallSeated
<1> QED BY <1>2, <1>3

\* An approval on record stays one by the right person.
LEMMA AuthorisedKept ==
    ASSUME TypeInv, RosterInv, SeatsKept, NEW sig \in acts
    PROVE  Authorised(sig)'
<1>1. sig.req \in Reqs /\ sig.actor \in Users /\ Authorised(sig)
  BY DEF TypeInv, TypeOK, ActType, RosterInv
<1>2. /\ row'[sig.req].status # "ABSENT"
      /\ row'[sig.req].by \in {row[sig.req].by, NoUser}
  BY <1>1 DEF SeatsKept, Authorised
<1> QED BY <1>1, <1>2 DEF Authorised

LEMMA SeatFrame ==
    ASSUME TypeInv, TypeInv', ChainInv, RosterInv, SeatsKept, acts' = acts,
           \A d \in due' : Seated(d.snap),
           NEW p \in Procs, CallSeated(call[p])',
           \A o \in Procs \ {p} : call'[o] = call[o],
           NEW r \in Reqs \cup {NoReq}, r \in Reqs => Seated(row'[r]),
           \A s \in Reqs \ {r} : row'[s] = row[s]
    PROVE  RosterInv'
<1>1. ASSUME NEW s \in Reqs PROVE Seated(row[s])'
  BY <1>1 DEF RosterInv, Seated, Staffed, StaffedFor, Coherent
<1>2. ASSUME NEW o \in Procs PROVE CallSeated(call[o])'
  BY <1>2, CallSeatKept
<1>3. ASSUME NEW d \in due' PROVE Seated(d.snap)'
  BY <1>3 DEF Seated, Staffed, StaffedFor, Coherent
<1>4. ASSUME NEW sig \in acts' PROVE Authorised(sig)'
  BY <1>4, AuthorisedKept
<1> QED BY <1>1, <1>2, <1>3, <1>4 DEF RosterInv

LEMMA IdleSeated ==
    /\ Seated(NoRow)
    /\ CallSeated(Idle) /\ Idle.snap = NoRow /\ Idle.pc = "idle"
<1>1. Seated(NoRow)
  BY DEF Seated, Staffed, StaffedFor, NoRow
<1> QED BY <1>1 DEF CallSeated, Idle

\* Away from the decision itself a call only carries its snapshot along.
Carries(cl) == Seated(cl.snap) /\ cl.pc \notin {"insert", "log", "move"}

LEMMA CarriesSeated ==
    ASSUME NEW cl, Carries(cl)
    PROVE  CallSeated(cl) /\ CallSeated(cl)'
BY DEF Carries, CallSeated, Seated, Staffed, StaffedFor, Coherent

\* A step that saves one row and takes one call on, past its decision.
LEMMA SeatSave ==
    ASSUME TypeInv, TypeInv', ChainInv, RosterInv, acts' = acts, due' \subseteq due,
           NEW r \in Reqs, NEW new, Save(r, new), Seated(new),
           row[r].status # "ABSENT" =>
              /\ new.status # "ABSENT"
              /\ row[r].stage # "MANAGER" => new.stage # "MANAGER"
              /\ row[r].chain # << >> => new.by = row[r].by
              /\ new.by \in {row[r].by, NoUser},
           NEW p \in Procs, NEW cl, Carries(cl), call' = [call EXCEPT ![p] = cl]
    PROVE  RosterInv'
<1>1. row'[r] = new /\ \A s \in Reqs \ {r} : row'[s] = row[s]
  BY DEF Save, TypeInv, TypeOK
<1>2. SeatsKept
  BY <1>1 DEF SeatsKept
<1>3. call'[p] = cl /\ \A o \in Procs \ {p} : call'[o] = call[o]
  BY DEF TypeInv, TypeOK
<1>4. CallSeated(call[p])'
  BY <1>3, CarriesSeated
<1>5. \A d \in due' : Seated(d.snap)
  BY DEF RosterInv
<1> QED BY <1>1, <1>2, <1>3, <1>4, <1>5, SeatFrame

\* A step that touches no row and takes one call on.
LEMMA SeatMove ==
    ASSUME TypeInv, TypeInv', ChainInv, RosterInv, row' = row, acts' = acts,
           \A d \in due' : Seated(d.snap),
           NEW p \in Procs, NEW cl, CallSeated(cl), call' = [call EXCEPT ![p] = cl]
    PROVE  RosterInv'
<1>1. SeatsKept
  BY DEF SeatsKept
<1>2. call'[p] = cl /\ \A o \in Procs \ {p} : call'[o] = call[o]
  BY DEF TypeInv, TypeOK
<1>3. CallSeated(call[p])'
  BY <1>2 DEF CallSeated, Seated, Staffed, StaffedFor, Coherent,
       CanActAsCurrentApprover
<1>4. NoReq \notin Reqs
  OBVIOUS
<1> QED BY <1>1, <1>2, <1>3, <1>4, SeatFrame

\* What a handler past its first read knows of the seats of its request.
LEMMA SeatInFlight ==
    ASSUME TypeInv, RosterInv, NEW p \in Procs
    PROVE  /\ CallSeated(call[p]) /\ Seated(call[p].snap)
           /\ call[p].pc \notin {"idle", "insert"} => Seated(row[call[p].req])
BY DEF TypeInv, CallShape, InScope, RosterInv, CallSeated

LEMMA SeatInsert ==
    ASSUME TypeInv, TypeInv', ChainInv, RosterInv, NEW c \in Calls, NEW r \in Reqs,
           Insert(c, r)
    PROVE  RosterInv'
<1>1. c \in Procs /\ Seated(call[c].snap)
  BY SeatInFlight DEF Procs
<1>2. Carries(Idle)
  BY IdleSeated DEF Carries
<1> QED BY <1>1, <1>2, SeatSave DEF Insert, Finish

LEMMA SeatOffer ==
    ASSUME TypeInv, TypeInv', ChainInv, RosterInv, NEW c \in Calls,
           NEW amount \in Salaries, Offer(c, amount)
    PROVE  RosterInv'
<1> DEFINE cl == call[c]
<1>1. c \in Procs /\ cl.pc = "offer" /\ cl \in CallType /\ acts' = acts /\ due' = due
  BY DEF Procs, Offer, TypeInv, TypeOK
<1>2. /\ cl.req \in Reqs /\ row[cl.req] \in RowType /\ Seated(row[cl.req])
      /\ Seated(cl.snap)
  BY <1>1, InFlight, SeatInFlight
<1>3. CASE Visible(cl.req)
  <2> DEFINE new == [row[cl.req] EXCEPT !.rec = amount]
             to  == [cl EXCEPT !.pc = "recheck"]
  <2>1. Save(cl.req, new) /\ call' = [call EXCEPT ![c] = to]
    BY <1>3 DEF Offer, Goto
  <2>2. /\ new.status = row[cl.req].status /\ new.chain = row[cl.req].chain
        /\ new.by = row[cl.req].by /\ new.stage = row[cl.req].stage
        /\ new.apprUser = row[cl.req].apprUser /\ new.apprRole = row[cl.req].apprRole
        /\ new.idx = row[cl.req].idx
    BY <1>2 DEF RowType
  <2>3. Carries(to)
    BY <1>1, <1>2 DEF Carries, CallType
  <2> HIDE DEF new, to, cl
  <2>4. Seated(new)
    BY <1>2, <2>2 DEF Seated, Staffed, StaffedFor, Coherent
  <2> QED BY <1>1, <1>2, <2>1, <2>2, <2>3, <2>4, SeatSave
<1>4. CASE ~Visible(cl.req)
  BY <1>1, <1>4, IdleSeated, SeatMove DEF Offer, Finish, RosterInv
<1> QED BY <1>3, <1>4

LEMMA SeatRecheck ==
    ASSUME TypeInv, TypeInv', ChainInv, RosterInv, NEW c \in Calls, Recheck(c)
    PROVE  RosterInv'
<1> DEFINE cl == call[c]
<1>1. /\ c \in Procs /\ cl.pc = "recheck" /\ cl \in CallType
      /\ row' = row /\ acts' = acts /\ due' = due
  BY DEF Procs, Recheck, TypeInv, TypeOK
<1>2. Seated(row[cl.req]) /\ \A d \in due' : Seated(d.snap)
  BY <1>1, SeatInFlight DEF RosterInv
<1>3. CASE AwaitingApprovalOf(cl.user, cl.req)
  <2> DEFINE to == [cl EXCEPT !.pc = "log", !.snap = row[cl.req]]
  <2>1. call' = [call EXCEPT ![c] = to]
    BY <1>3 DEF Recheck
  <2>2. to.pc = "log" /\ to.snap = row[cl.req] /\ to.req = cl.req /\ to.user = cl.user
    BY <1>1 DEF CallType
  <2> HIDE DEF to, cl
  <2>3. CallSeated(to)
    BY <1>2, <1>3, <2>2 DEF CallSeated, AwaitingApprovalOf
  <2> QED BY <1>1, <1>2, <2>1, <2>3, SeatMove
<1>4. CASE ~AwaitingApprovalOf(cl.user, cl.req)
  BY <1>1, <1>2, <1>4, IdleSeated, SeatMove DEF Recheck, Finish
<1> QED BY <1>3, <1>4

\* Who may act on a coherent snapshot is the person its stage belongs to, and
\* never the requester.
LEMMA RightPerson ==
    ASSUME NEW u \in Users, NEW q \in RowType, Staffed(q), Coherent(q),
           CanActAsCurrentApprover(u, q)
    PROVE  /\ u # q.by
           /\ IF q.stage = "MANAGER" THEN u = Manager
              ELSE RoleAt(q.stage) \in RolesOf[u]
<1>1. PICK k \in DOMAIN q.chain : q.stage = q.chain[k]
  BY DEF Coherent
<1>2. q.stage \in Stages
  BY <1>1 DEF RowType
<1>3. CASE q.stage = "MANAGER"
  BY <1>1, <1>3 DEF Staffed, StaffedFor, Coherent, CanActAsCurrentApprover, UserAt
<1>4. CASE q.stage # "MANAGER"
  <2>1. RoleAt(q.stage) \in RolesOf[u]
    BY <1>4 DEF Coherent, CanActAsCurrentApprover, UserAt
  <2>2. RoleAt(q.stage) \notin RolesOf[q.by]
    BY <1>1, <1>4 DEF Staffed, StaffedFor
  <2> QED BY <1>4, <2>1, <2>2
<1> QED BY <1>3, <1>4

LEMMA SeatLogApproval ==
    ASSUME TypeInv, TypeInv', ChainInv, RosterInv, NEW c \in Calls, LogApproval(c)
    PROVE  RosterInv'
<1> DEFINE cl  == call[c]
           sig == [req |-> cl.req, stage |-> cl.snap.stage, actor |-> cl.user]
           to  == [cl EXCEPT !.pc = "move"]
<1>1. /\ c \in Procs /\ cl.pc = "log" /\ cl \in CallType /\ cl.user \in Users
      /\ cl.req \in Reqs /\ cl.snap \in RowType
  BY DEF Procs, LogApproval, TypeInv, TypeOK, CallShape, InScope, CallType
<1>2. row' = row /\ due' = due /\ acts' = acts \cup {sig} /\ call' = [call EXCEPT ![c] = to]
  BY DEF LogApproval, Goto
<1>3. /\ CallSeated(cl) /\ Seated(cl.snap) /\ Coherent(cl.snap)
      /\ CanActAsCurrentApprover(cl.user, cl.snap) /\ cl.snap.by = row[cl.req].by
  BY <1>1, SeatInFlight DEF CallSeated, Seated
<1>4. row[cl.req].status # "ABSENT"
  BY <1>1, InFlight DEF SnapOK
<1>5. /\ to.pc = "move" /\ to.req = cl.req /\ to.user = cl.user /\ to.snap = cl.snap
  BY <1>1 DEF CallType
<1>6. sig.req = cl.req /\ sig.stage = cl.snap.stage /\ sig.actor = cl.user
  OBVIOUS
<1> HIDE DEF cl, sig, to
<1>7. Authorised(sig)
  BY <1>1, <1>3, <1>4, <1>6, RightPerson DEF Authorised, Seated
<1>8. CallSeated(to)
  BY <1>1, <1>3, <1>5 DEF CallSeated
<1>9. call'[c] = to /\ \A o \in Procs \ {c} : call'[o] = call[o]
  BY <1>1, <1>2 DEF TypeInv, TypeOK
<1>10. SeatsKept
  BY <1>2 DEF SeatsKept
<1>11. \A o \in Procs : CallSeated(call[o])'
  <2>1. CallSeated(call[c])'
    BY <1>2, <1>8, <1>9 DEF CallSeated, Seated, Staffed, StaffedFor, Coherent,
       CanActAsCurrentApprover
  <2>2. ASSUME NEW o \in Procs \ {c} PROVE CallSeated(call[o])'
    BY <1>9, <1>10, CallSeatKept
  <2> QED BY <2>1, <2>2
<1>12. \A s \in acts' : Authorised(s)'
  <2>1. \A s \in acts' : Authorised(s)
    BY <1>2, <1>7 DEF RosterInv
  <2> QED BY <1>2, <2>1 DEF Authorised
<1> QED BY <1>2, <1>11, <1>12 DEF RosterInv, Seated, Staffed, StaffedFor, Coherent

\* Moving a request on from a coherent snapshot leaves its three approver
\* columns in step, although each is written only where it differs from the
\* snapshot and the row may be at another stage by now.
LEMMA RetargetSeated ==
    ASSUME NEW req \in RowType, NEW snap \in RowType, Seated(req), Seated(snap),
           Coherent(snap), req.chain = snap.chain, req.by = snap.by,
           snap.idx < Len(snap.chain),
           snap.stage # "MANAGER" => req.stage # "MANAGER"
    PROVE  /\ Seated(Retarget(req, snap))
           /\ req.stage # "MANAGER" => Retarget(req, snap).stage # "MANAGER"
<1> DEFINE new  == Retarget(req, snap)
           i    == snap.idx + 1
           next == snap.chain[i]
<1>1. /\ new.status = req.status /\ new.chain = req.chain /\ new.by = req.by
      /\ new.idx = i /\ new.stage = Col(snap.stage, next, req.stage)
      /\ i \in DOMAIN snap.chain /\ i \in Nat /\ i >= 2
  BY RetargetType DEF RowType, Seated
<1>2. /\ new.apprUser = Col(snap.apprUser, UserAt(next), req.apprUser)
      /\ new.apprRole = Col(snap.apprRole, RoleAt(next), req.apprRole)
  BY DEF Retarget, RowType
<1>3. next \in Stages /\ snap.stage \in Stages
  BY <1>1 DEF RowType, Coherent
<1>4. /\ next # "MANAGER" /\ UserAt(next) = NoUser
      /\ snap.stage = "MANAGER" => snap.apprUser # NoUser
  <2>1. next # "MANAGER"
    BY <1>1 DEF Seated, Staffed, StaffedFor
  <2>2. snap.stage = "MANAGER" => Manager # NoUser
    BY DEF Seated, Staffed, StaffedFor, Coherent
  <2> QED BY <2>1, <2>2 DEF UserAt, Coherent
<1> HIDE DEF new, i
<1>5. Staffed(new) /\ new.idx >= 1
  BY <1>1 DEF Staffed, StaffedFor, Seated
<1>6. ASSUME req.status = "PENDING" PROVE Coherent(new)
  <2>1. Coherent(req)
    BY <1>6 DEF Seated
  <2>2. CASE next = snap.stage
    <3>1. /\ new.stage = req.stage /\ new.apprUser = req.apprUser
          /\ new.apprRole = req.apprRole
      BY <1>1, <1>2, <2>2 DEF Col, Coherent
    <3> QED BY <1>1, <2>1, <3>1 DEF Coherent
  <2>3. CASE next # snap.stage
    <3>1. new.stage = next
      BY <1>1, <2>3 DEF Col
    <3>2. new.apprRole = RoleAt(next)
      <4>1. RoleAt(next) # snap.apprRole
        BY <1>3, <2>3, RolesDiffer DEF Coherent
      <4> QED BY <1>2, <4>1 DEF Col
    <3>3. new.apprUser = NoUser
      <4>1. CASE snap.apprUser = NoUser
        <5>1. req.stage # "MANAGER"
          BY <1>4, <4>1
        <5>2. req.apprUser = NoUser
          BY <2>1, <5>1 DEF Coherent, UserAt
        <5> QED BY <1>2, <1>4, <5>2 DEF Col
      <4>2. CASE snap.apprUser # NoUser
        BY <1>2, <1>4, <4>2 DEF Col
      <4> QED BY <4>1, <4>2
    <3> QED BY <1>1, <1>4, <3>1, <3>2, <3>3 DEF Coherent
  <2> QED BY <2>2, <2>3
<1>7. req.stage # "MANAGER" => new.stage # "MANAGER"
  BY <1>1, <1>4 DEF Col
<1> QED BY <1>1, <1>5, <1>6, <1>7 DEF Seated, new

LEMMA SeatSetApprovalTarget ==
    ASSUME TypeInv, TypeInv', ChainInv, RosterInv, NEW c \in Calls, SetApprovalTarget(c)
    PROVE  RosterInv'
<1> DEFINE cl  == call[c]
           req == row[cl.req]
           new == Retarget(req, cl.snap)
<1>1. /\ c \in Procs /\ cl.pc = "move" /\ cl.snap.idx < Len(cl.snap.chain)
      /\ Save(cl.req, new) /\ Finish(c) /\ acts' = acts /\ due' = due
  BY DEF Procs, SetApprovalTarget
<1>2. /\ cl.req \in Reqs /\ req \in RowType /\ cl.snap \in RowType
      /\ req.chain = cl.snap.chain
  BY <1>1, InFlight DEF SnapOK
<1>3. /\ Seated(req) /\ Seated(cl.snap) /\ Coherent(cl.snap) /\ req.by = cl.snap.by
      /\ cl.snap.stage # "MANAGER" => req.stage # "MANAGER"
  BY <1>1, SeatInFlight DEF CallSeated, Seated
<1> HIDE DEF cl
<1>4. /\ Seated(new)
      /\ req.stage # "MANAGER" => new.stage # "MANAGER"
  BY <1>1, <1>2, <1>3, RetargetSeated
<1>5. new.status = req.status /\ new.by = req.by
  BY <1>1, <1>2, RetargetType
<1>6. Carries(Idle)
  BY IdleSeated DEF Carries
<1> HIDE DEF new, req
<1>7. Save(cl.req, new)
  BY <1>1
<1> QED BY <1>1, <1>2, <1>4, <1>5, <1>6, <1>7, SeatSave DEF Finish, req

\* A request that leaves PENDING keeps its chain and its place.
LEMMA SettledSeated ==
    ASSUME NEW req \in RowType, NEW snap \in RowType, Seated(req),
           NEW status \in Statuses, NEW stage \in Stages \cup {Completed},
           status # "PENDING"
    PROVE  Seated(Settled(req, snap, status, stage))
<1> DEFINE new == Settled(req, snap, status, stage)
<1>1. /\ new.status = status /\ new.chain = req.chain /\ new.by = req.by
      /\ new.idx = req.idx
  BY SettledType
<1> HIDE DEF new
<1>2. Seated(new)
  BY <1>1 DEF Seated, Staffed, StaffedFor
<1> QED BY <1>2 DEF new

LEMMA SeatFinalizeApproval ==
    ASSUME TypeInv, TypeInv', ChainInv, RosterInv, NEW c \in Calls, FinalizeApproval(c)
    PROVE  RosterInv'
<1> DEFINE cl == call[c]
           to == [cl EXCEPT !.pc = FirstWrite(cl.snap.kind)]
<1>1. /\ c \in Procs /\ cl.pc = "move" /\ cl \in CallType /\ acts' = acts /\ due' = due
  BY DEF Procs, FinalizeApproval, TypeInv, TypeOK
<1>2. /\ cl.req \in Reqs /\ row[cl.req] \in RowType /\ cl.snap \in RowType
      /\ Seated(row[cl.req]) /\ Seated(cl.snap)
  BY <1>1, InFlight, SeatInFlight
<1>3. PICK status \in {"SCHEDULED", "APPROVED"} :
         /\ Save(cl.req, Settled(row[cl.req], cl.snap, status, Completed))
         /\ \/ Finish(c)
            \/ call' = [call EXCEPT ![c] = to]
  BY DEF FinalizeApproval, Goto
<1>4. Carries(to)
  BY <1>1, <1>2 DEF Carries, CallType, FirstWrite
<1>5. PICK next : Carries(next) /\ call' = [call EXCEPT ![c] = next]
  BY <1>3, <1>4, IdleSeated DEF Finish, Carries
<1> DEFINE new == Settled(row[cl.req], cl.snap, status, Completed)
<1> HIDE DEF cl
<1>6. status \in Statuses /\ status # "PENDING" /\ status # "ABSENT"
  BY DEF Statuses, Open
<1>7. Seated(new)
  BY <1>2, <1>6, SettledSeated
<1>8. new.by = row[cl.req].by /\ new.status = status /\ new.stage = Completed
  BY <1>2, <1>6, SettledType
<1>9. Completed # "MANAGER"
  BY DEF Completed
<1> HIDE DEF new
<1>10. Save(cl.req, new)
  BY <1>3 DEF new
<1> QED BY <1>1, <1>2, <1>5, <1>6, <1>7, <1>8, <1>9, <1>10, SeatSave

LEMMA SeatClose ==
    ASSUME TypeInv, TypeInv', ChainInv, RosterInv, NEW c \in Calls, Reject(c) \/ Cancel(c)
    PROVE  RosterInv'
<1> DEFINE cl  == call[c]
           req == row[cl.req]
<1>1. PICK status \in {"REJECTED", "CANCELLED"} :
         Close(c, IF status = "REJECTED" THEN "reject" ELSE "cancel", status)
  BY DEF Reject, Cancel
<1>2. /\ c \in Procs /\ cl.pc \in {"reject", "cancel"} /\ Finish(c)
      /\ Save(cl.req, Settled(req, cl.snap, status, req.stage))
      /\ acts' = acts /\ due' = due
  BY <1>1 DEF Procs, Close
<1>3. /\ cl.req \in Reqs /\ req \in RowType /\ cl.snap \in RowType /\ Seated(req)
  BY <1>2, InFlight, SeatInFlight
<1>4. /\ status \in Statuses /\ status # "PENDING" /\ status # "ABSENT"
      /\ req.stage \in Stages \cup {Completed}
  BY <1>3 DEF Statuses, Terminal, RowType
<1> DEFINE new == Settled(req, cl.snap, status, req.stage)
<1> HIDE DEF cl, req
<1>5. Seated(new)
  BY <1>3, <1>4, SettledSeated
<1>6. new.by = req.by /\ new.status = status /\ new.stage = req.stage
  BY <1>3, <1>4, SettledType
<1>7. Carries(Idle)
  BY IdleSeated DEF Carries
<1>8. Save(cl.req, new)
  BY <1>2
<1> HIDE DEF new
<1> QED BY <1>2, <1>3, <1>4, <1>5, <1>6, <1>7, <1>8, SeatSave DEF Finish, req

LEMMA SeatDeleteOwn ==
    ASSUME TypeInv, TypeInv', ChainInv, RosterInv, NEW c \in Calls, DeleteOwn(c)
    PROVE  RosterInv'
<1> DEFINE cl  == call[c]
           req == row[cl.req]
           new == [req EXCEPT !.deleted = TRUE]
<1>1. /\ c \in Procs /\ cl.pc = "delete" /\ Finish(c) /\ Save(cl.req, new)
      /\ acts' = acts /\ due' = due
  BY DEF Procs, DeleteOwn
<1>2. cl.req \in Reqs /\ req \in RowType /\ Seated(req)
  BY <1>1, InFlight, SeatInFlight
<1> HIDE DEF cl, req
<1>3. /\ new.status = req.status /\ new.chain = req.chain /\ new.by = req.by
      /\ new.stage = req.stage /\ new.apprUser = req.apprUser
      /\ new.apprRole = req.apprRole /\ new.idx = req.idx
  BY <1>2 DEF RowType
<1> HIDE DEF new
<1>4. Seated(new)
  BY <1>2, <1>3 DEF Seated, Staffed, StaffedFor, Coherent
<1>5. Carries(Idle)
  BY IdleSeated DEF Carries
<1> QED BY <1>1, <1>2, <1>3, <1>4, <1>5, SeatSave DEF Finish, req

LEMMA SeatUpdateOwn ==
    ASSUME TypeInv, TypeInv', ChainInv, RosterInv, NEW c \in Calls,
           NEW amount \in Salaries \cup {0}, NEW date \in Days, UpdateOwn(c, amount, date)
    PROVE  RosterInv'
<1> DEFINE cl  == call[c]
           req == row[cl.req]
           new == Edited(req, cl.snap, amount, date)
<1>1. /\ c \in Procs /\ cl.pc = "update" /\ Finish(c) /\ Save(cl.req, new)
      /\ acts' = acts /\ due' = due
  BY DEF Procs, UpdateOwn
<1>2. /\ cl.req \in Reqs /\ req \in RowType /\ Seated(req)
      /\ cl.snap \in RowType /\ Seated(cl.snap)
  BY <1>1, InFlight, SeatInFlight
<1> HIDE DEF cl, req
<1>3. /\ new.status = req.status /\ new.chain = req.chain /\ new.by = req.by
      /\ new.stage = req.stage /\ new.apprUser = req.apprUser
      /\ new.apprRole = req.apprRole /\ new.idx = cl.snap.idx
  BY <1>2 DEF RowType, Edited
<1> HIDE DEF new
<1>4. Seated(new)
  BY <1>2, <1>3 DEF Seated, Staffed, StaffedFor, Coherent
<1>5. Carries(Idle)
  BY IdleSeated DEF Carries
<1> QED BY <1>1, <1>2, <1>3, <1>4, <1>5, SeatSave DEF Finish, req

LEMMA SeatImmediateEnds ==
    ASSUME TypeInv, TypeInv', ChainInv, RosterInv, NEW c \in Calls,
           ImmediateTitle(c) \/ ImmediateDone(c)
    PROVE  RosterInv'
<1>1. /\ c \in Procs /\ row' = row /\ acts' = acts /\ due' = due
      /\ call[c] \in CallType /\ Seated(call[c].snap)
  BY SeatInFlight DEF Procs, ImmediateTitle, ImmediateDone, TypeInv, TypeOK
<1> DEFINE to == [call[c] EXCEPT !.pc = "immLog"]
<1>2. CallSeated(to)
  BY <1>1 DEF CallSeated, CallType
<1>3. call' = [call EXCEPT ![c] = to] \/ Finish(c)
  BY DEF ImmediateTitle, ImmediateDone, Goto
<1> HIDE DEF to
<1> QED BY <1>1, <1>2, <1>3, IdleSeated, SeatMove DEF Finish, RosterInv

LEMMA SeatCallStep ==
    ASSUME TypeInv, TypeInv', ChainInv, RosterInv, NEW c \in Calls, CallStep(c)
    PROVE  RosterInv'
BY SeatInsert, SeatOffer, SeatRecheck, SeatLogApproval, SeatSetApprovalTarget,
   SeatFinalizeApproval, SeatClose, SeatDeleteOwn, SeatUpdateOwn, SeatImmediateEnds
   DEF CallStep

LEMMA SeatApplyStep ==
    ASSUME TypeInv, TypeInv', ChainInv, RosterInv, NEW p \in Procs, ApplyStep(p)
    PROVE  RosterInv'
<1> DEFINE cl  == call[p]
           req == row[cl.req]
<1>1. cl.pc \in {"title", "salary", "mark"} /\ acts' = acts /\ due' = due
  BY DEF ApplyStep, ApplyTitle, ApplySalary, MarkApplied
<1>2. /\ cl.req \in Reqs /\ req \in RowType /\ Seated(req)
      /\ cl.snap \in RowType /\ Seated(cl.snap) /\ cl \in CallType
  BY <1>1, InFlight, SeatInFlight DEF TypeInv, TypeOK
<1>3. CASE ApplyTitle(p) \/ ApplySalary(p)
  <2>1. PICK pc \in {"salary", "mark"} : call' = [call EXCEPT ![p].pc = pc]
    BY <1>3 DEF ApplyTitle, ApplySalary, Goto
  <2> DEFINE to == [cl EXCEPT !.pc = pc]
  <2>2. CallSeated(to)
    BY <1>2 DEF CallSeated, CallType
  <2>3. call' = [call EXCEPT ![p] = to] /\ row' = row
    BY <1>3, <2>1 DEF ApplyTitle, ApplySalary
  <2> HIDE DEF to
  <2> QED BY <1>1, <2>2, <2>3, SeatMove DEF RosterInv
<1>4. CASE MarkApplied(p)
  <2> DEFINE new == [req EXCEPT !.status = "APPLIED", !.idx = cl.snap.idx]
  <2>1. Save(cl.req, new) /\ Finish(p)
    BY <1>4 DEF MarkApplied
  <2> HIDE DEF cl, req
  <2>2. /\ new.status = "APPLIED" /\ new.chain = req.chain /\ new.by = req.by
        /\ new.stage = req.stage /\ new.idx = cl.snap.idx
    BY <1>2 DEF RowType
  <2> HIDE DEF new
  <2>3. Seated(new)
    BY <1>2, <2>2 DEF Seated, Staffed, StaffedFor
  <2>4. Carries(Idle)
    BY IdleSeated DEF Carries
  <2> QED BY <1>1, <1>2, <2>1, <2>2, <2>3, <2>4, SeatSave DEF Finish, req
<1> QED BY <1>3, <1>4 DEF ApplyStep

LEMMA SeatJob ==
    ASSUME TypeInv, TypeInv', ChainInv, RosterInv, JobScan \/ JobNext
    PROVE  RosterInv'
<1>1. Job \in Procs /\ row' = row /\ acts' = acts
  BY DEF Procs, JobScan, JobNext
<1>2. CASE JobScan
  <2>1. call' = [call EXCEPT ![Job] = call[Job]] /\ CallSeated(call[Job])
    BY <1>1, <1>2, SeatInFlight DEF JobScan, TypeInv, TypeOK
  <2>2. \A d \in due' : Seated(d.snap)
    BY <1>2 DEF JobScan, RosterInv
  <2> QED BY <1>1, <2>1, <2>2, SeatMove
<1>3. CASE JobNext
  <2>1. PICK d \in due :
           /\ call' = [call EXCEPT ![Job] =
                         [pc |-> FirstWrite(d.snap.kind), user |-> NoUser,
                          req |-> d.req, snap |-> d.snap]]
           /\ due' = due \ {d}
    BY <1>3 DEF JobNext
  <2> DEFINE to == [pc |-> FirstWrite(d.snap.kind), user |-> NoUser,
                    req |-> d.req, snap |-> d.snap]
  <2>2. CallSeated(to)
    BY DEF CallSeated, FirstWrite, RosterInv
  <2>3. \A e \in due' : Seated(e.snap)
    BY <2>1 DEF RosterInv
  <2> HIDE DEF to
  <2>4. call' = [call EXCEPT ![Job] = to]
    BY <2>1 DEF to
  <2> QED BY <1>1, <2>2, <2>3, <2>4, SeatMove
<1> QED BY <1>2, <1>3

\* The row the failed title change destroys has no chain: nobody decides on it.
LEMMA SeatImmediateFails ==
    ASSUME TypeInv, TypeInv', ChainInv, RosterInv, NEW c \in Calls, ImmediateFails(c)
    PROVE  RosterInv'
<1> DEFINE cl  == call[c]
           new == [NoRow EXCEPT !.status = "DESTROYED"]
<1>1. /\ c \in Procs /\ cl.pc \in {"immTitle", "immLog"} /\ Finish(c) /\ Save(cl.req, new)
      /\ acts' = acts /\ due' = due
  BY DEF Procs, ImmediateFails
<1>2. cl.req \in Reqs /\ row[cl.req].chain = << >>
  BY <1>1, InFlight DEF CallOK, SnapOK, NoRow
<1> HIDE DEF cl
<1>3. /\ new.status = "DESTROYED" /\ new.by = NoUser /\ new.stage = Completed
      /\ new.chain = << >> /\ new.idx = 1
  BY DEF NoRow
<1> HIDE DEF new
<1>4. Seated(new) /\ new.stage # "MANAGER"
  BY <1>3 DEF Seated, Staffed, StaffedFor, Completed
<1>5. Carries(Idle)
  BY IdleSeated DEF Carries
<1> QED BY <1>1, <1>2, <1>3, <1>4, <1>5, SeatSave DEF Finish

LEMMA SeatEnvironment ==
    ASSUME TypeInv, TypeInv', ChainInv, RosterInv,
           NextDay \/ UNCHANGED vars \/ \E p \in Procs : Abort(p)
    PROVE  RosterInv'
<1>1. row' = row /\ acts' = acts /\ due' \subseteq due
  BY DEF NextDay, vars, Abort
<1>2. \A d \in due' : Seated(d.snap)
  BY <1>1 DEF RosterInv
<1>3. CASE NextDay \/ UNCHANGED vars
  <2>1. /\ Job \in Procs /\ CallSeated(call[Job])
        /\ call' = [call EXCEPT ![Job] = call[Job]]
    BY <1>3, SeatInFlight DEF NextDay, vars, TypeInv, TypeOK, Procs
  <2> QED BY <1>1, <1>2, <2>1, SeatMove
<1>4. ASSUME NEW p \in Procs, Abort(p) PROVE RosterInv'
  <2>1. call' = [call EXCEPT ![p] = Idle] /\ CallSeated(Idle)
    BY <1>4, IdleSeated DEF Abort, Finish
  <2> QED BY <1>1, <1>2, <2>1, SeatMove
<1> QED BY <1>3, <1>4

LEMMA SeatUserCall ==
    ASSUME TypeInv, TypeInv', ChainInv, RosterInv, NEW c \in Calls, NEW u \in Users,
           UserCall(c, u)
    PROVE  RosterInv'
<1>0. c \in Procs /\ \A d \in due : Seated(d.snap)
  BY DEF Procs, RosterInv
<1>1. ASSUME NEW kind \in UsedKinds, NEW amount \in Salaries \cup {0}, NEW date \in Days,
             BeginCreate(c, u, kind, amount, date)
      PROVE  RosterInv'
  <2> DEFINE chain == BuildApprovalChain(u, kind)
             base == IF HasSalary(kind) THEN emp.salary ELSE 0
             snap == [NoRow EXCEPT !.status = "PENDING", !.by = u, !.kind = kind,
                               !.amount = amount, !.date = date, !.base = base,
                               !.stage = chain[1], !.apprUser = UserAt(chain[1]),
                               !.apprRole = RoleAt(chain[1]), !.chain = chain]
             to == [pc |-> "insert", user |-> u, req |-> NoReq, snap |-> snap]
  <2>1. kind \in Kinds /\ MayInitiate(u)
    BY <1>1 DEF BeginCreate
  <2>2. chain \in Seq(Stages) /\ Len(chain) > 0 /\ StaffedFor(chain, u)
    BY <2>1, ChainType, ChainStaffed
  <2>3. /\ row' = row /\ acts' = acts /\ due' = due
        /\ call' = [call EXCEPT ![c] = to]
    BY <1>1 DEF BeginCreate, Start
  <2> HIDE DEF chain, base
  <2>4. /\ snap.status = "PENDING" /\ snap.by = u /\ snap.idx = 1 /\ snap.chain = chain
        /\ snap.stage = chain[1] /\ snap.apprUser = UserAt(chain[1])
        /\ snap.apprRole = RoleAt(chain[1])
    BY DEF NoRow
  <2>5. to.pc = "insert" /\ to.snap = snap
    OBVIOUS
  <2> HIDE DEF snap, to
  <2>6. Staffed(snap)
    BY <2>2, <2>4 DEF Staffed, StaffedFor
  <2>7. 1 \in DOMAIN chain
    BY <2>2
  <2>8. CallSeated(to)
    BY <2>4, <2>5, <2>6, <2>7 DEF CallSeated, Seated, Coherent
  <2> QED BY <1>0, <2>3, <2>8, SeatMove
<1>2. ASSUME NEW r \in Reqs, BeginImmediate(c, u, r)
      PROVE  RosterInv'
  <2> DEFINE new == [NoRow EXCEPT !.status = "APPLIED", !.by = u, !.date = today]
             to  == [Idle EXCEPT !.pc = "immTitle", !.user = u, !.req = r]
  <2>1. /\ row[r].status = "ABSENT" /\ Save(r, new)
        /\ call' = [call EXCEPT ![c] = to] /\ acts' = acts /\ due' = due
    BY <1>2 DEF BeginImmediate
  <2>2. new.status = "APPLIED" /\ new.chain = << >> /\ new.idx = 1
    BY DEF NoRow
  <2>3. to.pc = "immTitle" /\ to.snap = NoRow
    BY DEF Idle
  <2> HIDE DEF new, to
  <2>4. Seated(new) /\ Carries(to)
    BY <2>2, <2>3, IdleSeated DEF Seated, Staffed, StaffedFor, Carries
  <2> QED BY <1>0, <2>1, <2>4, SeatSave
<1>3. ASSUME NEW r \in Reqs,
             \/ BeginApprove(c, u, r) \/ BeginReject(c, u, r) \/ BeginCancel(c, u, r)
             \/ BeginDelete(c, u, r) \/ BeginCounter(c, u, r) \/ BeginUpdate(c, u, r)
      PROVE  RosterInv'
  <2>1. PICK pc \in {"log", "reject", "cancel", "delete", "offer", "update"} :
           /\ Start(c, u, r, pc, row[r])
           /\ pc = "log" => AwaitingApprovalOf(u, r)
    BY <1>3 DEF BeginApprove, BeginReject, BeginCancel, BeginDelete, BeginCounter,
                BeginUpdate
  <2> DEFINE to == [pc |-> pc, user |-> u, req |-> r, snap |-> row[r]]
  <2>2. /\ row' = row /\ acts' = acts /\ due' = due
        /\ call' = [call EXCEPT ![c] = to]
    BY <2>1 DEF Start
  <2>3. Seated(row[r])
    BY DEF RosterInv
  <2>4. CallSeated(to)
    BY <2>1, <2>3 DEF CallSeated, AwaitingApprovalOf
  <2> HIDE DEF to
  <2> QED BY <1>0, <2>2, <2>4, SeatMove
<1> QED
  BY <1>1, <1>2, <1>3 DEF UserCall

LEMMA SeatInit == Init => RosterInv
BY IdleSeated DEF Init, RosterInv

LEMMA SeatStep == TypeInv /\ TypeInv' /\ ChainInv /\ RosterInv /\ [Next]_vars => RosterInv'
<1> SUFFICES ASSUME TypeInv, TypeInv', ChainInv, RosterInv, [Next]_vars PROVE RosterInv'
  OBVIOUS
<1> QED
  BY SeatUserCall, SeatCallStep, SeatApplyStep, SeatJob, SeatImmediateFails,
     SeatEnvironment DEF Next, JobStep, Procs

LEMMA RosterImplies == TypeInv /\ RosterInv => ApprovedByTheRightPerson /\ NoOrphanedRequest
<1> SUFFICES ASSUME TypeInv, RosterInv PROVE ApprovedByTheRightPerson /\ NoOrphanedRequest
  OBVIOUS
<1>1. ApprovedByTheRightPerson
  BY DEF RosterInv, Authorised, ApprovedByTheRightPerson
<1>2. ASSUME NEW r \in Reqs, row[r].status = "PENDING"
      PROVE  \E u \in Users : CanActAsCurrentApprover(u, row[r])
  <2>1. Seated(row[r]) /\ Coherent(row[r])
    BY <1>2 DEF RosterInv, Seated
  <2>2. PICK k \in DOMAIN row[r].chain : row[r].stage = row[r].chain[k]
    BY <2>1 DEF Coherent
  <2>3. CASE row[r].stage = "MANAGER"
    BY <2>1, <2>2, <2>3 DEF Seated, Staffed, StaffedFor, Coherent, UserAt,
       CanActAsCurrentApprover
  <2>4. CASE row[r].stage # "MANAGER"
    <3>1. PICK u \in Users : RoleAt(row[r].stage) \in RolesOf[u]
      BY <2>1, <2>2, <2>4 DEF Seated, Staffed, StaffedFor, UsersWith
    <3> QED BY <2>1, <2>4, <3>1 DEF Coherent, UserAt, CanActAsCurrentApprover
  <2> QED BY <2>3, <2>4
<1> QED BY <1>1, <1>2 DEF NoOrphanedRequest

\* Whatever handlers overlap, an approval on record is by the person its stage
\* belongs to and never by the requester.
THEOREM ApprovedByTheRightPersonHolds == Spec => []ApprovedByTheRightPerson
<1> QED BY TypeInit, TypeStep, ChainInit, ChainStep, SeatInit, SeatStep, RosterImplies, PTL
        DEF Spec

\* A pending request always has somebody who may act on it, whatever columns
\* late writes have nulled.
THEOREM NoOrphanedRequestHolds == Spec => []NoOrphanedRequest
<1> QED BY TypeInit, TypeStep, ChainInit, ChainStep, SeatInit, SeatStep, RosterImplies, PTL
        DEF Spec

-----------------------------------------------------------------------------
(* The handlers implement the ledger.  A row nobody inserted yet has no     *)
(* chain, and every step either leaves rows and approvals alone, inserts a  *)
(* request, records an approval, or saves a row with the chain it had.      *)

Blank == \A r \in Reqs : row[r].status = "ABSENT" => row[r].chain = << >>

SavesSameChain ==
    \E r \in Reqs, new \in RowType :
        /\ Save(r, new)
        /\ new.chain = row[r].chain /\ new.status # "ABSENT"
        /\ new.kind \in {row[r].kind, "TITLE"}

StepShape ==
    \/ row' = row /\ acts' = acts
    \/ \E c \in Calls, r \in Reqs : Insert(c, r)
    \/ \E c \in Calls : LogApproval(c)
    \/ SavesSameChain /\ acts' = acts

\* A handler in flight that saves its row, with the row's own chain.
LEMMA OwnRowSaved ==
    ASSUME TypeInv, ChainInv, NEW p \in Procs, call[p].pc \notin {"idle", "insert"},
           NEW new \in RowType, Save(call[p].req, new),
           new.chain = row[call[p].req].chain, new.kind \in {row[call[p].req].kind, "TITLE"},
           new.status \in {row[call[p].req].status, "SCHEDULED", "APPROVED", "REJECTED",
                           "CANCELLED", "APPLIED", "DESTROYED"}
    PROVE  SavesSameChain
<1>1. call[p].req \in Reqs /\ row[call[p].req].status # "ABSENT"
  BY InFlight DEF SnapOK
<1> QED BY <1>1 DEF SavesSameChain

LEMMA ShapeCallStep ==
    ASSUME TypeInv, ChainInv, NEW c \in Calls, CallStep(c)
    PROVE  StepShape
<1> DEFINE cl  == call[c]
           req == row[cl.req]
<1>0. /\ c \in Procs /\ cl.snap \in RowType
      /\ cl.pc \notin {"idle", "insert"} => cl.req \in Reqs /\ req \in RowType
  BY InFlight DEF Procs, TypeInv, TypeOK, CallType
<1>1. ASSUME NEW r \in Reqs, Insert(c, r) PROVE StepShape
  BY <1>1 DEF StepShape
<1>2. ASSUME NEW amount \in Salaries, Offer(c, amount) PROVE StepShape
  <2> DEFINE new == [req EXCEPT !.rec = amount]
  <2>1. cl.pc = "offer" /\ acts' = acts /\ (row' = row \/ Save(cl.req, new))
    BY <1>2 DEF Offer
  <2>2. /\ new \in RowType /\ new.chain = req.chain /\ new.status = req.status
        /\ new.kind = req.kind
    BY <1>0, <2>1 DEF RowType, Amounts
  <2> HIDE DEF new
  <2> QED BY <1>0, <2>1, <2>2, OwnRowSaved DEF StepShape
<1>3. CASE Recheck(c) \/ ImmediateTitle(c) \/ ImmediateDone(c)
  BY <1>3 DEF Recheck, ImmediateTitle, ImmediateDone, StepShape
<1>4. CASE LogApproval(c)
  BY <1>4 DEF StepShape
<1>5. CASE SetApprovalTarget(c)
  <2> DEFINE new == Retarget(req, cl.snap)
  <2>1. /\ cl.pc = "move" /\ acts' = acts /\ Save(cl.req, new)
        /\ cl.snap.idx < Len(cl.snap.chain)
    BY <1>5 DEF SetApprovalTarget
  <2> HIDE DEF cl, req
  <2>2. /\ new \in RowType /\ new.chain = req.chain /\ new.status = req.status
        /\ new.kind = req.kind
    BY <1>0, <2>1, RetargetType, RetargetKeeps
  <2> HIDE DEF new
  <2> QED BY <1>0, <2>1, <2>2, OwnRowSaved DEF StepShape, cl, req
<1>6. CASE FinalizeApproval(c) \/ Reject(c) \/ Cancel(c)
  <2>1. PICK status \in {"SCHEDULED", "APPROVED", "REJECTED", "CANCELLED"},
             stage \in {Completed, req.stage} :
           Save(cl.req, Settled(req, cl.snap, status, stage))
    BY <1>6 DEF FinalizeApproval, Reject, Cancel, Close
  <2>2. cl.pc \in {"move", "reject", "cancel"} /\ acts' = acts
    BY <1>6 DEF FinalizeApproval, Reject, Cancel, Close
  <2> DEFINE new == Settled(req, cl.snap, status, stage)
  <2>3. status \in Statuses /\ stage \in Stages \cup {Completed}
    BY <1>0, <2>2 DEF Statuses, Open, Terminal, RowType
  <2> HIDE DEF cl, req
  <2>4. /\ new \in RowType /\ new.chain = req.chain /\ new.status = status
        /\ new.kind = req.kind
    BY <1>0, <2>2, <2>3, SettledType, SettledKeeps
  <2>5. Save(cl.req, new)
    BY <2>1
  <2> HIDE DEF new
  <2> QED BY <1>0, <2>2, <2>4, <2>5, OwnRowSaved DEF StepShape, cl, req
<1>7. CASE DeleteOwn(c)
  <2> DEFINE new == [req EXCEPT !.deleted = TRUE]
  <2>1. cl.pc = "delete" /\ acts' = acts /\ Save(cl.req, new)
    BY <1>7 DEF DeleteOwn
  <2>2. /\ new \in RowType /\ new.chain = req.chain /\ new.status = req.status
        /\ new.kind = req.kind
    BY <1>0, <2>1 DEF RowType
  <2> HIDE DEF new
  <2> QED BY <1>0, <2>1, <2>2, OwnRowSaved DEF StepShape
<1>8. ASSUME NEW amount \in Salaries \cup {0}, NEW date \in Days, UpdateOwn(c, amount, date)
      PROVE  StepShape
  <2> DEFINE new == Edited(req, cl.snap, amount, date)
  <2>1. cl.pc = "update" /\ acts' = acts /\ Save(cl.req, new) /\ amount \in Amounts
    BY <1>8 DEF UpdateOwn, Amounts
  <2> HIDE DEF cl, req
  <2>2. /\ new \in RowType /\ new.chain = req.chain /\ new.status = req.status
        /\ new.kind = req.kind
    BY <1>0, <2>1, EditedType, EditedKeeps
  <2> HIDE DEF new
  <2> QED BY <1>0, <2>1, <2>2, OwnRowSaved DEF StepShape, cl, req
<1> QED BY <1>1, <1>2, <1>3, <1>4, <1>5, <1>6, <1>7, <1>8 DEF CallStep

LEMMA ShapeApplyStep ==
    ASSUME TypeInv, ChainInv, NEW p \in Procs, ApplyStep(p)
    PROVE  StepShape
<1> DEFINE cl  == call[p]
           req == row[cl.req]
           new == [req EXCEPT !.status = "APPLIED", !.idx = cl.snap.idx]
<1>1. CASE ApplyTitle(p) \/ ApplySalary(p)
  BY <1>1 DEF ApplyTitle, ApplySalary, StepShape
<1>2. CASE MarkApplied(p)
  <2>1. cl.pc = "mark" /\ acts' = acts /\ Save(cl.req, new)
    BY <1>2 DEF MarkApplied
  <2>2. req \in RowType /\ cl.snap \in RowType
    BY <2>1, InFlight
  <2>3. /\ new \in RowType /\ new.chain = req.chain /\ new.status = "APPLIED"
        /\ new.kind = req.kind
    BY <2>2 DEF RowType, Statuses, Terminal
  <2> HIDE DEF new
  <2> QED BY <2>1, <2>3, OwnRowSaved DEF StepShape
<1> QED BY <1>1, <1>2 DEF ApplyStep

LEMMA ShapeStep ==
    ASSUME TypeInv, ChainInv, Blank, [Next]_vars
    PROVE  StepShape
<1>1. ASSUME NEW c \in Calls, NEW u \in Users, UserCall(c, u) PROVE StepShape
  <2>1. ASSUME NEW r \in Reqs, BeginImmediate(c, u, r) PROVE StepShape
    <3> DEFINE new == [NoRow EXCEPT !.status = "APPLIED", !.by = u, !.date = today]
    <3>1. Save(r, new) /\ acts' = acts /\ row[r].chain = << >>
      BY <2>1 DEF BeginImmediate, Blank
    <3>2. /\ new \in RowType /\ new.chain = << >> /\ new.status = "APPLIED"
          /\ new.kind = "TITLE"
      BY NoRowType DEF TypeInv, TypeOK, RowType, Statuses, Terminal, NoRow
    <3> HIDE DEF new
    <3> QED BY <3>1, <3>2 DEF StepShape, SavesSameChain
  <2> QED BY <1>1, <2>1 DEF UserCall, BeginCreate, BeginApprove, BeginReject, BeginCancel,
             BeginDelete, BeginCounter, BeginUpdate, Start, StepShape
<1>2. ASSUME NEW c \in Calls, ImmediateFails(c) PROVE StepShape
  <2> DEFINE new == [NoRow EXCEPT !.status = "DESTROYED"]
  <2>1. /\ call[c].pc \in {"immTitle", "immLog"} /\ acts' = acts /\ c \in Procs
        /\ Save(call[c].req, new)
    BY <1>2 DEF ImmediateFails, Procs
  <2>2. row[call[c].req].chain = << >>
    BY <2>1, InFlight DEF CallOK, SnapOK, NoRow
  <2>3. /\ new \in RowType /\ new.chain = << >> /\ new.status = "DESTROYED"
        /\ new.kind = "TITLE"
    BY NoRowType DEF RowType, Statuses, NoRow
  <2> HIDE DEF new
  <2> QED BY <2>1, <2>2, <2>3, OwnRowSaved DEF StepShape
<1>3. JobScan \/ JobNext \/ NextDay \/ (\E p \in Procs : Abort(p)) \/ UNCHANGED vars
        => StepShape
  BY DEF JobScan, JobNext, NextDay, Abort, vars, StepShape
<1> QED BY <1>1, <1>2, <1>3, ShapeCallStep, ShapeApplyStep DEF Next, JobStep, Procs

LEMMA BlankStep ==
    ASSUME TypeInv, ChainInv, RosterInv, Blank, [Next]_vars
    PROVE  Blank'
<1>1. ASSUME NEW c \in Calls, NEW r \in Reqs, Insert(c, r) PROVE Blank'
  <2>1. call[c].snap.status = "PENDING" /\ row' = [row EXCEPT ![r] = call[c].snap]
    BY <1>1, SeatInFlight DEF Insert, Save, CallSeated, Procs
  <2> QED BY <2>1 DEF Blank, TypeInv, TypeOK
<1>2. CASE SavesSameChain
  BY <1>2 DEF SavesSameChain, Save, Blank, TypeInv, TypeOK
<1>3. CASE row' = row
  BY <1>3 DEF Blank
<1> QED BY <1>1, <1>2, <1>3, ShapeStep DEF StepShape, LogApproval

\* A row that is saved with its chain either takes effect, its chain being
\* fully signed, or withdraws.
LEMMA LedgerSave ==
    ASSUME TypeInv, TypeInv', ChainInv', SavesSameChain, acts' = acts,
           emp'.salary = emp.salary
    PROVE  Ledger!Next
<1> DEFINE chain   == [r \in Reqs |-> row[r].chain]
           signed  == [r \in Reqs |-> ApprovedStages(r)]
           inForce == [r \in Reqs |-> row[r].status \in InForce]
<1>1. PICK r \in Reqs, new \in RowType : Save(r, new) /\ new.chain = row[r].chain
  BY DEF SavesSameChain
<1>2. row'[r] = new /\ \A s \in Reqs \ {r} : row'[s] = row[s]
  BY <1>1 DEF Save, TypeInv, TypeOK
<1>3. chain' = chain
  BY <1>1, <1>2
<1>4. signed' = signed
  BY DEF ApprovedStages
<1>5. inForce' = [inForce EXCEPT ![r] = row'[r].status \in InForce]
  BY <1>2
<1>6. CASE row'[r].status \in InForce
  <2>1. \A k \in DOMAIN row[r].chain : row[r].chain[k] \in ApprovedStages(r)
    <3>1. Done(r, row[r])'
      BY <1>6 DEF ChainInv, RowOK
    <3> QED BY <1>1, <1>2, <3>1 DEF Done, ApprovedStages
  <2>2. Ledger!FullySigned(r)
    BY <2>1 DEF Ledger!FullySigned
  <2>3. Ledger!TakeEffect(r)
    <3>1. inForce' = [inForce EXCEPT ![r] = TRUE]
      BY <1>5, <1>6
    <3> QED BY <1>3, <1>4, <2>2, <3>1 DEF Ledger!TakeEffect
  <2> QED BY <2>3 DEF Ledger!Next
<1>7. CASE row'[r].status \notin InForce
  <2>1. inForce' = [inForce EXCEPT ![r] = FALSE]
    <3>1. (row'[r].status \in InForce) = FALSE
      BY <1>7
    <3> QED BY <1>5, <3>1, Zenon
  <2>2. Ledger!Withdraw(r)
    BY <1>3, <1>4, <2>1 DEF Ledger!Withdraw
  <2> QED BY <2>2 DEF Ledger!Next
<1> QED BY <1>6, <1>7

\* The insert of a request fixes its chain, which nobody has signed yet.
LEMMA LedgerSubmit ==
    ASSUME TypeInv, TypeInv', ChainInv, RosterInv, Blank, NEW c \in Calls, NEW r \in Reqs,
           Insert(c, r), emp'.salary = emp.salary
    PROVE  Ledger!Next
<1> DEFINE chain   == [s \in Reqs |-> row[s].chain]
           signed  == [s \in Reqs |-> ApprovedStages(s)]
           inForce == [s \in Reqs |-> row[s].status \in InForce]
           new     == call[c].snap
<1>1. /\ c \in Procs /\ call[c].pc = "insert" /\ row[r].status = "ABSENT"
      /\ Save(r, new) /\ acts' = acts
  BY DEF Insert, Procs
<1>2. new.status = "PENDING" /\ new \in RowType
  BY <1>1, SeatInFlight DEF CallSeated, TypeInv, TypeOK, CallType
<1>3. row'[r] = new /\ \A s \in Reqs \ {r} : row'[s] = row[s]
  BY <1>1 DEF Save, TypeInv, TypeOK
<1>4. row[r].chain = << >> /\ ApprovedStages(r) = {}
  <2>1. \A sig \in acts : sig.req # r
    BY <1>1 DEF RosterInv, Authorised
  <2> QED BY <1>1, <2>1 DEF Blank, ApprovedStages
<1>5. signed' = signed
  BY <1>1 DEF ApprovedStages
<1>6. "ABSENT" \notin InForce /\ "PENDING" \notin InForce
  BY DEF InForce
<1>7. inForce' = inForce
  BY <1>1, <1>2, <1>3, <1>6
<1>8. chain' = [chain EXCEPT ![r] = new.chain]
  BY <1>3
<1>9. chain'[r] = new.chain /\ new.chain \in Seq(Stages)
  BY <1>2, <1>3 DEF RowType
<1>10. chain[r] = << >> /\ signed[r] = {} /\ ~inForce[r]
  BY <1>1, <1>4, <1>6
<1> HIDE DEF new
<1>11. Ledger!Submit(r)
  BY <1>5, <1>7, <1>8, <1>9, <1>10 DEF Ledger!Submit
<1> QED BY <1>11 DEF Ledger!Next

\* A recorded approval signs the stage of the snapshot, and every stage before
\* it in the chain has signed.
LEMMA LedgerSign ==
    ASSUME TypeInv, TypeInv', ChainInv, RosterInv, NEW c \in Calls, LogApproval(c),
           emp'.salary = emp.salary
    PROVE  Ledger!Next
<1> DEFINE chain   == [s \in Reqs |-> row[s].chain]
           signed  == [s \in Reqs |-> ApprovedStages(s)]
           inForce == [s \in Reqs |-> row[s].status \in InForce]
<1>0. c \in Procs /\ call[c].pc = "log" /\ row' = row
  BY DEF LogApproval, Procs
<1>a. PICK r \in Reqs, snap \in RowType, u \in Users :
         /\ r = call[c].req /\ snap = call[c].snap /\ u = call[c].user
  BY <1>0, InFlight DEF TypeInv, CallShape, InScope
<1>1. acts' = acts \cup {[req |-> r, stage |-> snap.stage, actor |-> u]}
  BY <1>a DEF LogApproval
<1>2. Progress(r, snap) /\ snap.chain = row[r].chain
  BY <1>0, <1>a, InFlight DEF SnapOK
<1>3. Coherent(snap)
  BY <1>0, <1>a, SeatInFlight DEF CallSeated, Seated
<1>4. PICK k \in DOMAIN row[r].chain :
         /\ snap.stage = row[r].chain[k]
         /\ \A i \in DOMAIN row[r].chain : i < k => row[r].chain[i] \in ApprovedStages(r)
  <2>1. CASE Done(r, snap)
    BY <1>2, <1>3, <2>1 DEF Coherent, Done
  <2>2. CASE ~Done(r, snap)
    BY <1>2, <2>2 DEF Progress
  <2> QED BY <2>1, <2>2
<1>5. signed' = [signed EXCEPT ![r] = @ \cup {snap.stage}]
  <2>1. ApprovedStages(r)' = ApprovedStages(r) \cup {snap.stage}
    <3> DEFINE sig == [req |-> r, stage |-> snap.stage, actor |-> u]
    <3>1. sig.req = r /\ sig.stage = snap.stage
      OBVIOUS
    <3>2. acts' = acts \cup {sig}
      BY <1>1
    <3> HIDE DEF sig
    <3> QED BY <3>1, <3>2 DEF ApprovedStages
  <2>2. ASSUME NEW s \in Reqs, s # r PROVE ApprovedStages(s)' = ApprovedStages(s)
    BY <1>1, <2>2 DEF ApprovedStages
  <2> QED BY <2>1, <2>2
<1>6. chain' = chain /\ inForce' = inForce
  BY <1>0
<1>7. Ledger!Sign(r)
  <2>1. chain[r] = row[r].chain /\ signed[r] = ApprovedStages(r)
    OBVIOUS
  <2>2. emp.salary' = emp.salary
    OBVIOUS
  <2> QED BY <1>4, <1>5, <1>6, <2>1, <2>2 DEF Ledger!Sign
<1> QED BY <1>7 DEF Ledger!Next

LEMMA LedgerPay ==
    ASSUME TypeInv, TypeInv', ChainInv, NEW p \in Procs, ApplySalary(p)
    PROVE  Ledger!Next
<1> DEFINE r == call[p].req
<1>1. /\ row' = row /\ acts' = acts /\ emp'.salary \in Amounts
      /\ call[p].pc = "salary" /\ FullyApproved(r)
  BY SalaryWrite DEF ApplySalary, TypeInv, TypeOK
<1>2. r \in Reqs
  BY <1>1, InFlight
<1> HIDE DEF r
<1>3. Ledger!FullySigned(r)
  BY <1>1, <1>2 DEF Ledger!FullySigned, FullyApproved
<1>4. Ledger!Pay(r)
  BY <1>1, <1>3 DEF Ledger!Pay, ApprovedStages
<1> QED BY <1>2, <1>4 DEF Ledger!Next

LEMMA LedgerStep ==
    ASSUME TypeInv, TypeInv', ChainInv, ChainInv', RosterInv, Blank, [Next]_vars
    PROVE  [Ledger!Next]_(Ledger!ledger)
<1>1. CASE emp'.salary # emp.salary
  BY <1>1, SalaryFrame, LedgerPay
<1>2. CASE emp'.salary = emp.salary
  <2>1. CASE row' = row /\ acts' = acts
    BY <1>2, <2>1 DEF Ledger!ledger, ApprovedStages
  <2> QED BY <1>2, <2>1, ShapeStep, LedgerSave, LedgerSubmit, LedgerSign DEF StepShape
<1> QED BY <1>1, <1>2

LEMMA LedgerInit == Init => Blank /\ Ledger!Init
<1> SUFFICES ASSUME Init PROVE Blank /\ Ledger!Init
  OBVIOUS
<1>1. \A r \in Reqs : row[r] = NoRow
  BY DEF Init
<1>2. /\ NoRow.chain = << >> /\ NoRow.status \notin InForce
      /\ emp.salary \in Amounts /\ \A r \in Reqs : ApprovedStages(r) = {}
  BY DEF Init, NoRow, InForce, Amounts, ApprovedStages
<1>3. Blank
  BY <1>1, <1>2 DEF Blank
<1>4. [r \in Reqs |-> row[r].status \in InForce] = [r \in Reqs |-> FALSE]
  <2>1. \A r \in Reqs : (row[r].status \in InForce) = FALSE
    BY <1>1, <1>2
  <2> QED BY <2>1, Zenon
<1>5. Ledger!Init
  BY <1>1, <1>2, <1>4 DEF Ledger!Init
<1> QED BY <1>3, <1>5

\* The handlers, with their snapshots of any age, implement the ledger: the
\* stages of a chain sign in order, no signature is lost, and nothing is in
\* force or paid before the whole chain has signed.
THEOREM ImplementsLedgerHolds == Spec => ImplementsLedger
<1>1. TypeInv /\ ChainInv /\ RosterInv /\ Blank /\ [Next]_vars => Blank'
  BY BlankStep
<1>2. (TypeInv /\ TypeInv' /\ ChainInv /\ ChainInv' /\ RosterInv /\ Blank /\ [Next]_vars)
         => [Ledger!Next]_(Ledger!ledger)
  BY LedgerStep
<1> QED
  BY <1>1, <1>2, TypeInit, TypeStep, ChainInit, ChainStep, SeatInit, SeatStep, LedgerInit,
     PTL DEF Spec, ImplementsLedger, Ledger!Spec

-----------------------------------------------------------------------------
(* What EmploymentLedger promises *)

SameChain(r)  == row'[r].chain = row[r].chain
SameSigned(r) == ApprovedStages(r)' = ApprovedStages(r)
SameForce(r)  == row'[r].status \in InForce <=> row[r].status \in InForce

\* A step of the ledger, request by request.
LEMMA LedgerSubmitted ==
    ASSUME NEW r \in Reqs, Ledger!Submit(r)
    PROVE  /\ row[r].status \notin InForce
           /\ \A q \in Reqs : SameSigned(q) /\ SameForce(q) /\ (q # r => SameChain(q))
<1> DEFINE chain == [q \in Reqs |-> row[q].chain]
           after == [q \in Reqs |-> row[q].chain]'
<1>1. [q \in Reqs |-> ApprovedStages(q)]' = [q \in Reqs |-> ApprovedStages(q)]
  BY DEF Ledger!Submit
<1>2. [q \in Reqs |-> row[q].status \in InForce]' = [q \in Reqs |-> row[q].status \in InForce]
  BY DEF Ledger!Submit
<1>3. ~ [q \in Reqs |-> row[q].status \in InForce][r]
  BY DEF Ledger!Submit
<1>4. after = [chain EXCEPT ![r] = after[r]]
  BY DEF Ledger!Submit
<1>5. \A q \in Reqs : SameSigned(q)
  BY <1>1 DEF SameSigned
<1>6. \A q \in Reqs : SameForce(q)
  BY <1>2, Zenon DEF SameForce, InForce
<1>7. row[r].status \notin InForce
  BY <1>3, Zenon
<1>8. \A q \in Reqs : q # r => after[q] = chain[q]
  <2> HIDE DEF after
  <2> QED BY <1>4
<1>9. \A q \in Reqs : q # r => SameChain(q)
  BY <1>8 DEF SameChain
<1> QED BY <1>5, <1>6, <1>7, <1>9

LEMMA LedgerSigned ==
    ASSUME NEW r \in Reqs, Ledger!Sign(r)
    PROVE  \A q \in Reqs : /\ SameChain(q) /\ SameForce(q)
                           /\ ApprovedStages(q) \subseteq ApprovedStages(q)'
<1> DEFINE signed == [q \in Reqs |-> ApprovedStages(q)]
           after  == [q \in Reqs |-> ApprovedStages(q)]'
<1>1. [q \in Reqs |-> row[q].chain]' = [q \in Reqs |-> row[q].chain]
  BY DEF Ledger!Sign
<1>2. [q \in Reqs |-> row[q].status \in InForce]' = [q \in Reqs |-> row[q].status \in InForce]
  BY DEF Ledger!Sign
<1>3. PICK stage : after = [signed EXCEPT ![r] = @ \cup {stage}]
  BY DEF Ledger!Sign
<1>4. \A q \in Reqs : SameChain(q)
  BY <1>1 DEF SameChain
<1>5. \A q \in Reqs : SameForce(q)
  BY <1>2, Zenon DEF SameForce, InForce
<1>6. \A q \in Reqs : signed[q] \subseteq after[q]
  <2> HIDE DEF after
  <2> QED BY <1>3
<1>7. \A q \in Reqs : ApprovedStages(q) \subseteq ApprovedStages(q)'
  BY <1>6
<1> QED BY <1>4, <1>5, <1>7

LEMMA LedgerForced ==
    ASSUME NEW r \in Reqs, Ledger!TakeEffect(r) \/ Ledger!Withdraw(r) \/ Ledger!Pay(r)
    PROVE  \A q \in Reqs : /\ SameChain(q) /\ SameSigned(q)
                           /\ SameForce(q) \/ row'[q].status \notin InForce \/ FullyApproved(q)
<1> DEFINE inForce == [q \in Reqs |-> row[q].status \in InForce]
           after   == [q \in Reqs |-> row[q].status \in InForce]'
<1>1. [q \in Reqs |-> row[q].chain]' = [q \in Reqs |-> row[q].chain]
  BY DEF Ledger!TakeEffect, Ledger!Withdraw, Ledger!Pay
<1>2. [q \in Reqs |-> ApprovedStages(q)]' = [q \in Reqs |-> ApprovedStages(q)]
  BY DEF Ledger!TakeEffect, Ledger!Withdraw, Ledger!Pay
<1>3. \/ after = inForce
      \/ after = [inForce EXCEPT ![r] = FALSE]
      \/ Ledger!FullySigned(r) /\ after = [inForce EXCEPT ![r] = TRUE]
  BY DEF Ledger!TakeEffect, Ledger!Withdraw, Ledger!Pay
<1>4. Ledger!FullySigned(r) => FullyApproved(r)
  BY DEF Ledger!FullySigned, FullyApproved
<1>5. \A q \in Reqs : SameChain(q) /\ SameSigned(q)
  BY <1>1, <1>2 DEF SameChain, SameSigned
<1>6. \A q \in Reqs : \/ after[q] <=> inForce[q]
                      \/ ~ after[q]
                      \/ FullyApproved(q)
  <2>1. DOMAIN inForce = Reqs
    OBVIOUS
  <2> HIDE DEF inForce, after
  <2>2. CASE after = inForce
    BY <2>2, Zenon
  <2>3. CASE after = [inForce EXCEPT ![r] = FALSE]
    <3>1. \A q \in Reqs : q # r => after[q] = inForce[q]
      BY <2>1, <2>3
    <3>2. after[r] = FALSE
      BY <2>1, <2>3
    <3> QED BY <3>1, <3>2, Zenon
  <2>4. CASE FullyApproved(r) /\ after = [inForce EXCEPT ![r] = TRUE]
    <3>1. \A q \in Reqs : q # r => after[q] = inForce[q]
      BY <2>1, <2>4
    <3> QED BY <2>4, <3>1, Zenon
  <2> QED BY <1>3, <1>4, <2>2, <2>3, <2>4
<1>7. \A q \in Reqs : SameForce(q) \/ row'[q].status \notin InForce \/ FullyApproved(q)
  BY <1>6, Zenon DEF SameForce, InForce
<1> QED BY <1>5, <1>7

LEMMA LedgerNext == NoStageSkipped /\ [Ledger!Next]_(Ledger!ledger) => NoStageSkipped'
<1> SUFFICES ASSUME NoStageSkipped, [Ledger!Next]_(Ledger!ledger),
                    NEW q \in Reqs, row'[q].status \in InForce
             PROVE  FullyApproved(q)'
  BY DEF NoStageSkipped, InForce
<1>1. CASE UNCHANGED Ledger!ledger
  <2>1. SameChain(q) /\ SameSigned(q)
    BY <1>1 DEF Ledger!ledger, SameChain, SameSigned
  <2>2. [r \in Reqs |-> row[r].status \in InForce]' = [r \in Reqs |-> row[r].status \in InForce]
    BY <1>1 DEF Ledger!ledger
  <2>3. SameForce(q)
    BY <2>2, Zenon DEF SameForce, InForce
  <2> QED BY <2>1, <2>3 DEF NoStageSkipped, FullyApproved, SameChain, SameSigned, SameForce
<1>2. ASSUME NEW r \in Reqs, Ledger!Submit(r) PROVE FullyApproved(q)'
  <2>1. SameSigned(q) /\ SameForce(q) /\ (q # r => SameChain(q)) /\ row[r].status \notin InForce
    BY <1>2, LedgerSubmitted
  <2>2. SameChain(q)
    BY <2>1 DEF SameForce
  <2> QED BY <2>1, <2>2 DEF NoStageSkipped, FullyApproved, SameChain, SameSigned, SameForce
<1>3. ASSUME NEW r \in Reqs, Ledger!Sign(r) PROVE FullyApproved(q)'
  BY <1>3, LedgerSigned DEF NoStageSkipped, FullyApproved, SameChain, SameForce
<1>4. ASSUME NEW r \in Reqs, Ledger!TakeEffect(r) \/ Ledger!Withdraw(r) \/ Ledger!Pay(r)
      PROVE  FullyApproved(q)'
  <2>1. /\ SameChain(q) /\ SameSigned(q)
        /\ SameForce(q) \/ FullyApproved(q)
    BY <1>4, LedgerForced
  <2> QED BY <2>1 DEF NoStageSkipped, FullyApproved, SameChain, SameSigned, SameForce
<1> QED BY <1>1, <1>2, <1>3, <1>4 DEF Ledger!Next

\* The promise is enough: any handlers that keep the ledger, however they read
\* and write, put nothing in force before its whole chain has approved it, and
\* move the salary only while some request is fully approved.
THEOREM LedgerSuffices ==
    ImplementsLedger => /\ []NoStageSkipped
                        /\ [][\E r \in Reqs : FullyApproved(r)]_(emp.salary)
<1>1. Ledger!Init => NoStageSkipped
  <2> SUFFICES ASSUME Ledger!Init, NEW r \in Reqs PROVE row[r].status \notin InForce
    BY DEF NoStageSkipped
  <2>1. [q \in Reqs |-> row[q].status \in InForce] = [q \in Reqs |-> FALSE]
    BY DEF Ledger!Init
  <2> QED BY <2>1, Zenon
<1>2. [Ledger!Next]_(Ledger!ledger) => [\E r \in Reqs : FullyApproved(r)]_(emp.salary)
  <2>1. ASSUME NEW r \in Reqs, Ledger!Pay(r) PROVE FullyApproved(r)
    BY <2>1 DEF Ledger!Pay, Ledger!FullySigned, FullyApproved
  <2>2. ASSUME NEW r \in Reqs,
               Ledger!Submit(r) \/ Ledger!Sign(r) \/ Ledger!TakeEffect(r) \/ Ledger!Withdraw(r)
        PROVE  emp'.salary = emp.salary
    BY <2>2 DEF Ledger!Submit, Ledger!Sign, Ledger!TakeEffect, Ledger!Withdraw
  <2> QED BY <2>1, <2>2 DEF Ledger!Next, Ledger!ledger
<1> QED BY <1>1, <1>2, LedgerNext, PTL DEF ImplementsLedger, Ledger!Spec

-----------------------------------------------------------------------------
(* The last word.  Every chain names the business administrators, so what  *)
(* is in force by approval, and what is paid, has an administrator's        *)
(* approval, who is not the requester.                                     *)

AdminApproved(r) ==
    \E sig \in acts : /\ sig.req = r
                      /\ sig.actor # row[r].by
                      /\ "BUSINESS_ADMIN" \in RolesOf[sig.actor]

HasAdmin(q) ==
    IF q.chain = << >> THEN ~ HasSalary(q.kind)
    ELSE \E k \in DOMAIN q.chain : q.chain[k] = "ADMIN"

AdminInv ==
    /\ \A r \in Reqs : HasAdmin(row[r])
    /\ \A p \in Procs : call[p].pc = "insert" => HasAdmin(call[p].snap)

AdminInForce ==
    \A r \in Reqs :
        /\ row[r].status \in InForce
        /\ HasSalary(row[r].kind) \/ row[r].chain # << >>
        => AdminApproved(r)

\* A call about to insert was so before or has just been submitted.
LEMMA InsertingBefore ==
    ASSUME TypeInv, [Next]_vars, NEW p \in Procs, call'[p].pc = "insert"
    PROVE  \/ call'[p] = call[p]
           \/ \E u \in Users, kind \in Kinds : \E amount, date : BeginCreate(p, u, kind, amount, date)
<1>0. call \in [Procs -> CallType] /\ Idle.pc = "idle"
  BY DEF TypeInv, TypeOK, Idle
<1> SUFFICES ASSUME call'[p] # call[p]
             PROVE  \E u \in Users, kind \in Kinds : \E amount, date : BeginCreate(p, u, kind, amount, date)
  OBVIOUS
<1>1. ASSUME NEW c \in Procs, NEW to, call' = [call EXCEPT ![c] = to], to.pc # "insert" PROVE FALSE
  BY <1>0, <1>1
<1>2. ASSUME NEW c \in Procs, NEW pc, Goto(c, pc), pc # "insert" PROVE FALSE
  <2> DEFINE to == [call[c] EXCEPT !.pc = pc]
  <2>1. to.pc = pc /\ call' = [call EXCEPT ![c] = to]
    BY <1>0, <1>2 DEF Goto, CallType
  <2> HIDE DEF to
  <2> QED BY <1>1, <1>2, <2>1
<1>3. ASSUME NEW c \in Procs, Finish(c) PROVE FALSE
  BY <1>0, <1>1, <1>3 DEF Finish
<1>4. ASSUME NEW c \in Procs, NEW u, NEW r, NEW pc, NEW snap,
             Start(c, u, r, pc, snap), pc # "insert"
      PROVE  FALSE
  BY <1>1, <1>4 DEF Start
<1>5. CASE call' = call
  BY <1>5
<1>6. ASSUME NEW c \in Calls, NEW u \in Users, UserCall(c, u)
      PROVE  \E v \in Users, kind \in Kinds : \E amount, date : BeginCreate(p, v, kind, amount, date)
  <2>0. c \in Procs
    BY DEF Procs
  <2>1. ASSUME NEW r \in Reqs, BeginImmediate(c, u, r) PROVE FALSE
    <3> DEFINE to == [Idle EXCEPT !.pc = "immTitle", !.user = u, !.req = r]
    <3>1. to.pc = "immTitle" /\ call' = [call EXCEPT ![c] = to]
      BY <2>1 DEF BeginImmediate, Idle
    <3> HIDE DEF to
    <3> QED BY <1>1, <2>0, <3>1
  <2>2. ASSUME NEW r \in Reqs,
               \/ BeginApprove(c, u, r) \/ BeginReject(c, u, r) \/ BeginCancel(c, u, r)
               \/ BeginDelete(c, u, r) \/ BeginCounter(c, u, r) \/ BeginUpdate(c, u, r)
        PROVE  FALSE
    <3>1. PICK pc \in {"log", "reject", "cancel", "delete", "offer", "update"} :
             Start(c, u, r, pc, row[r])
      BY <2>2 DEF BeginApprove, BeginReject, BeginCancel, BeginDelete, BeginCounter, BeginUpdate
    <3> QED BY <1>4, <2>0, <3>1
  <2>3. PICK kind \in UsedKinds : \E amount, date : BeginCreate(c, u, kind, amount, date)
    BY <1>6, <2>1, <2>2 DEF UserCall
  <2>4. c = p
    BY <1>0, <2>3 DEF BeginCreate, Start
  <2> QED BY <2>3, <2>4
<1>7. ASSUME NEW c \in Calls, CallStep(c) PROVE FALSE
  <2>0. c \in Procs
    BY DEF Procs
  <2>1. CASE Recheck(c)
    <3> DEFINE to == [call[c] EXCEPT !.pc = "log", !.snap = row[call[c].req]]
    <3>1. to.pc = "log"
      BY <1>0, <2>0 DEF CallType
    <3>2. Finish(c) \/ call' = [call EXCEPT ![c] = to]
      BY <1>0, <2>0, <2>1 DEF Recheck
    <3> HIDE DEF to
    <3> QED BY <1>1, <1>3, <2>0, <3>1, <3>2
  <2>2. CASE FinalizeApproval(c) \/ LogApproval(c) \/ ImmediateTitle(c)
             \/ \E amount \in Salaries : Offer(c, amount)
    <3>1. Finish(c) \/ \E pc \in {"move", "title", "salary", "immLog", "recheck"} : Goto(c, pc)
      BY <2>2 DEF FinalizeApproval, LogApproval, ImmediateTitle, Offer, FirstWrite
    <3> QED BY <1>2, <1>3, <2>0, <3>1
  <2>3. CASE Finish(c)
    BY <1>3, <2>0, <2>3
  <2> QED BY <1>7, <2>1, <2>2, <2>3 DEF CallStep, Insert, SetApprovalTarget, Reject, Cancel,
         Close, DeleteOwn, UpdateOwn, ImmediateDone
<1>8. ASSUME NEW c \in Procs, ApplyStep(c) PROVE FALSE
  <2>1. Finish(c) \/ \E pc \in {"salary", "mark"} : Goto(c, pc)
    BY <1>8 DEF ApplyStep, ApplyTitle, ApplySalary, MarkApplied
  <2> QED BY <1>2, <1>3, <2>1
<1>9. CASE JobNext
  <2>1. PICK d \in due : call' = [call EXCEPT ![Job] = [pc |-> FirstWrite(d.snap.kind), user |-> NoUser,
                                                        req |-> d.req, snap |-> d.snap]]
    BY <1>9 DEF JobNext
  <2>2. FirstWrite(d.snap.kind) # "insert"
    BY DEF FirstWrite
  <2> QED BY <1>1, <2>1, <2>2 DEF Procs
<1>10. ASSUME NEW c \in Procs, Abort(c) \/ (c \in Calls /\ ImmediateFails(c)) PROVE FALSE
  BY <1>3, <1>10 DEF Abort, ImmediateFails
<1>11. CASE JobScan \/ NextDay \/ UNCHANGED vars
  BY <1>5, <1>11 DEF JobScan, NextDay, vars
<1> QED BY <1>6, <1>7, <1>8, <1>9, <1>10, <1>11 DEF Next, JobStep, Procs

LEMMA AdminStep ==
    ASSUME TypeInv, ChainInv, Blank, AdminInv, [Next]_vars
    PROVE  AdminInv'
<1>1. ASSUME NEW p \in Procs, call'[p].pc = "insert" PROVE HasAdmin(call'[p].snap)
  <2>1. CASE call'[p] = call[p]
    BY <1>1, <2>1 DEF AdminInv
  <2>2. ASSUME NEW u \in Users, NEW kind \in Kinds, NEW amount, NEW date,
               BeginCreate(p, u, kind, amount, date)
        PROVE  HasAdmin(call'[p].snap)
    <3> DEFINE chain == BuildApprovalChain(u, kind)
               base == IF HasSalary(kind) THEN emp.salary ELSE 0
               snap == [NoRow EXCEPT !.status = "PENDING", !.by = u, !.kind = kind,
                               !.amount = amount, !.date = date, !.base = base,
                               !.stage = chain[1], !.apprUser = UserAt(chain[1]),
                               !.apprRole = RoleAt(chain[1]), !.chain = chain]
               to == [pc |-> "insert", user |-> u, req |-> NoReq, snap |-> snap]
    <3>1. call' = [call EXCEPT ![p] = to] /\ MayInitiate(u)
      BY <2>2 DEF BeginCreate, Start
    <3>2. \E k \in DOMAIN chain : chain[k] = "ADMIN"
      BY <3>1, ChainType
    <3> HIDE DEF chain, base
    <3>3. snap.chain = chain
      BY DEF NoRow
    <3>4. to.snap = snap
      OBVIOUS
    <3> HIDE DEF snap, to
    <3>5. call'[p] = to
      BY <3>1 DEF TypeInv, TypeOK
    <3> QED BY <3>2, <3>3, <3>4, <3>5 DEF HasAdmin
  <2> QED BY <1>1, <2>1, <2>2, InsertingBefore
<1>2. ASSUME NEW r \in Reqs PROVE HasAdmin(row'[r])
  <2>0. row \in [Reqs -> RowType] /\ HasAdmin(row[r])
    BY DEF TypeInv, TypeOK, AdminInv
  <2>1. CASE row'[r] = row[r]
    BY <2>0, <2>1
  <2>2. ASSUME NEW c \in Calls, NEW q \in Reqs, Insert(c, q) PROVE HasAdmin(row'[r])
    <3>1. row' = [row EXCEPT ![q] = call[c].snap] /\ HasAdmin(call[c].snap)
      BY <2>2 DEF Insert, Save, AdminInv, Procs
    <3> QED BY <2>0, <3>1
  <2>3. ASSUME NEW q \in Reqs, NEW new \in RowType, Save(q, new), new.chain = row[q].chain,
               new.kind \in {row[q].kind, "TITLE"}
        PROVE  HasAdmin(row'[r])
    BY <2>0, <2>3 DEF Save, HasAdmin, HasSalary
  <2> QED BY <2>1, <2>2, <2>3, ShapeStep DEF StepShape, SavesSameChain, LogApproval
<1> QED BY <1>1, <1>2 DEF AdminInv

LEMMA AdminInit == Init => AdminInv
BY DEF Init, AdminInv, HasAdmin, NoRow, HasSalary, Idle

\* Whoever is fully approved, with a chain, has an administrator's approval.
LEMMA AdminSigned ==
    ASSUME TypeInv, RosterInv, NEW r \in Reqs, HasAdmin(row[r]), FullyApproved(r),
           HasSalary(row[r].kind) \/ row[r].chain # << >>
    PROVE  AdminApproved(r)
<1>1. PICK k \in DOMAIN row[r].chain : row[r].chain[k] = "ADMIN"
  BY DEF HasAdmin
<1>2. PICK sig \in acts : sig.req = r /\ sig.stage = "ADMIN"
  BY <1>1 DEF FullyApproved, ApprovedStages
<1>3. Authorised(sig)
  BY DEF RosterInv
<1> QED BY <1>2, <1>3 DEF Authorised, RoleAt, AdminApproved

\* What an approval puts in force has been approved by a business administrator
\* who did not ask for it, whatever roles the requester has and whoever is missing;
\* and the salary moves only while such a request exists.
THEOREM AdminHasTheLastWord ==
    Spec => /\ []AdminInForce
            /\ [][emp'.salary # emp.salary => \E r \in Reqs : AdminApproved(r)]_vars
<1>1. TypeInv /\ ChainInv /\ RosterInv /\ AdminInv => AdminInForce
  BY AdminSigned, ChainImplies DEF AdminInForce, AdminInv, NoStageSkipped
<1>2. TypeInv /\ ChainInv /\ RosterInv /\ AdminInv /\ [Next]_vars
        => [emp'.salary # emp.salary => \E r \in Reqs : AdminApproved(r)]_vars
  <2> SUFFICES ASSUME TypeInv, ChainInv, RosterInv, AdminInv, [Next]_vars,
                      emp'.salary # emp.salary
               PROVE  \E r \in Reqs : AdminApproved(r)
    OBVIOUS
  <2>1. PICK p \in Procs : ApplySalary(p)
    BY SalaryFrame
  <2>2. call[p].pc = "salary" /\ FullyApproved(call[p].req)
    BY <2>1, SalaryWrite
  <2>3. call[p].req \in Reqs /\ HasSalary(row[call[p].req].kind)
    BY <2>2, InFlight DEF CallOK, SnapOK
  <2>4. PICK r \in Reqs : r = call[p].req
    BY <2>3
  <2> QED BY <2>2, <2>3, <2>4, AdminSigned DEF AdminInv
<1>3. TypeInv /\ ChainInv /\ RosterInv /\ Blank /\ [Next]_vars => Blank'
  BY BlankStep
<1>4. TypeInv /\ ChainInv /\ Blank /\ AdminInv /\ [Next]_vars => AdminInv'
  BY AdminStep
<1> QED BY <1>1, <1>2, <1>3, <1>4, AdminInit, TypeInit, TypeStep, ChainInit, ChainStep,
       SeatInit, SeatStep, LedgerInit, PTL DEF Spec
=============================================================================
