------------------------ MODULE PolicyLifecycleProofs ------------------------
(***************************************************************************)
(* Theorems of PolicyLifecycle, for any people, rules, handlers and bounds. *)
(***************************************************************************)
EXTENDS PolicyLifecycle, SequenceTheorems, FiniteSetTheorems, TLAPS

USE PolicyAssumption

-----------------------------------------------------------------------------
(* Assignment rules *)

\* Once a rule matches an employee at some level, rules added at less specific
\* levels change nothing for that employee (resolveEmployeeAssignment).
THEOREM SpecificDecides ==
    ASSUME NEW emp, NEW few, NEW more, NEW i \in 1..5,
           Matching(Levels[i], emp, few) # {},
           \A rule \in more, j \in 1..i : rule.level # Levels[j]
    PROVE  resolveEmployeeAssignment(emp, few \cup more) <=> resolveEmployeeAssignment(emp, few)
<1>1. DOMAIN Levels = 1..5
  BY DEF Levels
<1>2. \A j \in 1..i : Matching(Levels[j], emp, few \cup more) = Matching(Levels[j], emp, few)
  BY DEF Matching
<1>3. i \in 1..i
  OBVIOUS
<1>4. Matching(Levels[i], emp, few \cup more) # {}
  BY <1>2, <1>3
<1> HIDE DEF Levels
<1>5. resolveEmployeeAssignment(emp, few \cup more) => resolveEmployeeAssignment(emp, few)
  <2>1. ASSUME resolveEmployeeAssignment(emp, few \cup more)
        PROVE  resolveEmployeeAssignment(emp, few)
    <3>1. PICK k \in 1..5 :
             /\ Matching(Levels[k], emp, few \cup more) # {}
             /\ \A rule \in Matching(Levels[k], emp, few \cup more) : rule.type # "EXCLUDE"
             /\ \A j \in 1..(k - 1) : Matching(Levels[j], emp, few \cup more) = {}
      BY <1>1, <2>1 DEF resolveEmployeeAssignment
    <3>2. ~(i \in 1..(k - 1))
      BY <1>4, <3>1
    <3>3. k \in 1..i /\ \A j \in 1..(k - 1) : j \in 1..i
      BY <3>2
    <3> QED BY <1>1, <1>2, <3>1, <3>3 DEF resolveEmployeeAssignment
  <2> QED BY <2>1
<1>6. resolveEmployeeAssignment(emp, few) => resolveEmployeeAssignment(emp, few \cup more)
  <2>1. ASSUME resolveEmployeeAssignment(emp, few)
        PROVE  resolveEmployeeAssignment(emp, few \cup more)
    <3>1. PICK k \in 1..5 :
             /\ Matching(Levels[k], emp, few) # {}
             /\ \A rule \in Matching(Levels[k], emp, few) : rule.type # "EXCLUDE"
             /\ \A j \in 1..(k - 1) : Matching(Levels[j], emp, few) = {}
      BY <1>1, <2>1 DEF resolveEmployeeAssignment
    <3>2. ~(i \in 1..(k - 1))
      BY <1>4, <3>1
    <3>3. k \in 1..i /\ \A j \in 1..(k - 1) : j \in 1..i
      BY <3>2
    <3> QED BY <1>1, <1>2, <3>1, <3>3 DEF resolveEmployeeAssignment
  <2> QED BY <2>1
<1> QED BY <1>5, <1>6

-----------------------------------------------------------------------------
(* Sequences of rows *)

LEMMA MappedRows ==
    ASSUME NEW S, NEW T, NEW s \in Seq(S), NEW t,
           DOMAIN t = DOMAIN s, t = [i \in DOMAIN s |-> t[i]],
           \A i \in DOMAIN s : t[i] \in T
    PROVE  t \in Seq(T)
<1>1. Len(s) \in Nat /\ DOMAIN s = 1..Len(s)
  BY LenProperties
<1>2. t \in [1..Len(s) -> T]
  BY <1>1
<1> QED BY <1>1, <1>2, SeqDef

\* One more row at the end leaves the others where they are.
LEMMA AppendedRow ==
    ASSUME NEW S, NEW s \in Seq(S), NEW x \in S
    PROVE  /\ Append(s, x) \in Seq(S) /\ Append(s, x) # << >>
           /\ Len(Append(s, x)) = Len(s) + 1
           /\ DOMAIN s \subseteq DOMAIN Append(s, x)
           /\ \A i \in DOMAIN s : Append(s, x)[i] = s[i]
<1>1. Len(s) \in Nat /\ DOMAIN s = 1..Len(s)
  BY LenProperties
<1> QED BY <1>1, AppendProperties

\* Setting the status of a row keeps the list and every other row.
LEMMA SetStatus ==
    ASSUME NEW s \in Seq(AccRow), NEW i \in DOMAIN s, NEW st \in Open \cup Answered,
           NEW t, t = [s EXCEPT ![i].status = st]
    PROVE  /\ t \in Seq(AccRow) /\ DOMAIN t = DOMAIN s /\ (s # << >> => t # << >>)
           /\ t[i].status = st
           /\ \A j \in DOMAIN s : j # i => t[j] = s[j]
<1>1. Len(s) \in Nat /\ DOMAIN s = 1..Len(s) /\ s[i] \in AccRow
  BY LenProperties, ElementOfSeq
<1>2. t = [s EXCEPT ![i] = [s[i] EXCEPT !.status = st]]
  OBVIOUS
<1>3. [s[i] EXCEPT !.status = st] \in AccRow /\ [s[i] EXCEPT !.status = st].status = st
  BY <1>1 DEF AccRow
<1>4. t \in Seq(AccRow) /\ Len(t) = Len(s)
  BY <1>1, <1>2, <1>3, ExceptSeq
<1>5. DOMAIN t = DOMAIN s
  BY <1>1, <1>4, LenProperties
<1>6. s # << >> => t # << >>
  BY <1>1, <1>4
<1> QED BY <1>1, <1>2, <1>3, <1>4, <1>5, <1>6

-----------------------------------------------------------------------------
(* Types *)

LEMMA Idle == IdleCall \in Call /\ IdleCall.pc = "idle"
BY DEF IdleCall, Call, PCs, Answered, Versions

LEMMA CallTo ==
    ASSUME TypeOK, NEW c \in Calls, NEW s \in Call, call' = [call EXCEPT ![c] = s]
    PROVE  /\ call' \in [Calls -> Call] /\ call'[c] = s
           /\ \A d \in Calls : d # c => call'[d] = call[d]
BY DEF TypeOK

LEMMA Starts ==
    ASSUME TypeOK, started < MaxCalls, started' = started + 1
    PROVE  started' \in 0..MaxCalls
<1>1. MaxCalls \in Nat
  OBVIOUS
<1> QED BY <1>1 DEF TypeOK

LEMMA NewVersionType ==
    ASSUME TypeOK, NEW c \in Calls, NEW from, NEW to \in Statuses, NEW sig \in BOOLEAN,
           NEW day \in Days \cup {NoDay}, NewVersion(c, from, to, sig, day)
    PROVE  TypeOK'
<1>1. policy \in PolicyRow /\ policy.version \in 1..MaxVersion
  BY DEF TypeOK, PolicyRow, Versions
<1>2. policy.version + 1 \in Versions
  BY <1>1 DEF NewVersion, Versions
<1>3. policy' = [policy EXCEPT !.version = policy.version + 1, !.status = to,
                               !.sig = sig, !.from = day]
  BY DEF NewVersion
<1>4. policy' \in PolicyRow /\ policy'.version = policy.version + 1
  BY <1>1, <1>2, <1>3 DEF PolicyRow
<1>5. vfrom' \in Seq(Days \cup {NoDay}) /\ Len(vfrom') = Len(vfrom) + 1
  BY AppendedRow DEF NewVersion, TypeOK
<1>6. vfrom' \in Seq(Days \cup {NoDay}) /\ Len(vfrom') = policy'.version
  BY <1>4, <1>5 DEF TypeOK
<1>7. /\ UNCHANGED <<frozen, acc, rules, call, pub, found, late, platform, today, faults,
                     published, shares, review>>
      /\ started' \in 0..MaxCalls
  BY Starts DEF NewVersion, Locked, rest
<1> QED BY <1>4, <1>6, <1>7 DEF TypeOK

LEMMA MoveType ==
    ASSUME TypeOK, NEW c \in Calls, NEW from, NEW row \in PolicyRow,
           row.version = policy.version, Move(c, from, row)
    PROVE  TypeOK'
<1>1. UNCHANGED <<frozen, acc, rules, call, pub, found, late, platform, today, faults,
                  published, vfrom, shares, review>>
      /\ policy' = row /\ started' \in 0..MaxCalls
  BY Starts DEF Move, Locked, rest
<1> QED BY <1>1 DEF TypeOK

LEMMA SharesOff ==
    ASSUME TypeOK, shares' = [i \in DOMAIN shares |-> [shares[i] EXCEPT !.enabled = FALSE]]
    PROVE  /\ shares' \in Seq(Share) /\ DOMAIN shares' = DOMAIN shares
           /\ \A i \in DOMAIN shares : shares'[i].version = shares[i].version
<1>1. \A i \in DOMAIN shares : shares[i] \in Share
  BY LenProperties, ElementOfSeq DEF TypeOK
<1>2. ASSUME NEW i \in DOMAIN shares
      PROVE  shares'[i] \in Share /\ shares'[i].version = shares[i].version
  BY <1>1, <1>2 DEF Share
<1>3. shares' = [i \in DOMAIN shares |-> shares'[i]] /\ DOMAIN shares' = DOMAIN shares
  OBVIOUS
<1>4. shares' \in Seq(Share)
  <2>1. PICK s \in Seq(Share) : s = shares
    BY DEF TypeOK
  <2>2. PICK t : t = shares'
    OBVIOUS
  <2>3. DOMAIN t = DOMAIN s /\ t = [i \in DOMAIN s |-> t[i]] /\ \A i \in DOMAIN s : t[i] \in Share
    BY <1>2, <1>3, <2>1, <2>2
  <2>4. t \in Seq(Share)
    BY <2>3, MappedRows
  <2> QED BY <2>2, <2>4
<1> QED BY <1>2, <1>3, <1>4

LEMMA WorkflowType ==
    ASSUME TypeOK, NEW c \in Calls, Workflow(c)
    PROVE  TypeOK'
<1>0. policy \in PolicyRow /\ policy.from \in Days \cup {NoDay} /\ policy.sig \in BOOLEAN
      /\ policy.status \in Statuses /\ policy.version \in Nat
  BY DEF TypeOK, PolicyRow, Versions
<1>1. ASSUME NEW sig \in BOOLEAN, NEW day \in Days \cup {NoDay}, updatePolicy(c, sig, day)
      PROVE  TypeOK'
  BY <1>0, <1>1, NewVersionType DEF updatePolicy
<1>2. CASE restoreVersion(c)
  BY <1>0, <1>2, NewVersionType DEF restoreVersion, Statuses
<1>3. CASE deletePolicy(c)
  <2>1. [policy EXCEPT !.deleted = TRUE] \in PolicyRow
        /\ [policy EXCEPT !.deleted = TRUE].version = policy.version
    BY <1>0 DEF PolicyRow
  <2> QED BY <1>3, <2>1, MoveType DEF deletePolicy
<1>4. CASE restorePolicy(c)
  <2>1. policy' \in PolicyRow /\ policy'.version = policy.version
    BY <1>0, <1>4 DEF restorePolicy, PolicyRow, Statuses
  <2>2. /\ UNCHANGED <<frozen, acc, rules, call, pub, found, late, platform, today, faults,
                       published, vfrom, shares, review>>
        /\ started' \in 0..MaxCalls
    BY <1>4, Starts DEF restorePolicy, Locked, rest
  <2> QED BY <2>1, <2>2 DEF TypeOK
<1>5. ASSUME NEW u \in Users, submitForReview(c, u) PROVE TypeOK'
  <2>1. [policy EXCEPT !.status = "in_review", !.by = u] \in PolicyRow
        /\ [policy EXCEPT !.status = "in_review", !.by = u].version = policy.version
    BY <1>0 DEF PolicyRow, Statuses
  <2> QED BY <1>5, <2>1, MoveType DEF submitForReview
<1>6. ASSUME NEW u \in Users, approvePolicy(c, u) PROVE TypeOK'
  <2>1. policy' \in PolicyRow /\ policy'.version = policy.version
    BY <1>0, <1>6 DEF approvePolicy, PolicyRow, Statuses
  <2>2. policy.version \in Nat /\ policy.by \in Users \cup {NoUser}
    BY <1>0 DEF PolicyRow
  <2>3. review' = [text |-> policy.version, by |-> policy.by, reviewer |-> u]
    BY <1>6 DEF approvePolicy
  <2>4. review' \in [text : Nat, by : Users \cup {NoUser}, reviewer : Users \cup {NoUser}]
    BY <2>2, <2>3
  <2>5. /\ UNCHANGED <<frozen, acc, rules, call, pub, found, late, platform, today, faults,
                       published, vfrom, shares>>
        /\ started' \in 0..MaxCalls
    BY <1>6, Starts DEF approvePolicy, Locked, rest
  <2> QED BY <2>1, <2>4, <2>5 DEF TypeOK
<1>7. CASE requestChanges(c)
  <2>1. [policy EXCEPT !.status = "changes_requested"] \in PolicyRow
        /\ [policy EXCEPT !.status = "changes_requested"].version = policy.version
    BY <1>0 DEF PolicyRow, Statuses
  <2> QED BY <1>7, <2>1, MoveType DEF requestChanges
<1>8. ASSUME NEW day \in Days, schedulePolicy(c, day) PROVE TypeOK'
  <2>1. [policy EXCEPT !.status = "scheduled", !.from = day] \in PolicyRow
        /\ [policy EXCEPT !.status = "scheduled", !.from = day].version = policy.version
    BY <1>0 DEF PolicyRow, Statuses
  <2> QED BY <1>8, <2>1, MoveType DEF schedulePolicy
<1>9. CASE unpublishPolicy(c)
  <2>1. policy' \in PolicyRow /\ policy'.version = policy.version
    BY <1>0, <1>9 DEF unpublishPolicy, PolicyRow, Statuses
  <2>2. shares' \in Seq(Share)
    BY <1>9, SharesOff DEF unpublishPolicy
  <2>3. /\ UNCHANGED <<frozen, acc, rules, call, pub, found, late, platform, today, faults,
                       published, vfrom, review>>
        /\ started' \in 0..MaxCalls
    BY <1>9, Starts DEF unpublishPolicy, Locked, rest
  <2> QED BY <2>1, <2>2, <2>3 DEF TypeOK
<1>10. CASE supersedePolicy(c)
  <2>1. [policy EXCEPT !.status = "superseded"] \in PolicyRow
        /\ [policy EXCEPT !.status = "superseded"].version = policy.version
    BY <1>0 DEF PolicyRow, Statuses
  <2> QED BY <1>10, <2>1, MoveType DEF supersedePolicy
<1>11. CASE archivePolicy(c)
  <2>1. [policy EXCEPT !.status = "archived", !.shared = FALSE] \in PolicyRow
        /\ [policy EXCEPT !.status = "archived", !.shared = FALSE].version = policy.version
    BY <1>0 DEF PolicyRow, Statuses
  <2> QED BY <1>11, <2>1, MoveType DEF archivePolicy
<1>12. CASE beginPublish(c)
  <2>0. call[c] \in Call
    BY DEF TypeOK
  <2>1. [call[c] EXCEPT !.pc = "publish"] \in Call
    BY <2>0 DEF Call, PCs
  <2>2. call' \in [Calls -> Call]
    BY <1>12, <2>1, CallTo DEF beginPublish
  <2>3. Targets \subseteq Employees
    BY DEF Targets, Employees
  <2>4. pub' \in [by : Calls \cup {Job, Nobody}, targets : SUBSET Employees,
                  todo : SUBSET Employees, new : SUBSET Employees]
    BY <1>12, <2>3 DEF beginPublish, BeginPublication
  <2>5. /\ UNCHANGED <<policy, vfrom, frozen, acc, shares, rules, found, late, platform,
                       today, faults, review, published>>
        /\ started' \in 0..MaxCalls
    BY <1>12, Starts DEF beginPublish, Locked
  <2> QED BY <2>2, <2>4, <2>5 DEF TypeOK
<1> QED BY <1>1, <1>2, <1>3, <1>4, <1>5, <1>6, <1>7, <1>8, <1>9, <1>10, <1>11, <1>12
        DEF Workflow

LEMMA PubFields ==
    ASSUME TypeOK
    PROVE  /\ pub.targets \subseteq Employees /\ pub.todo \subseteq Employees
           /\ pub.new \subseteq Employees /\ Employees \subseteq Users
           /\ NoPub \in [by : Calls \cup {Job, Nobody}, targets : SUBSET Employees,
                         todo : SUBSET Employees, new : SUBSET Employees]
BY DEF TypeOK, NoPub

LEMMA CallFields ==
    ASSUME TypeOK, NEW c \in Calls
    PROVE  /\ call[c] \in Call
           /\ call[c].user \in Users \cup {NoUser} /\ call[c].to \in Answered
           /\ call[c].version \in Versions /\ call[c].row \in Nat
           /\ call[c].shared \in BOOLEAN /\ call[c].list \subseteq Rules
<1>1. call[c] \in Call
  BY DEF TypeOK
<1> QED BY <1>1 DEF Call

LEMMA ReaderType ==
    ASSUME TypeOK, NEW c \in Calls, Reader(c)
    PROVE  TypeOK'
<1>0. policy.version \in Versions /\ policy.shared \in BOOLEAN
  BY DEF TypeOK, PolicyRow
<1>a. IdleCall \in Call
  BY Idle
<1>1. ASSUME NEW s \in Call, Start(c, s)
      PROVE  TypeOK'
  <2>1. call' \in [Calls -> Call] /\ started' \in 0..MaxCalls
    BY <1>1, CallTo, Starts DEF Start
  <2> QED BY <1>1, <2>1 DEF TypeOK, Start, db
<1>2. ASSUME NEW u \in Users, beginAccept(c, u) \/ beginSign(c, u)
      PROVE  TypeOK'
  <2>1. [IdleCall EXCEPT !.pc = "accept", !.user = u, !.to = "accepted",
                         !.version = policy.version] \in Call
    BY <1>0 DEF IdleCall, Call, PCs, Answered
  <2>2. [IdleCall EXCEPT !.pc = "sign", !.user = u, !.to = "signed",
                         !.version = policy.version] \in Call
    BY <1>0 DEF IdleCall, Call, PCs, Answered
  <2> QED BY <1>1, <1>2, <2>1, <2>2 DEF beginAccept, beginSign
<1>3. CASE beginShare(c) \/ beginRevoke(c)
  <2>1. [IdleCall EXCEPT !.pc = "share", !.version = policy.version,
                         !.shared = policy.shared] \in Call
    BY <1>0 DEF IdleCall, Call, PCs, Answered
  <2>2. [IdleCall EXCEPT !.pc = "revoke", !.shared = policy.shared] \in Call
    BY <1>0, <1>a DEF Call, PCs
  <2> QED BY <1>1, <1>3, <2>1, <2>2 DEF beginShare, beginRevoke
<1>4. ASSUME NEW list \in RuleLists, beginAssign(c, list)
      PROVE  TypeOK'
  <2>1. rules \in SUBSET (Rules \X Nat) /\ list \in SUBSET Rules
    BY DEF TypeOK
  <2>2. [IdleCall EXCEPT !.pc = "assign", !.seen = rules, !.list = list] \in Call
    BY <2>1, <1>a DEF Call, PCs
  <2> QED BY <1>1, <1>4, <2>2 DEF beginAssign
<1> QED BY <1>2, <1>3, <1>4 DEF Reader

LEMMA PublishedType ==
    ASSUME TypeOK, NEW from \in Days \cup {NoDay}, Published(from)
    PROVE  /\ policy' \in PolicyRow /\ policy'.version = policy.version
           /\ published' \subseteq Versions
           /\ acc' \in [Versions \X Users -> Seq(AccRow)]
           /\ pub' \in [by : Calls \cup {Job, Nobody}, targets : SUBSET Employees,
                        todo : SUBSET Employees, new : SUBSET Employees]
           /\ \A k \in Versions \X Users :
                 acc'[k] = IF k[1] = policy.version /\ k[2] \in pub.new
                           THEN Append(acc[k], [status |-> "pending", due |-> DueAt(k[1])])
                           ELSE acc[k]
<1>0. policy \in PolicyRow /\ policy.version \in Versions /\ policy.version \in Nat
  BY DEF TypeOK, PolicyRow, Versions
<1>1. policy' \in PolicyRow /\ policy'.version = policy.version
  <2>1. policy' = [policy EXCEPT !.status = "published", !.from = from]
    BY DEF Published
  <2> QED BY <1>0, <2>1 DEF PolicyRow, Statuses
<1>2. published' \subseteq Versions
  BY <1>0 DEF Published, TypeOK
<1>3. DueAt(policy.version) \in Nat \cup {NoDay}
  <2>1. policy.version \in 1..Len(vfrom)
    BY <1>0 DEF TypeOK, Versions
  <2>2. vfrom[policy.version] \in Days \cup {NoDay}
    BY <2>1, ElementOfSeq DEF TypeOK
  <2>3. today \in Nat /\ Grace \in Nat
    BY DEF TypeOK, Days
  <2> QED BY <2>2, <2>3 DEF DueAt, Days
<1>4. DOMAIN acc = Versions \X Users
  BY DEF TypeOK
<1>5. \A k \in Versions \X Users :
         acc'[k] = IF k[1] = policy.version /\ k[2] \in pub.new
                   THEN Append(acc[k], [status |-> "pending", due |-> DueAt(k[1])])
                   ELSE acc[k]
  BY <1>4 DEF Published
<1>6. ASSUME NEW k \in Versions \X Users
      PROVE  acc'[k] \in Seq(AccRow)
  <2>1. acc[k] \in Seq(AccRow)
    BY DEF TypeOK
  <2>2. CASE k[1] = policy.version
    <3>1. [status |-> "pending", due |-> DueAt(policy.version)] \in AccRow
      BY <1>3 DEF AccRow, Open
    <3>2. Append(acc[k], [status |-> "pending", due |-> DueAt(policy.version)]) \in Seq(AccRow)
      BY <2>1, <3>1, AppendedRow
    <3> QED BY <1>5, <2>1, <2>2, <3>2
  <2>3. CASE k[1] # policy.version
    BY <1>5, <2>1, <2>3
  <2> QED BY <2>2, <2>3
<1>7. acc' \in [Versions \X Users -> Seq(AccRow)]
  <2>1. acc' = [k \in Versions \X Users |-> acc'[k]]
    BY <1>4 DEF Published
  <2> QED BY <1>6, <2>1
<1> QED BY <1>1, <1>2, <1>5, <1>7, PubFields DEF Published

\* The rows of one reader of one version, after an answer.
AnswerOn(s, row, to) ==
    IF row = 0 THEN Append(s, [status |-> to, due |-> NoDay])
               ELSE [s EXCEPT ![row].status = to]

LEMMA AnsweredRow ==
    ASSUME NEW s \in Seq(AccRow), NEW row \in Nat, NEW to \in Answered,
           NEW t, t = AnswerOn(s, row, to)
    PROVE  /\ t \in Seq(AccRow) /\ DOMAIN s \subseteq DOMAIN t
           /\ s # << >> \/ row = 0 => t # << >>
           /\ \A i \in DOMAIN s : t[i] = s[i] \/ t[i].status = to
<1>1. CASE row = 0
  <2>1. [status |-> to, due |-> NoDay] \in AccRow
    BY DEF AccRow
  <2>2. t = Append(s, [status |-> to, due |-> NoDay])
    BY <1>1 DEF AnswerOn
  <2> QED BY <2>1, <2>2, AppendedRow
<1>2. CASE row # 0 /\ row \in DOMAIN s
  <2>1. t = [s EXCEPT ![row].status = to] /\ to \in Open \cup Answered
    BY <1>2 DEF AnswerOn
  <2> QED BY <1>2, <2>1, SetStatus
<1>3. CASE row # 0 /\ row \notin DOMAIN s
  <2>1. s = [i \in DOMAIN s |-> s[i]]
    BY LenProperties
  <2>2. t = s
    BY <1>3, <2>1 DEF AnswerOn
  <2> QED BY <1>3, <2>2
<1> QED BY <1>1, <1>2, <1>3

LEMMA AnswerKeeps ==
    ASSUME NEW s \in Seq(AccRow), NEW row \in Nat, NEW to \in Answered, NEW i \in DOMAIN s
    PROVE  AnswerOn(s, row, to)[i] = s[i] \/ AnswerOn(s, row, to)[i].status = to
<1>1. \A t : t = AnswerOn(s, row, to) =>
              \A j \in DOMAIN s : t[j] = s[j] \/ t[j].status = to
  BY AnsweredRow
<1> QED BY <1>1

-----------------------------------------------------------------------------
(* The inductive invariant *)

\* While a publication holds the lock the document stays publishable.
LockHeld == pub.by # Nobody => Visible /\ policy.status \in {"approved", "scheduled"}

\* Everyone the publication read is still to be visited, will get a row, or has one.
TargetsAsked ==
    \A u \in pub.targets : u \in pub.todo \/ u \in pub.new \/ acc[policy.version, u] # << >>

\* A handler that answers or shares holds a version that was published.
Reads(c) ==
    /\ call[c].pc \in {"accept", "sign", "answer"} => call[c].user \in Users
    /\ call[c].pc \in {"accept", "sign", "answer", "share"} => call[c].version \in published

RowInv ==
    /\ InForceWasReviewed
    /\ policy.status = "in_review" => policy.by \in Users
    /\ policy.status = "published" => policy.version \in published

Inv ==
    /\ TypeOK /\ RowInv /\ LockHeld /\ TargetsAsked
    /\ \A c \in Calls : Reads(c)
    /\ AnswersArePublished /\ SharedWasPublished /\ SnapshotWasAsked

LEMMA InitInv == Init => Inv
<1> SUFFICES ASSUME Init PROVE Inv
  OBVIOUS
<1>1. TypeOK
  <2>1. policy \in PolicyRow /\ policy.version = 1
    BY DEF Init, PolicyRow, Statuses, Versions
  <2>2. vfrom \in Seq(Days \cup {NoDay}) /\ Len(vfrom) = 1
    BY DEF Init
  <2>3. acc \in [Versions \X Users -> Seq(AccRow)] /\ shares \in Seq(Share)
    BY EmptySeq DEF Init
  <2>4. pub \in [by : Calls \cup {Job, Nobody}, targets : SUBSET Employees,
                 todo : SUBSET Employees, new : SUBSET Employees]
    BY DEF Init, NoPub
  <2>5. call \in [Calls -> Call]
    BY Idle DEF Init
  <2>6. {MaxDay, MaxCalls, MaxFaults} \subseteq Nat
    OBVIOUS
  <2>10. [active |-> TRUE, jammed |-> FALSE, ahead |-> 0] \in Platform
    BY PolicyAssumption DEF Platform
  <2>7. /\ frozen \in [Versions -> SUBSET Employees] /\ rules \subseteq Rules \X Nat
        /\ found \in BOOLEAN /\ platform \in Platform /\ late \subseteq (Versions \X Users) \X Nat
        /\ published \subseteq Versions
    BY <2>10 DEF Init
  <2>8. today \in Days /\ started \in 0..MaxCalls /\ faults \in 0..MaxFaults
    BY <2>6 DEF Init, Days
  <2>9. review \in [text : Nat, by : Users \cup {NoUser}, reviewer : Users \cup {NoUser}]
    BY DEF Init, NoReview
  <2> QED BY <2>1, <2>2, <2>3, <2>4, <2>5, <2>7, <2>8, <2>9 DEF TypeOK
<1>2. RowInv /\ LockHeld
  BY DEF Init, RowInv, InForceWasReviewed, LockHeld, Reviewed, NoPub
<1>3. TargetsAsked /\ \A c \in Calls : Reads(c)
  BY DEF Init, TargetsAsked, Reads, NoPub, IdleCall
<1>4. AnswersArePublished /\ SharedWasPublished
  BY DEF Init, AnswersArePublished, SharedWasPublished
<1>5. SnapshotWasAsked
  BY DEF Init, SnapshotWasAsked
<1> QED BY <1>1, <1>2, <1>3, <1>4, <1>5 DEF Inv

\* A step that changes the document under the free lock keeps everything but
\* what it must keep of the row itself.
LEMMA RowStep ==
    ASSUME Inv, TypeOK', Unlocked, UNCHANGED <<frozen, acc, call, pub, published>>,
           DOMAIN shares' = DOMAIN shares,
           \A i \in DOMAIN shares : shares'[i].version = shares[i].version,
           RowInv'
    PROVE  Inv'
<1>1. LockHeld' /\ TargetsAsked'
  BY DEF Unlocked, NoPub, LockHeld, TargetsAsked
<1>2. (\A c \in Calls : Reads(c))' /\ AnswersArePublished' /\ SnapshotWasAsked'
  BY DEF Inv, Reads, AnswersArePublished, SnapshotWasAsked
<1>3. SharedWasPublished'
  BY DEF Inv, SharedWasPublished
<1> QED BY <1>1, <1>2, <1>3 DEF Inv

LEMMA WorkflowInv ==
    ASSUME Inv, NEW c \in Calls, Workflow(c)
    PROVE  Inv'
<1>t. TypeOK'
  BY WorkflowType DEF Inv
<1>r. policy \in PolicyRow /\ RowInv
  BY DEF Inv, TypeOK
<1>v. policy.version \in Nat
  BY <1>r DEF PolicyRow, Versions
<1>0. ASSUME NEW from, NEW row, Move(c, from, row), RowInv'
      PROVE  Inv'
  BY <1>0, <1>t, RowStep DEF Move, Locked, rest
<1>n. ASSUME NEW from, NEW to \in Statuses \ (Reviewed \cup {"in_review"}), NEW sig, NEW day,
             NewVersion(c, from, to, sig, day)
      PROVE  Inv'
  <2>1. policy'.status = to
    BY <1>r, <1>n DEF NewVersion, PolicyRow
  <2>2. RowInv'
    BY <2>1 DEF RowInv, InForceWasReviewed, Reviewed
  <2> QED BY <1>n, <1>t, <2>2, RowStep DEF NewVersion, Locked, rest
<1>1. ASSUME NEW sig \in BOOLEAN, NEW day \in Days \cup {NoDay}, updatePolicy(c, sig, day)
      PROVE  Inv'
  <2>1. policy.status \in Statuses \ (Reviewed \cup {"in_review"})
    BY <1>1 DEF updatePolicy, NewVersion, Statuses, Reviewed
  <2> QED BY <1>1, <1>n, <2>1 DEF updatePolicy
<1>2. CASE restoreVersion(c)
  BY <1>2, <1>n DEF restoreVersion, Statuses, Reviewed
<1>3. CASE deletePolicy(c)
  <2>1. RowInv'
    BY <1>3, <1>r DEF deletePolicy, Move, RowInv, InForceWasReviewed, Reviewed, PolicyRow
  <2> QED BY <1>3, <1>0, <2>1 DEF deletePolicy
<1>4. CASE restorePolicy(c)
  <2>1. RowInv'
    BY <1>4, <1>r DEF restorePolicy, RowInv, InForceWasReviewed, Reviewed, PolicyRow
  <2> QED BY <1>4, <1>t, <2>1, RowStep DEF restorePolicy, Locked, rest
<1>5. ASSUME NEW u \in Users, submitForReview(c, u) PROVE Inv'
  <2>1. RowInv'
    BY <1>5, <1>r DEF submitForReview, Move, RowInv, InForceWasReviewed, Reviewed, PolicyRow
  <2> QED BY <1>5, <1>0, <2>1 DEF submitForReview
<1>6. ASSUME NEW u \in Users, approvePolicy(c, u) PROVE Inv'
  <2>1. /\ policy'.status = "approved" /\ policy'.version = policy.version
        /\ review'.text = policy.version /\ review'.by = policy.by /\ review'.reviewer = u
    BY <1>6, <1>r DEF approvePolicy, PolicyRow
  <2>2. policy.by # u \/ u \in SuperAdmins
    BY <1>6 DEF approvePolicy
  <2>3. RowInv'
    BY <2>1, <2>2 DEF RowInv, InForceWasReviewed
  <2> QED BY <1>6, <1>t, <2>3, RowStep DEF approvePolicy, Locked, rest
<1>7. CASE requestChanges(c)
  <2>1. RowInv'
    BY <1>7, <1>r DEF requestChanges, Move, RowInv, InForceWasReviewed, Reviewed, PolicyRow
  <2> QED BY <1>7, <1>0, <2>1 DEF requestChanges
<1>8. ASSUME NEW day \in Days, schedulePolicy(c, day) PROVE Inv'
  <2>1. RowInv'
    BY <1>8, <1>r DEF schedulePolicy, Move, rest, RowInv, InForceWasReviewed, Reviewed, PolicyRow
  <2> QED BY <1>8, <1>0, <2>1 DEF schedulePolicy
<1>9. CASE unpublishPolicy(c)
  <2>1. RowInv'
    BY <1>9, <1>r DEF unpublishPolicy, RowInv, InForceWasReviewed, Reviewed, PolicyRow
  <2>2. DOMAIN shares' = DOMAIN shares
        /\ \A i \in DOMAIN shares : shares'[i].version = shares[i].version
    BY <1>9, SharesOff DEF unpublishPolicy, Inv
  <2>3. Unlocked /\ UNCHANGED <<frozen, acc, call, pub, published>>
    BY <1>9 DEF unpublishPolicy, Locked, rest
  <2> QED BY <1>t, <2>1, <2>2, <2>3, RowStep
<1>10. CASE supersedePolicy(c)
  <2>1. RowInv'
    BY <1>10, <1>r DEF supersedePolicy, Move, RowInv, InForceWasReviewed, Reviewed, PolicyRow
  <2> QED BY <1>10, <1>0, <2>1 DEF supersedePolicy
<1>11. CASE archivePolicy(c)
  <2>1. RowInv'
    BY <1>11, <1>r DEF archivePolicy, Move, RowInv, InForceWasReviewed, Reviewed, PolicyRow
  <2> QED BY <1>11, <1>0, <2>1 DEF archivePolicy
<1>12. CASE beginPublish(c)
  <2>1. RowInv'
    BY <1>12, <1>r DEF beginPublish, RowInv, InForceWasReviewed
  <2>2. LockHeld' /\ TargetsAsked'
    BY <1>12 DEF beginPublish, BeginPublication, LockHeld, TargetsAsked, Visible
  <2>3. ASSUME NEW d \in Calls PROVE Reads(d)'
    <3>1. d # c => call'[d] = call[d]
      BY <1>12 DEF beginPublish, Inv, TypeOK
    <3>2. call'[c].pc = "publish"
      BY <1>12, CallFields DEF beginPublish, Inv, TypeOK, Call
    <3>3. published' = published
      BY <1>12 DEF beginPublish
    <3> QED BY <3>1, <3>2, <3>3 DEF Reads, Inv
  <2>4. AnswersArePublished' /\ SharedWasPublished' /\ SnapshotWasAsked'
    BY <1>12 DEF beginPublish, Inv, AnswersArePublished, SharedWasPublished, SnapshotWasAsked
  <2> QED BY <1>t, <2>1, <2>2, <2>3, <2>4 DEF Inv
<1> QED BY <1>1, <1>2, <1>3, <1>4, <1>5, <1>6, <1>7, <1>8, <1>9, <1>10, <1>11, <1>12
        DEF Workflow

\* A step of one handler that writes nothing but its own state.
LEMMA CallStep ==
    ASSUME Inv, NEW c \in Calls, NEW s \in Call, call' = [call EXCEPT ![c] = s], UNCHANGED db,
           started' \in 0..MaxCalls,
           s.pc \in {"accept", "sign", "answer"} => s.user \in Users,
           s.pc \in {"accept", "sign", "answer", "share"} => s.version \in published
    PROVE  Inv'
<1>1. call' \in [Calls -> Call] /\ call'[c] = s /\ \A d \in Calls : d # c => call'[d] = call[d]
  BY CallTo DEF Inv
<1>2. TypeOK'
  BY <1>1 DEF Inv, TypeOK, db
<1>3. RowInv' /\ LockHeld' /\ TargetsAsked'
  BY DEF Inv, db, RowInv, InForceWasReviewed, LockHeld, Visible, TargetsAsked
<1>4. (\A d \in Calls : Reads(d))'
  BY <1>1 DEF Inv, Reads, db
<1>5. AnswersArePublished' /\ SharedWasPublished' /\ SnapshotWasAsked'
  BY DEF Inv, db, AnswersArePublished, SharedWasPublished, SnapshotWasAsked
<1> QED BY <1>2, <1>3, <1>4, <1>5 DEF Inv

LEMMA ReaderInv ==
    ASSUME Inv, NEW c \in Calls, Reader(c)
    PROVE  Inv'
<1>0. TypeOK /\ policy.version \in Versions /\ policy.shared \in BOOLEAN /\ IdleCall \in Call
  BY Idle DEF Inv, TypeOK, PolicyRow
<1>s. ASSUME NEW s \in Call, Start(c, s),
             s.pc \in {"accept", "sign", "answer"} => s.user \in Users,
             s.pc \in {"accept", "sign", "answer", "share"} => s.version \in published
      PROVE  Inv'
  <2>1. started' \in 0..MaxCalls /\ call' = [call EXCEPT ![c] = s] /\ UNCHANGED db
    BY <1>0, <1>s, Starts DEF Start
  <2> QED BY <1>s, <2>1, CallStep
<1>p. IsPublished => policy.version \in published
  BY DEF IsPublished, Inv, RowInv
<1>1. ASSUME NEW u \in Users, beginAccept(c, u) \/ beginSign(c, u)
      PROVE  Inv'
  <2> DEFINE s(pc, to) == [IdleCall EXCEPT !.pc = pc, !.user = u, !.to = to,
                                           !.version = policy.version]
  <2>1. ASSUME NEW pc \in {"accept", "sign"}, NEW to \in Answered
        PROVE  s(pc, to) \in Call /\ s(pc, to).user = u /\ s(pc, to).version = policy.version
    BY <1>0, <2>1 DEF Call, PCs
  <2>2. Start(c, s("accept", "accepted")) \/ Start(c, s("sign", "signed"))
    BY <1>1 DEF beginAccept, beginSign
  <2>3. policy.version \in published
    BY <1>1, <1>p DEF beginAccept, beginSign
  <2> HIDE DEF s
  <2> QED BY <1>s, <2>1, <2>2, <2>3 DEF Answered
<1>2. CASE beginShare(c)
  <2> DEFINE s == [IdleCall EXCEPT !.pc = "share", !.version = policy.version,
                                   !.shared = policy.shared]
  <2>1. s \in Call /\ s.pc = "share" /\ s.version = policy.version
    BY <1>0 DEF Call, PCs
  <2>2. Start(c, s) /\ policy.version \in published
    BY <1>2, <1>p DEF beginShare
  <2> HIDE DEF s
  <2> QED BY <1>s, <2>1, <2>2
<1>3. CASE beginRevoke(c)
  <2> DEFINE s == [IdleCall EXCEPT !.pc = "revoke", !.shared = policy.shared]
  <2>1. s \in Call /\ s.pc = "revoke"
    BY <1>0 DEF Call, PCs
  <2>2. Start(c, s)
    BY <1>3 DEF beginRevoke
  <2> HIDE DEF s
  <2> QED BY <1>s, <2>1, <2>2
<1>4. ASSUME NEW list \in RuleLists, beginAssign(c, list)
      PROVE  Inv'
  <2> DEFINE s == [IdleCall EXCEPT !.pc = "assign", !.seen = rules, !.list = list]
  <2>1. rules \in SUBSET (Rules \X Nat) /\ list \in SUBSET Rules
    BY <1>0 DEF TypeOK
  <2>2. s \in Call /\ s.pc = "assign"
    BY <1>0, <2>1 DEF Call, PCs
  <2>3. Start(c, s)
    BY <1>4 DEF beginAssign
  <2> HIDE DEF s
  <2> QED BY <1>s, <2>2, <2>3
<1> QED BY <1>1, <1>2, <1>3, <1>4 DEF Reader

\* A handler that ends leaves nothing behind that it read.
LEMMA CallEnds ==
    ASSUME Inv, NEW c \in Calls, call' = [call EXCEPT ![c] = IdleCall],
           published \subseteq published'
    PROVE  call' \in [Calls -> Call] /\ (\A d \in Calls : Reads(d))'
<1>1. IdleCall \in Call /\ IdleCall.pc = "idle"
  BY Idle
<1>2. call' \in [Calls -> Call] /\ call'[c] = IdleCall
      /\ \A d \in Calls : d # c => call'[d] = call[d]
  BY <1>1, CallTo DEF Inv
<1>3. ASSUME NEW d \in Calls PROVE Reads(d)'
  BY <1>1, <1>2 DEF Inv, Reads
<1> QED BY <1>2, <1>3

\* The end of a publication, by hand or by the job.
LEMMA PublishedInv ==
    ASSUME Inv, NEW from \in Days \cup {NoDay}, Published(from), pub.by # Nobody,
           pub.todo = {}, UNCHANGED <<vfrom, shares, rules, late, platform, today, started,
                                      faults, review>>,
           call' \in [Calls -> Call], (\A d \in Calls : Reads(d))', found' \in BOOLEAN,
           frozen' = frozen \/ frozen' = [frozen EXCEPT ![policy.version] = pub.targets]
    PROVE  Inv'
<1>1. /\ policy' \in PolicyRow /\ policy'.version = policy.version /\ policy'.status = "published"
      /\ acc' \in [Versions \X Users -> Seq(AccRow)]
      /\ pub' = NoPub /\ published' = published \cup {policy.version}
  BY PublishedType DEF Inv, Published, TypeOK, PolicyRow
<1>2. policy.version \in Versions /\ pub.targets \subseteq Employees
  BY PubFields DEF Inv, TypeOK, PolicyRow
<1>3. frozen' \in [Versions -> SUBSET Employees]
      /\ \A v \in Versions : frozen'[v] = frozen[v]
                             \/ (v = policy.version /\ frozen'[v] = pub.targets)
  BY <1>2 DEF Inv, TypeOK
<1>4. TypeOK'
  <2>1. published' \subseteq Versions
    BY <1>1, <1>2 DEF Inv, TypeOK
  <2> QED BY <1>1, <1>3, <2>1, PublishedType DEF Inv, TypeOK
<1>5. \A k \in Versions \X Users :
         /\ acc[k] # << >> => acc'[k] # << >>
         /\ acc'[k] # << >> => acc[k] # << >> \/ k[1] = policy.version
         /\ k[1] = policy.version /\ k[2] \in pub.new => acc'[k] # << >>
  <2>1. ASSUME NEW k \in Versions \X Users
        PROVE  acc'[k] = acc[k] \/ (k[1] = policy.version /\ acc'[k] # << >>)
    <3>1. CASE k[1] = policy.version /\ k[2] \in pub.new
      <4>1. PICK x : acc[k] \in Seq(AccRow) /\ acc'[k] = Append(acc[k], x)
        BY <3>1, PublishedType DEF Inv, TypeOK
      <4>2. Append(acc[k], x) # << >>
        BY <4>1
      <4> QED BY <3>1, <4>1, <4>2
    <3>2. CASE ~(k[1] = policy.version /\ k[2] \in pub.new)
      BY <3>2, PublishedType DEF Inv
    <3> QED BY <3>1, <3>2
  <2>2. ASSUME NEW k \in Versions \X Users, k[1] = policy.version, k[2] \in pub.new
        PROVE  acc'[k] # << >>
    <3>1. acc[k] \in Seq(AccRow)
          /\ acc'[k] = Append(acc[k], [status |-> "pending", due |-> DueAt(k[1])])
      BY <2>2, PublishedType DEF Inv, TypeOK
    <3> QED BY <3>1
  <2> QED BY <2>1, <2>2
<1>6. RowInv' /\ LockHeld' /\ TargetsAsked'
  <2>1. policy.status \in {"approved", "scheduled"}
    BY DEF Inv, LockHeld
  <2>2. InForceWasReviewed'
    BY <1>1, <2>1 DEF Inv, RowInv, InForceWasReviewed, Reviewed
  <2> QED BY <1>1, <2>2 DEF RowInv, LockHeld, TargetsAsked, NoPub
<1>7. AnswersArePublished'
  BY <1>1, <1>5 DEF Inv, AnswersArePublished, TypeOK
<1>8. SharedWasPublished'
  BY <1>1 DEF Inv, SharedWasPublished
<1>9. SnapshotWasAsked'
  <2>1. ASSUME NEW v \in Versions, NEW u \in Users, u \in frozen'[v]
        PROVE  acc'[v, u] # << >>
    <3>1. CASE u \in frozen[v]
      BY <1>5, <3>1 DEF Inv, SnapshotWasAsked
    <3>2. CASE v = policy.version /\ u \in pub.targets
      <4>1. u \in pub.new \/ acc[v, u] # << >>
        BY <3>2 DEF Inv, TargetsAsked
      <4> QED BY <1>5, <3>2, <4>1
    <3> QED BY <1>3, <2>1, <3>1, <3>2
  <2> QED BY <2>1 DEF SnapshotWasAsked
<1> QED BY <1>4, <1>6, <1>7, <1>8, <1>9 DEF Inv

\* The step that answers, with the counter, under the free lock.
LEMMA AnswerInv ==
    ASSUME Inv, NEW c \in Calls, answer(c)
    PROVE  Inv'
<1>1. call[c].user \in Users /\ call[c].version \in published /\ TypeOK
  BY DEF Inv, Reads, answer
<1>k. PICK k : k = <<call[c].version, call[c].user>>
  OBVIOUS
<1>2. /\ k \in Versions \X Users /\ acc[k] \in Seq(AccRow)
      /\ acc' \in [Versions \X Users -> Seq(AccRow)]
      /\ acc'[k] = AnswerOn(acc[k], call[c].row, call[c].to)
      /\ \A h \in Versions \X Users : h # k => acc'[h] = acc[h]
  <2>0. call[c].version \in Versions /\ call[c].to \in Answered /\ call[c].row \in Nat
    BY <1>1, CallFields
  <2>1. k \in Versions \X Users /\ acc[k] \in Seq(AccRow) /\ DOMAIN acc = Versions \X Users
    BY <1>1, <1>k, <2>0 DEF TypeOK
  <2>2. acc' = [acc EXCEPT ![k] = AnswerOn(acc[k], call[c].row, call[c].to)]
    BY <1>k DEF answer, AnswerOn
  <2>3. AnswerOn(acc[k], call[c].row, call[c].to) \in Seq(AccRow)
    <3>1. \A s \in Seq(AccRow), row \in Nat, to \in Answered :
             AnswerOn(s, row, to) \in Seq(AccRow)
      BY AnsweredRow
    <3> QED BY <2>0, <2>1, <3>1
  <2>4. acc' \in [Versions \X Users -> Seq(AccRow)]
    BY <1>1, <2>1, <2>2, <2>3 DEF TypeOK
  <2> QED BY <2>1, <2>2, <2>4
<1>3. acc[k] # << >> => acc'[k] # << >>
  <2>1. \A s \in Seq(AccRow), row \in Nat, to \in Answered :
           s # << >> => AnswerOn(s, row, to) # << >>
    BY AnsweredRow
  <2> QED BY <1>1, <1>2, <2>1, CallFields
<1>4. k[1] \in published
  BY <1>1, <1>k
<1>5. \A h \in Versions \X Users :
         (acc[h] # << >> => acc'[h] # << >>) /\ (acc'[h] # << >> => acc[h] # << >> \/ h[1] \in published)
  BY <1>2, <1>3, <1>4
<1>6. policy' \in PolicyRow /\ policy'.status = policy.status /\ policy'.version = policy.version
      /\ policy'.by = policy.by
  <2>1. policy \in PolicyRow /\ policy' = [policy EXCEPT !.count = policy.count + 1]
    BY <1>1 DEF answer, TypeOK
  <2> QED BY <2>1 DEF PolicyRow
<1>7. UNCHANGED <<vfrom, frozen, shares, rules, pub, found, late, platform, today,
                  started, faults, review, published>> /\ Unlocked
  BY DEF answer
<1>8. call' \in [Calls -> Call] /\ (\A d \in Calls : Reads(d))'
  BY <1>7, CallEnds DEF answer
<1>9. TypeOK'
  BY <1>1, <1>2, <1>6, <1>7, <1>8 DEF TypeOK
<1>10. RowInv' /\ LockHeld' /\ TargetsAsked'
  BY <1>6, <1>7 DEF Inv, RowInv, InForceWasReviewed, LockHeld, TargetsAsked, Unlocked, NoPub
<1>11. AnswersArePublished'
  BY <1>1, <1>2, <1>5, <1>7 DEF Inv, AnswersArePublished, TypeOK
<1>12. SharedWasPublished' /\ SnapshotWasAsked'
  BY <1>5, <1>7 DEF Inv, SharedWasPublished, SnapshotWasAsked
<1> QED BY <1>8, <1>9, <1>10, <1>11, <1>12 DEF Inv

\* The flag is written under the free lock, or not at all.
LEMMA SetSharedInv ==
    ASSUME Inv, NEW c \in Calls, NEW flag \in BOOLEAN, SetShared(c, flag),
           shares' \in Seq(Share), SharedWasPublished'
    PROVE  Inv'
<1>1. /\ policy' \in PolicyRow /\ policy'.status = policy.status
      /\ policy'.version = policy.version /\ policy'.by = policy.by
      /\ policy'.deleted = policy.deleted
  BY DEF SetShared, Inv, TypeOK, PolicyRow
<1>2. UNCHANGED <<vfrom, frozen, acc, rules, pub, found, late, platform, today,
                  started, faults, review, published>>
  BY DEF SetShared
<1>3. call' \in [Calls -> Call] /\ (\A d \in Calls : Reads(d))'
  BY <1>2, CallEnds DEF SetShared
<1>4. TypeOK'
  BY <1>1, <1>2, <1>3 DEF Inv, TypeOK
<1>5. RowInv' /\ LockHeld' /\ TargetsAsked'
  BY <1>1, <1>2 DEF Inv, RowInv, InForceWasReviewed, LockHeld, TargetsAsked, Visible
<1>6. AnswersArePublished' /\ SnapshotWasAsked'
  BY <1>2 DEF Inv, AnswersArePublished, SnapshotWasAsked
<1> QED BY <1>3, <1>4, <1>5, <1>6 DEF Inv

LEMMA ContinueInv ==
    ASSUME Inv, NEW c \in Calls, Continue(c)
    PROVE  Inv'
<1>0. TypeOK /\ Reads(c) /\ call[c] \in Call
  BY DEF Inv, TypeOK
<1>1. CASE findAcceptance(c)
  <2>1. call[c].user \in Users /\ call[c].version \in published /\ call[c].version \in Versions
    BY <1>0, <1>1 DEF Reads, findAcceptance, Call
  <2> DEFINE rows == acc[call[c].version, call[c].user]
  <2>2. rows \in Seq(AccRow) /\ DOMAIN rows \subseteq Nat
    <3>1. \A v \in Versions, u \in Users : acc[v, u] \in Seq(AccRow)
      BY <1>0 DEF TypeOK
    <3>2. rows \in Seq(AccRow)
      BY <2>1, <3>1
    <3> HIDE DEF rows
    <3> QED BY <3>2, LenProperties
  <2>3. PICK i \in Nat : call' = [call EXCEPT ![c] = IdleCall]
                          \/ call' = [call EXCEPT ![c] = [call[c] EXCEPT !.pc = "answer", !.row = i]]
    <3>1. PICK i \in (IF rows = << >> THEN {0} ELSE DOMAIN rows) :
              call' = [call EXCEPT ![c] =
                  IF call[c].pc = "accept" /\ i # 0 /\ rows[i].status \in Answered
                  THEN IdleCall ELSE [call[c] EXCEPT !.pc = "answer", !.row = i]]
      BY <1>1 DEF findAcceptance
    <3> HIDE DEF rows
    <3>2. i \in Nat
      BY <2>2, <3>1
    <3> QED BY <3>1, <3>2 DEF rows
  <2> DEFINE s == [call[c] EXCEPT !.pc = "answer", !.row = i]
  <2>4. s \in Call /\ s.user = call[c].user /\ s.version = call[c].version
    BY <1>0 DEF Call, PCs
  <2>5. UNCHANGED db /\ started' \in 0..MaxCalls
    BY <1>0, <1>1 DEF findAcceptance, TypeOK
  <2>6. IdleCall \in Call /\ IdleCall.pc = "idle"
    BY Idle
  <2> HIDE DEF s
  <2>7. CASE call' = [call EXCEPT ![c] = IdleCall]
    BY <2>5, <2>6, <2>7, CallStep
  <2>8. CASE call' = [call EXCEPT ![c] = s]
    BY <2>1, <2>4, <2>5, <2>8, CallStep
  <2> QED BY <2>3, <2>7, <2>8 DEF s
<1>2. CASE answer(c)
  BY <1>2, AnswerInv
<1>3. CASE createPublicShare(c)
  <2>1. call[c].version \in published /\ call[c].version \in Versions
    BY <1>0, <1>3 DEF Reads, createPublicShare, Call
  <2>2. [version |-> call[c].version, enabled |-> TRUE] \in Share
    BY <2>1 DEF Share
  <2>3. /\ shares' \in Seq(Share) /\ Len(shares') = Len(shares) + 1
        /\ \A i \in 1..Len(shares) : shares'[i] = shares[i]
        /\ shares'[Len(shares) + 1] = [version |-> call[c].version, enabled |-> TRUE]
        /\ DOMAIN shares = 1..Len(shares) /\ DOMAIN shares' = 1..Len(shares') /\ Len(shares) \in Nat
    BY <1>0, <1>3, <2>2, AppendProperties, LenProperties DEF TypeOK, createPublicShare
  <2>4. published' = published
    BY <1>3 DEF createPublicShare, SetShared
  <2>5. SharedWasPublished'
    <3>1. ASSUME NEW i \in DOMAIN shares' PROVE shares'[i].version \in published
      BY <2>1, <2>3 DEF Inv, SharedWasPublished
    <3> QED BY <2>4, <3>1 DEF SharedWasPublished
  <2> QED BY <1>3, <2>3, <2>5, SetSharedInv DEF createPublicShare
<1>4. CASE revokePublicShare(c)
  <2>1. /\ shares' \in Seq(Share) /\ DOMAIN shares' = DOMAIN shares
        /\ \A i \in DOMAIN shares : shares'[i].version = shares[i].version
    BY <1>0, <1>4, SharesOff DEF revokePublicShare
  <2>2. SharedWasPublished'
    BY <1>4, <2>1 DEF Inv, SharedWasPublished, revokePublicShare, SetShared
  <2> QED BY <1>4, <2>1, <2>2, SetSharedInv DEF revokePublicShare
<1>5. CASE updateAssignments(c)
  <2>1. UNCHANGED <<policy, vfrom, frozen, acc, shares, pub, found, late, platform, today,
                    started, faults, review, published>>
    BY <1>5 DEF updateAssignments
  <2>2. call' \in [Calls -> Call] /\ (\A d \in Calls : Reads(d))'
    BY <1>5, <2>1, CallEnds DEF updateAssignments
  <2>3. rules' \subseteq Rules \X Nat
    <3>1. rules \subseteq Rules \X Nat /\ call[c].list \subseteq Rules /\ started \in Nat
      BY <1>0, CallFields DEF TypeOK
    <3> QED BY <1>5, <3>1 DEF updateAssignments
  <2>4. TypeOK'
    BY <2>1, <2>2, <2>3, <1>0 DEF TypeOK
  <2>5. RowInv' /\ LockHeld' /\ TargetsAsked'
    BY <2>1 DEF Inv, RowInv, InForceWasReviewed, LockHeld, Visible, TargetsAsked
  <2>6. AnswersArePublished' /\ SharedWasPublished' /\ SnapshotWasAsked'
    BY <2>1 DEF Inv, AnswersArePublished, SharedWasPublished, SnapshotWasAsked
  <2> QED BY <2>2, <2>4, <2>5, <2>6 DEF Inv
<1>6. CASE commitPublish(c)
  <2> DEFINE from == IF policy.from = NoDay THEN today ELSE policy.from
  <2>1. from \in Days \cup {NoDay}
    BY <1>0 DEF TypeOK, PolicyRow
  <2>2. pub.by # Nobody /\ pub.todo = {} /\ Published(from) /\ frozen' = frozen
        /\ UNCHANGED <<vfrom, shares, rules, late, platform, today, started, faults, review>>
        /\ found' \in BOOLEAN
    BY <1>0, <1>6 DEF commitPublish, TypeOK
  <2>3. published \subseteq published'
    BY <1>6 DEF commitPublish, Published
  <2>4. call' \in [Calls -> Call] /\ (\A d \in Calls : Reads(d))'
    BY <1>6, <2>3, CallEnds DEF commitPublish
  <2> HIDE DEF from
  <2> QED BY <2>1, <2>2, <2>4, PublishedInv
<1> QED BY <1>1, <1>2, <1>3, <1>4, <1>5, <1>6 DEF Continue

\* A step that writes neither rows nor links, and no publication.
LEMMA QuietStep ==
    ASSUME Inv, TypeOK', UNCHANGED <<policy, frozen, acc, shares, call, pub, review, published>>
    PROVE  Inv'
<1>1. RowInv' /\ LockHeld' /\ TargetsAsked'
  BY DEF Inv, RowInv, InForceWasReviewed, LockHeld, Visible, TargetsAsked
<1>2. (\A c \in Calls : Reads(c))'
  BY DEF Inv, Reads
<1>3. AnswersArePublished' /\ SharedWasPublished' /\ SnapshotWasAsked'
  BY DEF Inv, AnswersArePublished, SharedWasPublished, SnapshotWasAsked
<1> QED BY <1>1, <1>2, <1>3 DEF Inv

\* A step of a publication that has not yet written, or its rollback.
LEMMA PubStep ==
    ASSUME Inv, TypeOK', LockHeld', TargetsAsked', (\A c \in Calls : Reads(c))',
           UNCHANGED <<policy, frozen, acc, shares, review, published>>
    PROVE  Inv'
<1>1. RowInv'
  BY DEF Inv, RowInv, InForceWasReviewed
<1>2. AnswersArePublished' /\ SharedWasPublished' /\ SnapshotWasAsked'
  BY DEF Inv, AnswersArePublished, SharedWasPublished, SnapshotWasAsked
<1> QED BY <1>1, <1>2 DEF Inv

LEMMA NoPubHolds == pub' = NoPub => LockHeld' /\ TargetsAsked'
BY DEF NoPub, LockHeld, TargetsAsked

\* What the overdue job does to every row.
LEMMA MarkedRows ==
    ASSUME TypeOK, markOverdue, NEW k \in Versions \X Users
    PROVE  /\ acc'[k] \in Seq(AccRow) /\ DOMAIN acc'[k] = DOMAIN acc[k]
           /\ (acc[k] = << >> <=> acc'[k] = << >>)
           /\ \A i \in DOMAIN acc[k] :
                 acc'[k][i] = acc[k][i] \/ acc[k][i].status = "pending"
<1>1. acc[k] \in Seq(AccRow) /\ DOMAIN acc = Versions \X Users
  BY DEF TypeOK
<1>2. acc'[k] = [i \in DOMAIN acc[k] |->
                   IF <<k, i>> \in late /\ acc[k][i].status = "pending"
                   THEN [acc[k][i] EXCEPT !.status = "overdue"] ELSE acc[k][i]]
  BY <1>1 DEF markOverdue
<1>3. DOMAIN acc[k] = 1..Len(acc[k]) /\ \A i \in DOMAIN acc[k] : acc[k][i] \in AccRow
  BY <1>1, LenProperties, ElementOfSeq
<1>4. ASSUME NEW r \in AccRow PROVE [r EXCEPT !.status = "overdue"] \in AccRow
  BY DEF AccRow, Open
<1>5. \A i \in DOMAIN acc[k] : acc'[k][i] \in AccRow
  BY <1>2, <1>3, <1>4
<1>6. DOMAIN acc'[k] = DOMAIN acc[k] /\ acc'[k] = [i \in DOMAIN acc[k] |-> acc'[k][i]]
  BY <1>2
<1>7. acc'[k] \in Seq(AccRow)
  <2>1. PICK s \in Seq(AccRow) : s = acc[k]
    BY <1>1
  <2>2. PICK t : t = acc'[k]
    OBVIOUS
  <2>3. DOMAIN t = DOMAIN s /\ t = [i \in DOMAIN s |-> t[i]] /\ \A i \in DOMAIN s : t[i] \in AccRow
    BY <1>5, <1>6, <2>1, <2>2
  <2>4. t \in Seq(AccRow)
    BY <2>3, MappedRows
  <2> QED BY <2>2, <2>4
<1>8. acc[k] = << >> <=> acc'[k] = << >>
  <2>1. \A s \in Seq(AccRow) : DOMAIN s = {} <=> s = << >>
    BY LenProperties, EmptySeq
  <2> QED BY <1>1, <1>6, <1>7, <2>1
<1>9. \A i \in DOMAIN acc[k] : acc'[k][i] = acc[k][i] \/ acc[k][i].status = "pending"
  BY <1>2
<1> QED BY <1>6, <1>7, <1>8, <1>9

LEMMA JobsInv ==
    ASSUME Inv, PublishJob \/ OverdueJob \/ RollbackScheduled \/ (\E u \in Users : generateObligation(u))
    PROVE  Inv'
<1>0. TypeOK
  BY DEF Inv
<1>1. CASE findScheduled
  <2>1. TypeOK'
    BY <1>0, <1>1 DEF findScheduled, TypeOK
  <2> QED BY <1>1, <2>1, QuietStep DEF findScheduled
<1>2. CASE lockScheduled
  <2>1. \/ pub' = pub
        \/ /\ Visible /\ policy.status = "scheduled"
           /\ pub' = [by |-> Job, targets |-> Targets, todo |-> Targets, new |-> {}]
    BY <1>2 DEF lockScheduled, BeginPublication
  <2>2. UNCHANGED <<policy, vfrom, frozen, acc, shares, rules, call, late, platform,
                    today, started, faults, review, published>>
        /\ (found' = found \/ found' = FALSE)
    BY <1>2 DEF lockScheduled
  <2>3. TypeOK'
    <3>1. Targets \in SUBSET Employees
      BY DEF Targets, Employees
    <3>2. pub' \in [by : Calls \cup {Job, Nobody}, targets : SUBSET Employees,
                    todo : SUBSET Employees, new : SUBSET Employees]
      BY <1>0, <2>1, <3>1 DEF TypeOK
    <3> QED BY <1>0, <2>2, <3>2 DEF TypeOK
  <2>4. LockHeld' /\ TargetsAsked'
    <3>1. CASE pub' = pub
      BY <2>2, <3>1 DEF Inv, LockHeld, TargetsAsked, Visible
    <3>2. CASE pub' # pub
      <4>1. pub'.targets = pub'.todo /\ Visible /\ policy.status = "scheduled"
        BY <2>1, <3>2
      <4>2. TargetsAsked'
        BY <4>1 DEF TargetsAsked
      <4>3. LockHeld'
        BY <2>2, <4>1 DEF LockHeld, Visible
      <4> QED BY <4>2, <4>3
    <3> QED BY <3>1, <3>2
  <2>5. (\A c \in Calls : Reads(c))'
    BY <2>2 DEF Inv, Reads
  <2> QED BY <2>2, <2>3, <2>4, <2>5, PubStep
<1>3. CASE commitScheduled
  <2>1. policy.from \in Days \cup {NoDay} /\ Job # Nobody
    BY <1>0 DEF TypeOK, PolicyRow
  <2>2. /\ Published(policy.from) /\ pub.by # Nobody /\ pub.todo = {} /\ found' \in BOOLEAN
        /\ UNCHANGED <<vfrom, shares, rules, late, platform, today, started, faults, review>>
        /\ frozen' = [frozen EXCEPT ![policy.version] = pub.targets] /\ call' = call
    BY <1>3, <2>1 DEF commitScheduled
  <2>3. published \subseteq published'
    BY <2>2 DEF Published
  <2>4. call' \in [Calls -> Call] /\ (\A d \in Calls : Reads(d))'
    BY <1>0, <2>2, <2>3 DEF Inv, Reads, TypeOK
  <2> QED BY <2>1, <2>2, <2>4, PublishedInv
<1>4. CASE findOverdue
  <2>1. late' \subseteq (Versions \X Users) \X Nat
    <3>1. \A k \in DOMAIN acc : k \in Versions \X Users /\ DOMAIN acc[k] \subseteq Nat
      BY <1>0, LenProperties DEF TypeOK
    <3> QED BY <1>4, <3>1 DEF findOverdue
  <2>2. UNCHANGED <<policy, vfrom, frozen, acc, shares, rules, call, pub, found, platform,
                    today, started, faults, review, published>>
    BY <1>4 DEF findOverdue
  <2>3. TypeOK'
    BY <1>0, <2>1, <2>2 DEF TypeOK
  <2> QED BY <2>2, <2>3, QuietStep
<1>5. CASE markOverdue
  <2>1. UNCHANGED <<policy, vfrom, frozen, shares, rules, call, pub, found, platform,
                    today, started, faults, review, published>> /\ late' = {}
    BY <1>5 DEF markOverdue
  <2>2. acc' \in [Versions \X Users -> Seq(AccRow)]
    <3>1. acc' = [k \in Versions \X Users |-> acc'[k]]
      BY <1>0, <1>5 DEF markOverdue, TypeOK
    <3> QED BY <1>0, <1>5, <3>1, MarkedRows
  <2>3. \A k \in Versions \X Users : acc[k] = << >> <=> acc'[k] = << >>
    BY <1>0, <1>5, MarkedRows
  <2>4. TypeOK'
    BY <1>0, <2>1, <2>2 DEF TypeOK
  <2>5. RowInv' /\ LockHeld' /\ (\A c \in Calls : Reads(c))'
    BY <2>1 DEF Inv, RowInv, InForceWasReviewed, LockHeld, Visible, Reads
  <2>6. TargetsAsked'
    <3>1. policy.version \in Versions /\ pub.targets \subseteq Users
      BY <1>0, PubFields DEF TypeOK, PolicyRow
    <3>2. ASSUME NEW u \in pub.targets, acc[policy.version, u] # << >>
          PROVE  acc'[policy.version, u] # << >>
      BY <2>3, <3>1, <3>2
    <3> QED BY <2>1, <3>2 DEF Inv, TargetsAsked
  <2>7. AnswersArePublished' /\ SharedWasPublished' /\ SnapshotWasAsked'
    <3>1. AnswersArePublished'
      BY <1>0, <2>1, <2>2, <2>3 DEF Inv, AnswersArePublished, TypeOK
    <3>2. SharedWasPublished'
      BY <2>1 DEF Inv, SharedWasPublished
    <3>3. SnapshotWasAsked'
      BY <2>1, <2>3 DEF Inv, SnapshotWasAsked
    <3> QED BY <3>1, <3>2, <3>3
  <2> QED BY <2>4, <2>5, <2>6, <2>7 DEF Inv
<1>6. CASE RollbackScheduled
  <2>1. pub' = NoPub \/ pub' = pub
    BY <1>6 DEF RollbackScheduled
  <2>2. UNCHANGED <<policy, vfrom, frozen, acc, shares, rules, call, late, platform,
                    today, started, review, published>>
        /\ found' = FALSE /\ faults < MaxFaults /\ faults' = faults + 1
    BY <1>6 DEF RollbackScheduled
  <2>3. faults' \in 0..MaxFaults
    <3>1. MaxFaults \in Nat
      OBVIOUS
    <3> QED BY <1>0, <2>2, <3>1 DEF TypeOK
  <2>4. TypeOK'
    BY <1>0, <2>1, <2>2, <2>3, PubFields DEF TypeOK
  <2>5. LockHeld' /\ TargetsAsked'
    BY <2>1, <2>2, NoPubHolds DEF Inv, LockHeld, TargetsAsked, Visible
  <2>6. (\A c \in Calls : Reads(c))'
    BY <2>2 DEF Inv, Reads
  <2> QED BY <2>2, <2>4, <2>5, <2>6, PubStep
<1>7. ASSUME NEW u \in Users, generateObligation(u) PROVE Inv'
  <2>1. UNCHANGED <<policy, vfrom, frozen, acc, shares, rules, call, found, late, platform,
                    today, started, faults, review, published>>
    BY <1>7 DEF generateObligation
  <2>2. /\ pub'.by = pub.by /\ pub'.targets = pub.targets /\ pub'.todo = pub.todo \ {u}
        /\ pub'.new = IF acc[policy.version, u] = << >> THEN pub.new \cup {u} ELSE pub.new
        /\ pub' \in [by : Calls \cup {Job, Nobody}, targets : SUBSET Employees,
                     todo : SUBSET Employees, new : SUBSET Employees]
    <3>1. pub \in [by : Calls \cup {Job, Nobody}, targets : SUBSET Employees,
                   todo : SUBSET Employees, new : SUBSET Employees] /\ u \in Employees
      BY <1>0, <1>7, PubFields DEF TypeOK, generateObligation
    <3> QED BY <1>7, <3>1 DEF generateObligation
  <2>3. TypeOK'
    BY <1>0, <2>1, <2>2 DEF TypeOK
  <2>4. LockHeld' /\ TargetsAsked'
    BY <2>1, <2>2 DEF Inv, LockHeld, Visible, TargetsAsked
  <2>5. (\A c \in Calls : Reads(c))'
    BY <2>1 DEF Inv, Reads
  <2> QED BY <2>1, <2>3, <2>4, <2>5, PubStep
<1> QED BY <1>1, <1>2, <1>3, <1>4, <1>5, <1>6, <1>7 DEF PublishJob, OverdueJob

LEMMA RollbackInv ==
    ASSUME Inv, NEW c \in Calls, Rollback(c)
    PROVE  Inv'
<1>1. pub' = NoPub \/ pub' = pub
  BY DEF Rollback
<1>2. UNCHANGED <<policy, vfrom, frozen, acc, shares, rules, found, late, platform,
                  today, started, review, published>>
      /\ faults < MaxFaults /\ faults' = faults + 1 /\ call' = [call EXCEPT ![c] = IdleCall]
  BY DEF Rollback
<1>3. faults' \in 0..MaxFaults
  <2>1. MaxFaults \in Nat
    OBVIOUS
  <2> QED BY <1>2, <2>1 DEF Inv, TypeOK
<1>4. call' \in [Calls -> Call] /\ (\A d \in Calls : Reads(d))'
  BY <1>2, CallEnds
<1>5. TypeOK'
  BY <1>1, <1>2, <1>3, <1>4, PubFields DEF Inv, TypeOK
<1>6. LockHeld' /\ TargetsAsked'
  BY <1>1, <1>2, NoPubHolds DEF Inv, LockHeld, TargetsAsked, Visible
<1> QED BY <1>2, <1>4, <1>5, <1>6, PubStep

LEMMA NextInv == Inv /\ [Next]_vars => Inv'
<1> SUFFICES ASSUME Inv, [Next]_vars PROVE Inv'
  OBVIOUS
<1>1. ASSUME NEW c \in Calls, Workflow(c) \/ Reader(c) \/ Continue(c) \/ Rollback(c)
      PROVE  Inv'
  BY <1>1, WorkflowInv, ReaderInv, ContinueInv, RollbackInv
<1>2. CASE (\E u \in Users : generateObligation(u)) \/ PublishJob \/ OverdueJob \/ RollbackScheduled
  BY <1>2, JobsInv
<1>3. CASE NextDay
  <2>1. TypeOK'
    <3>1. today' \in Days
      BY <1>3 DEF NextDay, Inv, TypeOK, Days
    <3> QED BY <1>3, <3>1 DEF NextDay, Inv, TypeOK
  <2> QED BY <1>3, <2>1, QuietStep DEF NextDay
<1>4. CASE Switch
  <2>1. TypeOK'
    <3>1. faults' \in 0..MaxFaults /\ platform' \in Platform
      <4>1. MaxFaults \in Nat /\ platform \in Platform
        BY DEF Inv, TypeOK
      <4>2. platform' \in Platform
        BY <1>4, <4>1 DEF Switch, Platform
      <4> QED BY <1>4, <4>1, <4>2 DEF Switch, Inv, TypeOK
    <3> QED BY <1>4, <3>1 DEF Switch, Inv, TypeOK
  <2> QED BY <1>4, <2>1, QuietStep DEF Switch
<1>5. CASE UNCHANGED vars
  <2>1. TypeOK'
    BY <1>5 DEF vars, Inv, TypeOK
  <2> QED BY <1>5, <2>1, QuietStep DEF vars
<1> QED BY <1>1, <1>2, <1>3, <1>4, <1>5 DEF Next

-----------------------------------------------------------------------------
(* Theorems *)

LEMMA Invariance == Spec => []Inv
<1>1. Init => Inv
  BY InitInv
<1>2. Inv /\ [Next]_vars => Inv'
  BY NextInv
<1> QED BY <1>1, <1>2, PTL DEF Spec

\* Every variable stays within its type (the rows of policy.service.ts and
\* policy.acceptance.service.ts), whatever is in flight.
THEOREM TypeCorrect == Spec => []TypeOK
<1>1. Inv => TypeOK
  BY DEF Inv
<1> QED BY <1>1, Invariance, PTL

\* What is approved, scheduled or in force is the text that somebody other than
\* its submitter approved (approvePolicy), by hand or by the job, for any number
\* of edits, restored versions, handlers and days.
THEOREM ReviewedInForce == Spec => []InForceWasReviewed
<1>1. Inv => InForceWasReviewed
  BY DEF Inv, RowInv
<1> QED BY <1>1, Invariance, PTL

\* No acceptance row is of a version that was never published, although accept
\* and sign read the document without a lock.
THEOREM OnlyPublishedAnswered == Spec => []AnswersArePublished
<1>1. Inv => AnswersArePublished
  BY DEF Inv
<1> QED BY <1>1, Invariance, PTL

\* No public link leads to a version that was never published, although
\* createPublicShare reads the document without a lock.
THEOREM OnlyPublishedShared == Spec => []SharedWasPublished
<1>1. Inv => SharedWasPublished
  BY DEF Inv
<1> QED BY <1>1, Invariance, PTL

\* The frozen assignment of an automatic publication and the obligations it
\* wrote agree, whatever updateAssignments and the readers did meanwhile.
THEOREM SnapshotAsked == Spec => []SnapshotWasAsked
<1>1. Inv => SnapshotWasAsked
  BY DEF Inv
<1> QED BY <1>1, Invariance, PTL

\* Which steps write acceptance rows.
LEMMA RowsChange ==
    ASSUME TypeOK, [Next]_vars
    PROVE  \/ acc' = acc
           \/ \E c \in Calls : answer(c)
           \/ markOverdue
           \/ \E from \in Days \cup {NoDay} : Published(from)
<1>1. ASSUME NEW c \in Calls, Workflow(c) \/ Reader(c) \/ Rollback(c) PROVE acc' = acc
  BY <1>1 DEF Workflow, Reader, Rollback, updatePolicy, restoreVersion, NewVersion, deletePolicy,
     restorePolicy, submitForReview, requestChanges, approvePolicy, schedulePolicy,
     unpublishPolicy, supersedePolicy, archivePolicy, Move, rest, beginPublish,
     beginAccept, beginSign, beginShare, beginRevoke, beginAssign, Start, db
<1>2. ASSUME NEW c \in Calls, Continue(c), ~answer(c), ~commitPublish(c) PROVE acc' = acc
  BY <1>2 DEF Continue, findAcceptance, createPublicShare, revokePublicShare, SetShared,
     updateAssignments, db
<1>3. ASSUME findScheduled \/ lockScheduled \/ findOverdue \/ RollbackScheduled \/ NextDay
             \/ Switch \/ (\E u \in Users : generateObligation(u)) \/ UNCHANGED vars
      PROVE  acc' = acc
  BY <1>3 DEF findScheduled, lockScheduled, findOverdue, RollbackScheduled, NextDay, Switch,
     generateObligation, vars
<1>4. ASSUME (\E c \in Calls : commitPublish(c)) \/ commitScheduled
      PROVE  \E from \in Days \cup {NoDay} : Published(from)
  <2>1. policy.from \in Days \cup {NoDay} /\ today \in Days
    BY DEF TypeOK, PolicyRow
  <2> QED BY <1>4, <2>1 DEF commitPublish, commitScheduled
<1> QED BY <1>1, <1>2, <1>3, <1>4 DEF Next, PublishJob, OverdueJob

\* None of them takes an answer back.
LEMMA AnswerStep ==
    ASSUME Inv, [Next]_vars, NEW k \in DOMAIN acc, NEW i \in DOMAIN acc[k],
           acc[k][i].status \in Answered
    PROVE  acc'[k][i].status \in Answered
<1>1. k \in Versions \X Users /\ acc[k] \in Seq(AccRow) /\ TypeOK
  BY DEF Inv, TypeOK
<1>2. ASSUME NEW from \in Days \cup {NoDay}, Published(from)
      PROVE  acc'[k][i] = acc[k][i]
  <2>1. \/ acc'[k] = acc[k]
        \/ k[1] = policy.version
           /\ acc'[k] = Append(acc[k], [status |-> "pending", due |-> DueAt(k[1])])
    BY <1>1, <1>2, PublishedType
  <2>2. Len(acc[k]) \in Nat /\ DOMAIN acc[k] = 1..Len(acc[k])
    BY <1>1, LenProperties
  <2> QED BY <1>1, <2>1, <2>2
<1>3. ASSUME NEW c \in Calls, answer(c) PROVE acc'[k][i].status \in Answered
  <2>1. call[c].row \in Nat /\ call[c].to \in Answered
    BY <1>1, CallFields
  <2>2. acc'[k] = acc[k] \/ acc'[k] = AnswerOn(acc[k], call[c].row, call[c].to)
    BY <1>1, <1>3 DEF answer, AnswerOn, TypeOK
  <2>4. AnswerOn(acc[k], call[c].row, call[c].to)[i] = acc[k][i]
        \/ AnswerOn(acc[k], call[c].row, call[c].to)[i].status = call[c].to
    BY <1>1, <2>1, AnswerKeeps
  <2> QED BY <2>1, <2>2, <2>4
<1>4. CASE markOverdue
  BY <1>1, <1>4, MarkedRows DEF Answered
<1> QED BY <1>1, <1>2, <1>3, <1>4, RowsChange

\* An accepted or signed row stays so: the overdue job, which writes a list it
\* read earlier, repeats the condition on the status.
THEOREM AnswersFinal == Spec => AnswerIsFinal
<1>1. Inv /\ [Next]_vars =>
         [\A k \in DOMAIN acc : \A i \in DOMAIN acc[k] :
             acc[k][i].status \in Answered => acc'[k][i].status \in Answered]_vars
  BY AnswerStep
<1> QED BY <1>1, Invariance, PTL DEF Spec, AnswerIsFinal

LEMMA InitImplements == Init => Promise!Init
BY DEF Init, Promise!Init, Stage, Visible, NoReview, Promise!NoReview

\* A step of the rows that matter is a step of the promise.
LEMMA StepImplements == Inv /\ [Next]_vars => [Promise!Next]_Promise!vars
<1> SUFFICES ASSUME Inv, [Next]_vars PROVE Promise!Next \/ UNCHANGED Promise!vars
  OBVIOUS
<1>0. TypeOK /\ policy \in PolicyRow
  BY DEF Inv, TypeOK
<1>s. ASSUME policy'.status = policy.status, policy'.deleted = policy.deleted,
             policy'.version = policy.version, review' = review
      PROVE  UNCHANGED Promise!vars
  BY <1>s DEF Promise!vars, Stage, Visible
<1>1. ASSUME NEW c \in Calls, Workflow(c) PROVE Promise!Next \/ UNCHANGED Promise!vars
  <2>1. ASSUME NEW from, NEW to \in {"draft", "changes_requested"}, NEW sig, NEW day,
               NewVersion(c, from, to, sig, day)
        PROVE  Promise!Next
    <3>1. policy'.version = policy.version + 1 /\ policy'.status = to /\ ~policy'.deleted
          /\ review' = review
      BY <1>0, <2>1 DEF NewVersion, PolicyRow, Visible
    <3>2. Stage' = "editing"
      BY <2>1, <3>1 DEF Stage, Visible
    <3> QED BY <3>1, <3>2 DEF Promise!Next, Promise!Edit
  <2>2. ASSUME NEW sig \in BOOLEAN, NEW day, updatePolicy(c, sig, day) PROVE Promise!Next
    <3>1. policy.status \in {"draft", "changes_requested"}
      BY <2>2 DEF updatePolicy, NewVersion
    <3> QED BY <2>1, <2>2, <3>1 DEF updatePolicy
  <2>3. CASE restoreVersion(c)
    BY <2>1, <2>3 DEF restoreVersion
  <2>4. ASSUME NEW from, NEW row, Move(c, from, row),
               row.version = policy.version,
               row.deleted \/ row.status \in {"archived", "superseded"}
        PROVE  Promise!Next
    <3>1. Stage' = "withdrawn" /\ policy'.version = policy.version /\ review' = review
      BY <2>4 DEF Move, Stage, Visible
    <3> QED BY <3>1 DEF Promise!Next, Promise!Withdraw
  <2>5. CASE deletePolicy(c) \/ supersedePolicy(c) \/ archivePolicy(c)
    <3>1. /\ [policy EXCEPT !.deleted = TRUE].version = policy.version
          /\ [policy EXCEPT !.deleted = TRUE].deleted
          /\ [policy EXCEPT !.status = "superseded"].version = policy.version
          /\ [policy EXCEPT !.status = "superseded"].status = "superseded"
          /\ [policy EXCEPT !.status = "archived", !.shared = FALSE].version = policy.version
          /\ [policy EXCEPT !.status = "archived", !.shared = FALSE].status = "archived"
      BY <1>0 DEF PolicyRow
    <3> QED BY <2>4, <2>5, <3>1 DEF deletePolicy, supersedePolicy, archivePolicy
  <2>6. CASE restorePolicy(c)
    <3>1. /\ Stage = "withdrawn" /\ Stage' = "editing"
          /\ policy'.version = policy.version /\ review' = review
      BY <1>0, <2>6 DEF restorePolicy, Stage, Visible, PolicyRow
    <3> QED BY <3>1 DEF Promise!Next, Promise!Reopen
  <2>7. ASSUME NEW from, NEW row, Move(c, from, row), row.version = policy.version,
               row.deleted = policy.deleted,
               \/ /\ policy.status \in {"draft", "in_review", "changes_requested"}
                  /\ row.status \in {"draft", "in_review", "changes_requested"}
               \/ policy.status = "approved" /\ row.status = "scheduled"
        PROVE  UNCHANGED Promise!vars
    <3>1. Stage' = Stage
      BY <2>7 DEF Move, Stage, Visible
    <3> QED BY <2>7, <3>1 DEF Promise!vars, Move
  <2>8. ASSUME NEW u \in Users, submitForReview(c, u) PROVE UNCHANGED Promise!vars
    <3>1. /\ [policy EXCEPT !.status = "in_review", !.by = u].status = "in_review"
          /\ [policy EXCEPT !.status = "in_review", !.by = u].version = policy.version
          /\ [policy EXCEPT !.status = "in_review", !.by = u].deleted = policy.deleted
      BY <1>0 DEF PolicyRow
    <3>2. policy.status \in {"draft", "changes_requested"}
      BY <2>8 DEF submitForReview, Move
    <3> QED BY <2>7, <2>8, <3>1, <3>2 DEF submitForReview
  <2>9. CASE requestChanges(c)
    <3>1. /\ [policy EXCEPT !.status = "changes_requested"].status = "changes_requested"
          /\ [policy EXCEPT !.status = "changes_requested"].version = policy.version
          /\ [policy EXCEPT !.status = "changes_requested"].deleted = policy.deleted
      BY <1>0 DEF PolicyRow
    <3>2. policy.status = "in_review"
      BY <2>9 DEF requestChanges, Move
    <3> QED BY <2>7, <2>9, <3>1, <3>2 DEF requestChanges
  <2>10. ASSUME NEW day \in Days, schedulePolicy(c, day) PROVE UNCHANGED Promise!vars
    <3>1. /\ [policy EXCEPT !.status = "scheduled", !.from = day].status = "scheduled"
          /\ [policy EXCEPT !.status = "scheduled", !.from = day].version = policy.version
          /\ [policy EXCEPT !.status = "scheduled", !.from = day].deleted = policy.deleted
      BY <1>0 DEF PolicyRow
    <3>2. policy.status = "approved"
      BY <2>10 DEF schedulePolicy, Move
    <3> QED BY <2>7, <2>10, <3>1, <3>2 DEF schedulePolicy
  <2>11. ASSUME NEW u \in Users, approvePolicy(c, u) PROVE Promise!Next
    <3>1. /\ policy'.status = "approved" /\ policy'.version = policy.version
          /\ policy'.deleted = policy.deleted
          /\ review' = [text |-> policy.version, by |-> policy.by, reviewer |-> u]
          /\ policy.status = "in_review" /\ ~policy.deleted
          /\ (policy.by # u \/ u \in SuperAdmins)
      BY <1>0, <2>11 DEF approvePolicy, PolicyRow, Visible
    <3>2. policy.by \in Users
      BY <3>1 DEF Inv, RowInv
    <3>3. Stage = "editing" /\ Stage' = "reviewed"
      BY <3>1 DEF Stage, Visible
    <3>4. Promise!Review(policy.by, u)
      BY <3>1, <3>3 DEF Promise!Review
    <3> QED BY <3>2, <3>4 DEF Promise!Next
  <2>12. CASE unpublishPolicy(c)
    <3>1. /\ policy'.status = "approved" /\ policy'.version = policy.version
          /\ policy'.deleted = policy.deleted /\ review' = review
          /\ policy.status = "published" /\ ~policy.deleted
      BY <1>0, <2>12 DEF unpublishPolicy, PolicyRow, Visible
    <3>2. Stage = "inForce" /\ Stage' = "reviewed"
      BY <3>1 DEF Stage, Visible
    <3> QED BY <3>1, <3>2 DEF Promise!Next, Promise!Suspend
  <2>13. CASE beginPublish(c)
    BY <1>s, <2>13 DEF beginPublish
  <2> QED BY <1>1, <2>2, <2>3, <2>5, <2>6, <2>8, <2>9, <2>10, <2>11, <2>12, <2>13 DEF Workflow
<1>2. ASSUME NEW from, Published(from), pub.by # Nobody, review' = review PROVE Promise!Next
  <2>1. /\ policy'.status = "published" /\ policy'.version = policy.version
        /\ policy'.deleted = policy.deleted
    BY <1>0, <1>2 DEF Published, PolicyRow
  <2>2. ~policy.deleted /\ policy.status \in {"approved", "scheduled"}
    BY <1>2 DEF Inv, LockHeld, Visible
  <2>3. Stage = "reviewed" /\ Stage' = "inForce"
    BY <2>1, <2>2 DEF Stage, Visible
  <2> QED BY <1>2, <2>1, <2>3 DEF Promise!Next, Promise!Enforce
<1>3. ASSUME NEW c \in Calls, Reader(c) \/ Rollback(c) PROVE UNCHANGED Promise!vars
  <2>1. policy' = policy /\ review' = review
    BY <1>3 DEF Reader, Rollback, beginAccept, beginSign, beginShare, beginRevoke, beginAssign,
       Start, db
  <2> QED BY <1>s, <2>1
<1>4. ASSUME NEW c \in Calls, Continue(c) PROVE Promise!Next \/ UNCHANGED Promise!vars
  <2>1. CASE findAcceptance(c) \/ updateAssignments(c)
    BY <1>s, <2>1 DEF findAcceptance, updateAssignments, db
  <2>2. CASE answer(c) \/ createPublicShare(c) \/ revokePublicShare(c)
    <3>1. review' = review /\ \E n, b : policy' = [policy EXCEPT !.count = n]
                                          \/ policy' = [policy EXCEPT !.shared = b]
      BY <2>2 DEF answer, createPublicShare, revokePublicShare, SetShared
    <3>2. policy'.status = policy.status /\ policy'.deleted = policy.deleted
          /\ policy'.version = policy.version
      BY <1>0, <3>1 DEF PolicyRow
    <3> QED BY <1>s, <3>1, <3>2
  <2>3. CASE commitPublish(c)
    BY <1>2, <2>3 DEF commitPublish
  <2> QED BY <1>4, <2>1, <2>2, <2>3 DEF Continue
<1>5. CASE findScheduled \/ lockScheduled \/ OverdueJob \/ RollbackScheduled \/ NextDay
           \/ Switch \/ (\E u \in Users : generateObligation(u)) \/ UNCHANGED vars
  <2>1. policy' = policy /\ review' = review
    BY <1>5 DEF findScheduled, lockScheduled, OverdueJob, findOverdue, markOverdue,
       RollbackScheduled, NextDay, Switch, generateObligation, vars
  <2> QED BY <1>s, <2>1
<1>6. CASE commitScheduled
  BY <1>2, <1>6 DEF commitScheduled
<1> QED BY <1>1, <1>3, <1>4, <1>5, <1>6 DEF Next, PublishJob

\* The workflow with its locks, handlers, jobs and rollbacks does what
\* PolicyReview promises: a text is in force only while it is the reviewed one.
THEOREM Implements == Spec => ImplementsReview
<1>1. Init => Promise!Init
  BY InitImplements
<1>2. Inv /\ [Next]_vars => [Promise!Next]_Promise!vars
  BY StepImplements
<1> QED BY <1>1, <1>2, Invariance, PTL DEF Spec, ImplementsReview, Promise!Spec

-----------------------------------------------------------------------------
(* The counter of answers *)

\* The answered rows of a table of acceptances.
AnsweredIn(rows) ==
    UNION {{<<k, i>> : i \in {j \in DOMAIN rows[k] : rows[k][j].status \in Answered}}
              : k \in DOMAIN rows}

LEMMA AnsweredMember ==
    ASSUME NEW rows, NEW x
    PROVE  x \in AnsweredIn(rows)
             <=> \E k \in DOMAIN rows : \E i \in DOMAIN rows[k] :
                    rows[k][i].status \in Answered /\ x = <<k, i>>
BY DEF AnsweredIn

\* There are finitely many answers, and the counter is not behind them.
CountInv == IsFiniteSet(AnsweredRows) /\ CounterCoversAnswers

\* A step may add one answer if it counts it.
LEMMA CountStep ==
    ASSUME TypeOK, CountInv, NEW one, NEW n \in {0, 1},
           AnsweredRows' \subseteq AnsweredRows \cup (IF n = 0 THEN {} ELSE {one}),
           policy'.count = policy.count + n
    PROVE  CountInv'
<1>1. IsFiniteSet(AnsweredRows) /\ policy.count \in Nat
      /\ Cardinality(AnsweredRows) <= policy.count /\ Cardinality(AnsweredRows) \in Nat
  BY FS_CardinalityType DEF CountInv, CounterCoversAnswers, TypeOK, PolicyRow
<1> DEFINE more == AnsweredRows \cup (IF n = 0 THEN {} ELSE {one})
<1>2. IsFiniteSet(more) /\ Cardinality(more) \in Nat /\ Cardinality(more) <= policy.count + n
  <2>1. CASE n = 0
    <3>1. more = AnsweredRows
      BY <2>1
    <3> QED BY <1>1, <2>1, <3>1
  <2>2. CASE n = 1
    <3>1. more = AnsweredRows \cup {one}
      BY <2>2
    <3>2. IsFiniteSet(more) /\ Cardinality(more) <= Cardinality(AnsweredRows) + 1
      <4>1. /\ IsFiniteSet(AnsweredRows \cup {one})
            /\ Cardinality(AnsweredRows \cup {one})
                 = IF one \in AnsweredRows THEN Cardinality(AnsweredRows)
                   ELSE Cardinality(AnsweredRows) + 1
        BY <1>1, FS_AddElement
      <4> HIDE DEF more
      <4> QED BY <1>1, <3>1, <4>1
    <3>3. Cardinality(more) \in Nat
      BY <3>2, FS_CardinalityType
    <3> HIDE DEF more
    <3> QED BY <1>1, <2>2, <3>2, <3>3
  <2> QED BY <2>1, <2>2
<1>3. PICK after : after = AnsweredRows'
  OBVIOUS
<1>4. after \in SUBSET more
  BY <1>3
<1> HIDE DEF more
<1>5. IsFiniteSet(after) /\ Cardinality(after) <= Cardinality(more) /\ Cardinality(after) \in Nat
  BY <1>2, <1>4, FS_Subset, FS_CardinalityType
<1>6. Cardinality(after) <= policy.count + n
  BY <1>1, <1>2, <1>5
<1> QED BY <1>3, <1>5, <1>6 DEF CountInv, CounterCoversAnswers

\* Only the answer itself touches the counter.
LEMMA CountKept ==
    ASSUME TypeOK, [Next]_vars, ~ \E c \in Calls : answer(c)
    PROVE  policy'.count = policy.count
<1>0. policy \in PolicyRow
  BY DEF TypeOK
<1>1. ASSUME NEW c \in Calls, NEW from, NEW to, NEW sig, NEW day,
             NewVersion(c, from, to, sig, day)
      PROVE  policy'.count = policy.count
  <2>1. policy' = [policy EXCEPT !.version = policy.version + 1, !.status = to,
                                 !.sig = sig, !.from = day]
    BY <1>1 DEF NewVersion
  <2> QED BY <1>0, <2>1 DEF PolicyRow
<1>2. ASSUME NEW c \in Calls, Workflow(c) PROVE policy'.count = policy.count
  <2>1. CASE \E sig \in BOOLEAN, day \in Days \cup {NoDay} : updatePolicy(c, sig, day)
    BY <1>1, <2>1, Zenon DEF updatePolicy
  <2>2. CASE restoreVersion(c)
    BY <1>1, <2>2, Zenon DEF restoreVersion
  <2>3. CASE deletePolicy(c) \/ restorePolicy(c) \/ requestChanges(c)
    BY <1>0, <2>3 DEF deletePolicy, restorePolicy, requestChanges, Move, PolicyRow
  <2>4. CASE \E u \in Users : submitForReview(c, u) \/ approvePolicy(c, u)
    BY <1>0, <2>4 DEF submitForReview, approvePolicy, Move, PolicyRow
  <2>5. CASE \E day \in Days : schedulePolicy(c, day)
    BY <1>0, <2>5 DEF schedulePolicy, Move, PolicyRow
  <2>6. CASE unpublishPolicy(c) \/ supersedePolicy(c) \/ archivePolicy(c)
    BY <1>0, <2>6 DEF unpublishPolicy, supersedePolicy, archivePolicy, Move, PolicyRow
  <2>7. CASE beginPublish(c)
    BY <2>7 DEF beginPublish
  <2> QED BY <1>2, <2>1, <2>2, <2>3, <2>4, <2>5, <2>6, <2>7 DEF Workflow
<1>3. ASSUME NEW c \in Calls, Reader(c) \/ Rollback(c) PROVE policy'.count = policy.count
  BY <1>3 DEF Reader, Rollback, beginAccept, beginSign, beginShare, beginRevoke, beginAssign,
     Start, db
<1>4. ASSUME NEW from, Published(from) PROVE policy'.count = policy.count
  BY <1>0, <1>4 DEF Published, PolicyRow
<1>5. ASSUME NEW c \in Calls, NEW flag, SetShared(c, flag) PROVE policy'.count = policy.count
  BY <1>0, <1>5 DEF SetShared, PolicyRow
<1>6. ASSUME NEW c \in Calls, Continue(c) PROVE policy'.count = policy.count
  BY <1>4, <1>5, <1>6 DEF Continue, findAcceptance, createPublicShare, revokePublicShare,
     updateAssignments, commitPublish, db
<1>7. CASE PublishJob
  BY <1>4, <1>7 DEF PublishJob, findScheduled, lockScheduled, commitScheduled
<1>8. CASE OverdueJob \/ RollbackScheduled \/ NextDay \/ Switch
           \/ (\E u \in Users : generateObligation(u)) \/ UNCHANGED vars
  BY <1>8 DEF OverdueJob, findOverdue, markOverdue, RollbackScheduled, NextDay, Switch,
     generateObligation, vars
<1> QED BY <1>2, <1>3, <1>6, <1>7, <1>8 DEF Next

\* An answer writes one row of the list.
LEMMA AnswerPlace ==
    ASSUME NEW s \in Seq(AccRow), NEW row \in Nat, NEW to \in Answered
    PROVE  \E n : \A i \in DOMAIN AnswerOn(s, row, to) :
              i = n \/ (i \in DOMAIN s /\ AnswerOn(s, row, to)[i] = s[i])
<1>1. Len(s) \in Nat /\ DOMAIN s = 1..Len(s)
  BY LenProperties
<1>2. CASE row = 0
  <2> DEFINE new == [status |-> to, due |-> NoDay]
  <2>1. new \in AccRow
    BY DEF AccRow
  <2>2. AnswerOn(s, row, to) = Append(s, new)
    BY <1>2 DEF AnswerOn
  <2> HIDE DEF new
  <2>3. /\ DOMAIN Append(s, new) = 1..(Len(s) + 1)
        /\ \A i \in DOMAIN s : Append(s, new)[i] = s[i]
    BY <1>1, <2>1, AppendedRow, LenProperties
  <2>4. \A i \in 1..(Len(s) + 1) : i = Len(s) + 1 \/ i \in DOMAIN s
    BY <1>1
  <2> QED BY <2>2, <2>3, <2>4
<1>3. CASE row # 0
  <2>1. AnswerOn(s, row, to) = [s EXCEPT ![row].status = to]
    BY <1>3 DEF AnswerOn
  <2>2. \A i \in DOMAIN s : i = row \/ [s EXCEPT ![row].status = to][i] = s[i]
    BY <1>1
  <2> QED BY <2>1, <2>2
<1> QED BY <1>2, <1>3

LEMMA AnswerCounts ==
    ASSUME Inv, CountInv, NEW c \in Calls, answer(c)
    PROVE  CountInv'
<1>1. TypeOK /\ call[c].version \in published /\ call[c].user \in Users
      /\ call[c].version \in Versions /\ call[c].row \in Nat /\ call[c].to \in Answered
  BY CallFields DEF Inv, Reads, answer
<1>2. PICK k : k = <<call[c].version, call[c].user>>
  OBVIOUS
<1>3. k \in DOMAIN acc /\ acc[k] \in Seq(AccRow) /\ DOMAIN acc = Versions \X Users
  BY <1>1, <1>2 DEF TypeOK
<1>4. acc' = [acc EXCEPT ![k] = AnswerOn(acc[k], call[c].row, call[c].to)]
  BY <1>2 DEF answer, AnswerOn
<1>5. PICK n : \A i \in DOMAIN AnswerOn(acc[k], call[c].row, call[c].to) :
                  i = n \/ (i \in DOMAIN acc[k]
                            /\ AnswerOn(acc[k], call[c].row, call[c].to)[i] = acc[k][i])
  <2>1. PICK s \in Seq(AccRow), row \in Nat, to \in Answered :
            s = acc[k] /\ row = call[c].row /\ to = call[c].to
    BY <1>1, <1>3
  <2>2. PICK n : \A i \in DOMAIN AnswerOn(s, row, to) :
                    i = n \/ (i \in DOMAIN s /\ AnswerOn(s, row, to)[i] = s[i])
    BY AnswerPlace
  <2> QED BY <2>1, <2>2
<1>6. \A i \in DOMAIN acc'[k] : i = n \/ (i \in DOMAIN acc[k] /\ acc'[k][i] = acc[k][i])
  BY <1>3, <1>4, <1>5
<1>7. DOMAIN acc' = DOMAIN acc /\ \A h \in DOMAIN acc : h # k => acc'[h] = acc[h]
  BY <1>3, <1>4
<1>8. ASSUME NEW x \in AnsweredIn(acc') PROVE x \in AnsweredIn(acc) \/ x = <<k, n>>
  <2>1. PICK h \in DOMAIN acc' : \E i \in DOMAIN acc'[h] :
             acc'[h][i].status \in Answered /\ x = <<h, i>>
    BY <1>8, AnsweredMember
  <2>2. PICK i \in DOMAIN acc'[h] : acc'[h][i].status \in Answered /\ x = <<h, i>>
    BY <2>1
  <2>3. CASE h = k /\ i = n
    BY <2>2, <2>3
  <2>4. CASE ~ (h = k /\ i = n)
    <3>1. h \in DOMAIN acc /\ i \in DOMAIN acc[h] /\ acc'[h][i] = acc[h][i]
      BY <1>6, <1>7, <2>2, <2>4
    <3> QED BY <2>2, <3>1, AnsweredMember
  <2> QED BY <2>3, <2>4
<1>9. AnsweredRows' \subseteq AnsweredRows \cup {<<k, n>>}
  BY <1>8 DEF AnsweredRows, AnsweredIn
<1>10. policy'.count = policy.count + 1
  <2>1. policy \in PolicyRow /\ policy' = [policy EXCEPT !.count = policy.count + 1]
    BY <1>1 DEF answer, TypeOK
  <2> QED BY <2>1 DEF PolicyRow
<1> QED BY <1>1, <1>9, <1>10, CountStep

\* The other steps add rows that wait for an answer, or mark such rows late.
LEMMA NoNewAnswer ==
    ASSUME Inv, [Next]_vars, ~ \E c \in Calls : answer(c)
    PROVE  AnsweredRows' \subseteq AnsweredRows
<1>1. TypeOK /\ DOMAIN acc = Versions \X Users
  BY DEF Inv, TypeOK
<1>2. DOMAIN acc' = DOMAIN acc
  <2>1. ASSUME NEW from, Published(from) PROVE DOMAIN acc' = DOMAIN acc
    BY <2>1 DEF Published
  <2>2. CASE markOverdue
    BY <2>2 DEF markOverdue
  <2> QED BY <1>1, <2>1, <2>2, RowsChange
<1>3. ASSUME NEW k \in DOMAIN acc, NEW i \in DOMAIN acc'[k], acc'[k][i].status \in Answered
      PROVE  i \in DOMAIN acc[k] /\ acc[k][i].status \in Answered
  <2>1. acc[k] \in Seq(AccRow)
    BY <1>1 DEF TypeOK
  <2>2. Len(acc[k]) \in Nat /\ DOMAIN acc[k] = 1..Len(acc[k])
    BY <2>1, LenProperties
  <2>3. ASSUME NEW from \in Days \cup {NoDay}, Published(from)
        PROVE  i \in DOMAIN acc[k] /\ acc[k][i].status \in Answered
    <3> DEFINE new == [status |-> "pending", due |-> DueAt(k[1])]
    <3>1. acc'[k] = acc[k] \/ acc'[k] = Append(acc[k], new)
      BY <1>1, <2>3, PublishedType
    <3>2. new.status \notin Answered
      BY DEF Answered
    <3> HIDE DEF new
    <3>3. CASE acc'[k] = Append(acc[k], new)
      <4>1. i \in 1..(Len(acc[k]) + 1) /\ Append(acc[k], new)[Len(acc[k]) + 1] = new
        BY <2>1, <2>2, <3>3
      <4>2. i # Len(acc[k]) + 1
        BY <1>3, <3>2, <3>3, <4>1
      <4>3. i \in DOMAIN acc[k]
        BY <2>2, <4>1, <4>2
      <4> QED BY <1>3, <2>1, <2>2, <3>3, <4>3
    <3> QED BY <1>3, <3>1, <3>3
  <2>4. CASE markOverdue
    <3>1. acc'[k] = [j \in DOMAIN acc[k] |->
                       IF <<k, j>> \in late /\ acc[k][j].status = "pending"
                       THEN [acc[k][j] EXCEPT !.status = "overdue"] ELSE acc[k][j]]
      BY <2>4 DEF markOverdue
    <3>2. i \in DOMAIN acc[k] /\ acc[k][i] \in AccRow
      BY <2>1, <2>2, <3>1, ElementOfSeq
    <3>3. [acc[k][i] EXCEPT !.status = "overdue"].status = "overdue"
      BY <3>2 DEF AccRow
    <3> QED BY <1>3, <3>1, <3>2, <3>3 DEF Answered
  <2> QED BY <1>1, <1>3, <2>3, <2>4, RowsChange
<1>4. ASSUME NEW x \in AnsweredIn(acc') PROVE x \in AnsweredIn(acc)
  <2>1. PICK k \in DOMAIN acc' : \E i \in DOMAIN acc'[k] :
             acc'[k][i].status \in Answered /\ x = <<k, i>>
    BY <1>4, AnsweredMember
  <2> QED BY <1>2, <1>3, <2>1, AnsweredMember
<1> QED BY <1>4 DEF AnsweredRows, AnsweredIn

\* However readers, who lock nothing, interleave with publications, edits and the
\* overdue job, the counter on the document is never behind the answered rows.
THEOREM CounterCovers == Spec => []CounterCoversAnswers
<1>1. Init => CountInv
  <2> SUFFICES ASSUME Init PROVE CountInv
    OBVIOUS
  <2>1. AnsweredRows = {}
    BY DEF Init, AnsweredRows
  <2>2. policy.count = 0
    BY DEF Init
  <2> QED BY <2>1, <2>2, FS_EmptySet DEF CountInv, CounterCoversAnswers
<1>2. Inv /\ CountInv /\ [Next]_vars => CountInv'
  <2> SUFFICES ASSUME Inv, CountInv, [Next]_vars, ~ \E c \in Calls : answer(c)
               PROVE  CountInv'
    BY AnswerCounts
  <2>1. TypeOK /\ policy.count \in Nat
    BY DEF Inv, TypeOK, PolicyRow
  <2>2. policy'.count = policy.count + 0
    BY <2>1, CountKept
  <2> QED BY <2>1, <2>2, NoNewAnswer, CountStep
<1>3. CountInv => CounterCoversAnswers
  BY DEF CountInv
<1> QED BY <1>1, <1>2, <1>3, Invariance, PTL DEF Spec

-----------------------------------------------------------------------------
(* What PolicyReview promises *)

ReviewedStage ==
    Stage \in {"reviewed", "inForce"} =>
        /\ review.text = policy.version
        /\ review.by # review.reviewer \/ review.reviewer \in SuperAdmins

LEMMA PromiseNext == ReviewedStage /\ [Promise!Next]_(Promise!vars) => ReviewedStage'
<1> SUFFICES ASSUME ReviewedStage, [Promise!Next]_(Promise!vars) PROVE ReviewedStage'
  OBVIOUS
<1>2. CASE UNCHANGED Promise!vars
  BY <1>2 DEF Promise!vars, ReviewedStage
<1>3. ASSUME NEW by \in Users, NEW reviewer \in Users, Promise!Review(by, reviewer)
      PROVE  ReviewedStage'
  BY <1>3 DEF Promise!Review, ReviewedStage
<1>4. CASE Promise!Enforce \/ Promise!Suspend
  BY <1>4 DEF Promise!Enforce, Promise!Suspend, ReviewedStage
<1>5. CASE Promise!Edit \/ Promise!Withdraw \/ Promise!Reopen
  <2>1. Stage' \notin {"reviewed", "inForce"}
    BY <1>5 DEF Promise!Edit, Promise!Withdraw, Promise!Reopen
  <2> QED BY <2>1 DEF ReviewedStage
<1> QED BY <1>2, <1>3, <1>4, <1>5 DEF Promise!Next

\* The promise is enough: whoever keeps to the review, with whatever locks and
\* jobs, has nothing approved, scheduled or published, and not deleted, that is
\* not the text its reviewer saw or that its submitter reviewed himself.
THEOREM ReviewSuffices == ImplementsReview => [](Visible => InForceWasReviewed)
<1>1. Promise!Init => ReviewedStage
  BY DEF Promise!Init, ReviewedStage
<1>2. ReviewedStage => (Visible => InForceWasReviewed)
  <2> SUFFICES ASSUME ReviewedStage, Visible, policy.status \in Reviewed
               PROVE  Stage \in {"reviewed", "inForce"}
    BY DEF InForceWasReviewed, ReviewedStage
  <2>1. CASE policy.status = "published"
    BY <2>1 DEF Stage, Visible
  <2>2. CASE policy.status \in {"approved", "scheduled"}
    BY <2>2 DEF Stage, Visible
  <2> QED BY <2>1, <2>2 DEF Reviewed
<1> QED BY <1>1, <1>2, PromiseNext, PTL DEF ImplementsReview, Promise!Spec
=============================================================================
