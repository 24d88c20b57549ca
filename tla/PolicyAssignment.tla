-------------------------- MODULE PolicyAssignment --------------------------
(***************************************************************************)
(* Who a policy is assigned to. A rule includes or excludes a subject at   *)
(* one of five levels, from one employee to the whole company.             *)
(***************************************************************************)
EXTENDS Naturals

\* From the most specific level to the least.
Levels == <<"EMPLOYEE", "POSITION", "ROLE", "DEPARTMENT", "COMPANY">>

\* emp.subjects gives, for each level but the last, the identifiers that name
\* this employee there: none when the employee has no position or department.
Matching(level, emp, rules) ==
    {rule \in rules :
        /\ rule.level = level
        /\ level = "COMPANY" \/ rule.subject \in emp.subjects[level]}

\* The first level with a matching rule decides; there an exclusion wins.
resolveEmployeeAssignment(emp, rules) ==
    \E i \in DOMAIN Levels :
        /\ Matching(Levels[i], emp, rules) # {}
        /\ \A rule \in Matching(Levels[i], emp, rules) : rule.type # "EXCLUDE"
        /\ \A j \in 1..(i - 1) : Matching(Levels[j], emp, rules) = {}
=============================================================================
