------------------------- MODULE MCEmploymentChange -------------------------
EXTENDS EmploymentChange, TLC

CONSTANTS e, m, h, f, a

\* One person per role; the employee and the manager hold none.
MCRolesOf ==
    [u \in Users |-> CASE u = h -> {"HR_MANAGER"}
                       [] u = f -> {"FINANCE_MANAGER"}
                       [] u = a -> {"BUSINESS_ADMIN"}
                       [] OTHER -> {}]

MCSymmetry == Permutations(Reqs) \cup Permutations(Calls)
=============================================================================
