SPECIFICATION Spec
CONSTANTS
    e = e  m = m  h = h  f = f  a = a
    Job = job
    NoUser = NoUser
    Reqs = {r1}
    Calls = {c1, c2}
    Users = {e, m, h, f, a}
    Employee = e
    Manager = m
    RolesOf <- MCRolesOf
    Salaries = {2}
    InitialSalary = 1
    UsedKinds = {"SALARY"}
    MaxDay = 0
    MaxCalls = 8
    MaxFaults = 0
SYMMETRY MCSymmetry
INVARIANTS TypeOK NoStageSkipped ApprovedByTheRightPerson
PROPERTY ImplementsLedger
CHECK_DEADLOCK FALSE
