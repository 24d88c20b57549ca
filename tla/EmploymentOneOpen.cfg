SPECIFICATION Spec
CONSTANTS
    e = e  m = m  h = h  f = f  a = a
    Job = job
    NoUser = NoUser
    Reqs = {r1, r2}
    Calls = {c1, c2}
    Users = {e, h, a}
    Employee = e
    Manager = NoUser
    RolesOf <- MCRolesOf
    Salaries = {2}
    InitialSalary = 1
    UsedKinds = {"TITLE", "COMBINED"}
    MaxDay = 1
    MaxCalls = 4
    MaxFaults = 1
SYMMETRY MCSymmetry
INVARIANT OneOpenRequest
CHECK_DEADLOCK FALSE
