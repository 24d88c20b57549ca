SPECIFICATION FairSpec
CONSTANTS
    e = e  m = m  h = h  f = f  a = a
    Job = job
    NoUser = NoUser
    Reqs = {r1}
    Calls = {c1, c2}
    Users = {e, h, a}
    Employee = e
    Manager = NoUser
    RolesOf <- MCRolesOf
    Salaries = {2}
    InitialSalary = 1
    UsedKinds = {"TITLE", "COMBINED"}
    MaxDay = 1
    MaxCalls = 5
    MaxFaults = 1
INVARIANT NoOrphanedRequest
PROPERTIES SalaryOnlyWithApproval ScheduledSettles
CHECK_DEADLOCK FALSE
