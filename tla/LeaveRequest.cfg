SPECIFICATION Spec
CONSTANTS
    Calls = {c1, c2}
    Requests = {r1, r2}
    NoRequest = NoRequest
    Balances = {b1, b2, b3}
    NoBalance = NoBalance
    Days = {1, 2}
    Allowances = {2}
    MaxYear = 2
    MaxCalls = 5
    MaxChanges = 1
    MaxFaults = 1
SYMMETRY Interchangeable
INVARIANTS TypeOK ApprovedIsSigned AllowanceAccounted NoMoreThanCharged AccountsOnlyByRace
CHECK_DEADLOCK FALSE
