SPECIFICATION Spec
CONSTANTS
    Calls = {c1, c2}
    NoCall = NoCall
    NoRequest = NoRequest
    Requests = {r1, r2, r3}
    Periods <- MCPeriods
    MaxCalls = 5
    MaxFaults = 1
INVARIANTS TypeOK OverlapOnlyLoose
PROPERTIES DecidedKeepsPeriod ImplementsCalendar
CHECK_DEADLOCK FALSE
