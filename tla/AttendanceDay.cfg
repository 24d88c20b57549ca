SPECIFICATION Spec
CONSTANTS
    web = web  phone = phone
    Calls = {web, phone}
    NoCall = NoCall
    DayLength = 7
    MaxClock = 9
    LunchBreak = 2
    Cooldown = 3
    LunchEnabled = TRUE
    LunchWindow <- MCLunchWindow
    AllowMultipleLunchBreaks = FALSE
    MidnightUnit = 7
    Zone <- MCEast
    Modes <- MCModes
    ExpectedDaily = 3
    StartUnit = 1
    EndOfWork = 5
    LunchPenalty = 2
    LunchWaiver = 1
SYMMETRY MCSymmetry
INVARIANTS TypeOK OneCheckInPerDay LunchBreakServed OneLunchPerDay WorkedAndBreakFillTheDay OnBreakIsNotWorking
PROPERTIES SettledDayIsFinal ImplementsBook
CHECK_DEADLOCK FALSE
