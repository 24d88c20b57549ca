SPECIFICATION FairSpec
CONSTANTS
    a = a  b = b
    Calls = {c1, c2}
    Users = {a, b}
    SuperAdmins = {}
    Profiles <- MCProfiles
    NoUser = NoUser
    NoDay = NoDay
    Job = job
    Nobody = nobody
    Rules <- MCRules
    RuleLists <- MCRuleLists
    EditedDates = {0}
    BatchSize = 1
    Grace = 0
    MaxVersion = 2
    MaxDay = 1
    MaxCalls = 5
    MaxFaults = 1
INVARIANTS TypeOK InForceWasReviewed AnswersArePublished SharedWasPublished SnapshotWasAsked CounterCoversAnswers
PROPERTIES AnswerIsFinal ImplementsReview ScheduledIsPublished
CHECK_DEADLOCK FALSE
