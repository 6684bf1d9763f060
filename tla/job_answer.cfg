SPECIFICATION JobSpec
CONSTANTS
    Events <- Spoken
    ReadCount = 2
    MaxLog = 3
    Expiring <- Both
    Routes <- AllRoutes
    MAX_REVISIONS = 2
    MAX_REMINDERS = 2
    RETRY_ATTEMPTS = 3
    RECURSION_LIMIT = 8
    None = None
    Limit = 2
    MaxText = 6
    LINE_ITEMS <- Lines
    Anchor = "revenue"
    Units <- InUse
    Balances = {"Cash"}
    YearDays = {2}
    StaleDays = 2
    Years = 2
    Ends = {2, 4, 6}
    MaxDelay = 2
    MaxFacts = 3
INVARIANTS TypesOK ReadInOrder OutcomeTold AnswerRecorded ThesisBelongs FiguresCurrent ReadAloudWhole
PROPERTIES EverythingEnds
CHECK_DEADLOCK FALSE
