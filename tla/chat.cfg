SPECIFICATION ChatSpec
CONSTANTS
    j1 = j1
    j2 = j2
    NoJob = NoJob
    Jobs = {j1, j2}
    Period = 2
    Wait = 6
    MaxMisses = 3
    MaxFaults = 2
    MaxCalls = 2
    MaxFragments = 3
    MaxNested = 1
    MaxTools = 1
    MaxNotices = 1
    RETRY_ATTEMPTS = 3
    c1 = c1
    c2 = c2
    NoThread = NoThread
    Anyone = Anyone
    Conversations = {c1, c2}
    MaxTurns = 3
    Window = 1
    HISTORY_MESSAGES = 4
    BATCH = 2
    MaxToolCalls = 2
    MaxMessages = 8
    Chars = {"x", ".", " ", "<"}
    WordChars = {"x"}
    Spaces = {" "}
    TagEnds = {" ", "."}
    Secrets <- Identifying
    Tag <- BlockTag
    MAX_HOLDS = 2
    MaxFragment = 2
    MaxText = 7
INVARIANTS TypesOK Exclusive BusyBehindAJob ThreadKept HistoryWhole TurnActsOnce ThinkingShown ReplyShown RestAloneIsSent
PROPERTIES NoTheft LostLockEnds
CHECK_DEADLOCK FALSE
