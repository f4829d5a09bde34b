\* Two saves and a fault while the service starts and stops; two batches of
\* replies with one request in trouble; three updates polled two at a time; three
\* people and two chats; one bulletin of two callers over one save of the table.
SPECIFICATION TelegramSpec
CONSTANTS
    Tokens = {"absent", "refused", "accepted"}
    QueueLen = 1
    RetryTicks = 1
    NoticeWait = 0
    NoticeGiveUp = 1
    MaxSaves = 2
    MaxPushes = 1
    MaxFaults = 1
    MaxAskers = 1
    MaxAttempts = 2
    Room = 2
    Pieces = 3
    AlertDepth = 1
    Recipients = 2
    Replies = 1
    Lines = 2
    MaxBatches = 2
    MaxAlerts = 1
    MaxTroubles = 1
    MaxWaitsOut = 1
    MaxStops = 1
    MaxLateStops = 0
    MaxUpdates = 3
    BatchLimit = 2
    Buffer = 3
    Sizes = {1, 2, 4}
    MaxPollTroubles = 2
    MaxRestarts = 2
    People = {1, 2, 3}
    Chats = {11, 12}
    MaxUsers = 3
    MaxChats = 1
    MaxUnknown = 2
    Window = 3
    MaxListed = 2
    AdminListed = FALSE
    MaxClock = 6
    Callers = {rf, is}
    Bulletins = {b1}
    Plans <- MCPlans
    Slots = 2
    NoticeLen = 1
    Rows = 2
    MaxTableSaves = 1
    MaxRouteClock = 2
INVARIANTS AppSound  
PROPERTIES RepliesFair RepeatsHeldBack
CHECK_DEADLOCK FALSE
