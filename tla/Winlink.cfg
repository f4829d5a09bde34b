\* Two requests of the operator, two replies and one switch, a queue of two.
SPECIFICATION FairSpec
CONSTANTS
    QueueSize = 2
    Tries = 2
    AutoLogin = TRUE
    Web = {web}
    Ticker = tick
    Rx = {rx}
    Polling = TRUE
    MaxRequests = 2
    MaxReplies = 2
    MaxSwitches = 1
INVARIANTS SessionSound
PROPERTIES FifoSpec QueueDrains
CHECK_DEADLOCK FALSE
