\* Two frames through a cache of up to two entries, its page saved at any time.
\* Beacons saved once and moved once.  Ten samples of one reader.  Three
\* transmissions of two or four octets, two demodulators a bit apart.  A line of
\* up to three octets after a bit of noise.
SPECIFICATION RadioSpec
CONSTANTS
    Frames = {f1, f2}
    Capacity = 2
    MinSize = 1
    Windows = {1}
    MaxClock = 3
    Copies <- MCCopies
    DigiOn = TRUE
    IgateOn = TRUE
    Refusals = FALSE
    SaveInside = TRUE
    SwitchedOn <- MCSwitchedOn
    Saved = {"tracker", "digiStatus", "telemetry"}
    Intervals = {0, 1}
    MinInterval = 3
    DefInterval = 4
    SlowInterval = 4
    FastInterval = 3
    Jitter = 1
    IdleCheck = 3
    PollCap = 4
    CornerPoll = 2
    MinTurn = 1
    Headings = 2
    Threshold = 1
    MaxBusy = 1
    MaxSaves = 1
    MaxMoves = 1
    Pool = 4
    Conv = 3
    Fifo = 5
    Block = 2
    HoldBlocks = 2
    Opens = 1
    CountMax = 3
    Gate = TRUE
    Duplex = FALSE
    Samples = 10
    Keys = 1
    Rebuilds = 2
    OnAir <- MCOnAir
    Length <- MCLength
    Fx25 = {3}
    Demods = 2
    MaxSkew = 1
    Hold = 2
    Late = 2
    Gap = 7
    Repair = TRUE
    RingOctets = 7
    RingSlots = 3
    QueueDepth = 1
    Scrambled = {TRUE, FALSE}
    Reg = 3
    Tap = 2
    NoiseBits = 1
    Flags = 4
    TailFlags = 1
    MinOctets = 2
    MaxOctets = 3
    MaxTests = 2
    MaxOthers = 1
INVARIANTS CacheSound TimersSound ReceiveSound
CHECK_DEADLOCK FALSE
