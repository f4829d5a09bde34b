\* Two sessions of up to seven bytes read in chunks of up to four, two frames of
\* up to three symbols written, a line holding two letters; two frames from the
\* air with one save, one line of the server and one beacon between their steps.
SPECIFICATION UplinkWireSpec
CONSTANTS
    Cap = 2
    Letters = {"a"}
    Chunk = 4
    MaxBytes = 7
    MaxLen = 3
    MaxSends = 2
    MaxSessions = 2
    Calls = {"near", "far", "wide1", "nocall"}
    Capacity = 2
    Hours = 0
    HourLen = 1
    ValidFrom = 9
    CountMax = 0
    PacketsMax = 0
    BootMax = 1
    MaxTime = 10
    Traffic <- MCTraffic
    Configs <- MCConfigs
    Placeholders = {"wide1", "nocall"}
    Unconfigured = {"nocall"}
    Listed = {"far"}
    Prefixed = {"near"}
    Online = {"near", "far"}
    Window = 1
    MaxHops = 1
    MaxFrames = 2
    MaxSaves = 1
    MaxServerLines = 1
    MaxOwnLines = 1
INVARIANTS LinesSound FramesSound UplinkSound
PROPERTIES PromiseWithinReach
CHECK_DEADLOCK FALSE
