\* Paths of up to four addresses between two digipeaters; three lines past the
\* gate down and one frame heard, with one save; three stations in two rows.
SPECIFICATION GatewaySpec
CONSTANTS
    MaxRpt = 4
    Stations = {"A", "B"}
    Table <- MCTable
    GateTokens = {"RFONLY"}
    NetTokens = {"TCPIP"}
    Sendable <- MCSendable
    Pages <- MCPages
    MaxDest = 1
    MaxFresh = 3
    Calls = {"near", "far", "own", "relay"}
    Capacity = 2
    Hours = 0
    HourLen = 1
    ValidFrom = 9
    CountMax = 0
    PacketsMax = 0
    BootMax = 1
    MaxTime = 10
    Audible = {"near", "far"}
    OwnCalls = {"own"}
    Listed = {"near", "far"}
    Services = {"relay"}
    Lines <- MCLines
    Configs <- MCConfigs
    Window = 1
    MaxHops = 1
    Interval = 1
    AssocMax = 1
    RateMax = 2
    TickWrap = 4
    MaxSaves = 1
    MaxReads = 3
    MaxAir = 1
INVARIANTS PathSound InetSound TableSound
PROPERTIES StepSound
CHECK_DEADLOCK FALSE
