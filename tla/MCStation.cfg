\* Every setting of every section, one a behaviour; two saves by the operator over
\* failed writes and boots; every kind of report over the cases around its
\* roundings and widths; two passes over the sensors; six message numbers.
SPECIFICATION StationSpec
CONSTANTS
    Unsettled <- MCUnsettled
    Calls = {"NOCALL", "N0CALL-1"}
    FactoryCall = "NOCALL"
    MaxPosts = 2
    Beacons <- MCBeacons
    Statuses <- MCStatuses
    Objects <- MCObjects
    Telemetries <- MCTelemetries
    Stamps <- MCStamps
    Pairs <- MCPairs
    Sentences <- MCSentences
    LateTexts <- MCLateTexts
    Terms <- MCTerms
    Lists <- MCLists
    Comments <- MCComments
    Readings = {0, 10}
    MaxPasses = 2
    QueueSize = 2
    MaxId = 6
    MsgRetry = 0
    BurstMax = 1
    ReplyStations = 1
    Peers = {p1}
    Texts = {m1}
    Senders = {s1, s2}
    Receivers = {}
    Payloads = {m1}
    NoCall = NoCall
    NoText = NoText
    MaxClaims = 12
    MaxReceived = 0
    MaxBursts = 0
    PeerNumbers = {0}
    Overtaken = 1
INVARIANTS FilesSound StationSound AckNamesOneMessage
PROPERTIES GoodFileKept
CHECK_DEADLOCK FALSE
