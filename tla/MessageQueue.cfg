\* A sender, a receiver and an ?APRSM answer around one message and its retries.
SPECIFICATION FairSpec
CONSTANTS
    QueueSize = 2
    MaxId = 9
    MsgRetry = 1
    BurstMax = 1
    ReplyStations = 1
    Peers = {p1}
    Texts = {m1}
    Senders = {s1}
    Receivers = {r1}
    Payloads = {m1, NoText}
    NoCall = NoCall
    NoText = NoText
    MaxClaims = 2
    MaxReceived = 1
    MaxBursts = 1
    PeerNumbers = {1}
    Overtaken = 1
INVARIANTS QueueSound
PROPERTIES EveryMessageSettles
