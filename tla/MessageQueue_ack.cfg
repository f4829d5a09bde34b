\* One message, one acknowledgement for it, and the tick between.
SPECIFICATION Spec
CONSTANTS
    QueueSize = 2
    MaxId = 9
    MsgRetry = 2
    BurstMax = 1
    ReplyStations = 1
    Peers = {p1}
    Texts = {m1}
    Senders = {s1}
    Receivers = {r1}
    Payloads = {m1}
    NoCall = NoCall
    NoText = NoText
    MaxClaims = 1
    MaxReceived = 1
    MaxBursts = 0
    PeerNumbers = {0}
    Overtaken = 1
INVARIANT AckStopsRetry

