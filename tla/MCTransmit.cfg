\* Two senders, the beacon task and a loop test through a gate of one frame; two
\* limited tasks and a relay over three buckets of two ticks, so that the clock
\* runs past the window.
SPECIFICATION TransmitSpec
CONSTANTS
    Senders = {s1, s2}
    Beacon = bcn
    Tester = web
    Limit = 1
    RingSize = 6
    MaxOffers = 5
    MaxRuns = 3
    Limited = {s1, s2}
    Relays = {r1}
    Count = 3
    Width = 2
    Ceiling = 4
    Airtimes = {2}
    Longest = 2
    MaxTime = 9
    MaxAirtime = 8
INVARIANTS GateSound DutySound
PROPERTIES NothingSwallowed TransmitterReturned
CHECK_DEADLOCK FALSE
