\* Two query types of one station over two passes, with a full queue of two; a
\* GPS switch saved twice by two callers; waits of 25 and 30 ticks, as in the
\* code; a store with one edit, one other change and one shortage of memory.
SPECIFICATION ServicesSpec
CONSTANTS
    Calls = {"a"}
    Kinds = {"APRS", "OBJECTS"}
    Configs = {{"query_en", "directed_en", "aprs_en", "ext_en", "RF", "INET"}, {}}
    PendingMax = 2
    TrackMax = 1
    MinInterval = 0
    CallMin = 1
    Ceiling = 1
    Callers = {boot, page}
    LinkTimeout = 2
    MaxTime = 2
    MaxSaves = 2
    Wait = 25
    Cool = 30
    KillRepeats = 3
    MaxEdits = 1
    MaxChanges = 1
    MaxShortages = 1
INVARIANTS AnswersSound PlaceAndTime 
PROPERTIES EveryTypeAnswered
CHECK_DEADLOCK FALSE
