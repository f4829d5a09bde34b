----------------------------- MODULE HeardList -----------------------------
(***************************************************************************)
(* The last-heard table: one row per station, the most recently heard      *)
(* first, shared by the receive task and the APRS-IS task under a lock of  *)
(* its own.  The IGate's message gate, the query answers and the message   *)
(* router read it.  Times are the wall clock's, which reads a few seconds  *)
(* past zero until SNTP sets it: now < ValidFrom until then.  A caller     *)
(* that cannot have the lock in time does without; that is left out.       *)
(***************************************************************************)
EXTENDS Naturals, Sequences, SequencesExt, FiniteSets

CONSTANTS
    Calls,
    Capacity,    \* LASTHEARD_CAPACITY
    Hours,       \* LASTHEARD_HEARD_HOURS
    HourLen,     \* seconds in an hour
    ValidFrom,   \* LASTHEARD_CLOCK_VALID_EPOCH
    CountMax,    \* the largest count of an hour, UINT16_MAX
    PacketsMax,  \* the largest count of a row, UINT32_MAX
    BootMax, MaxTime   \* bounds of the clock before and after it is set

ASSUME HeardAssumption ==
    /\ {Capacity, HourLen, ValidFrom} \subseteq Nat \ {0}
    /\ {Hours, CountMax, PacketsMax, BootMax, MaxTime} \subseteq Nat
    /\ BootMax < ValidFrom /\ ValidFrom <= MaxTime /\ HourLen <= ValidFrom

VARIABLES heard, now

Lesser(a, b) == IF a < b THEN a ELSE b

(* A frame as lastheard_add() is told of it.                               *)
HeardFrames == [rf : BOOLEAN, direct : BOOLEAN, hops : 0 .. 2, tcpip : BOOLEAN, bm : BOOLEAN]

NewRow(call) ==
    [call |-> call, rf |-> 0, inet |-> 0, hops |-> 0, viaRf |-> FALSE, viaBm |-> FALSE,
     direct |-> FALSE, packets |-> 0, hourly |-> [h \in 1 .. Hours |-> 0],
     slot |-> 0, rolled |-> FALSE]

(* Faulty variant: the counts move by one hour, however many went by.      *)
ElapsedOne(slot, hour) == IF hour > slot THEN 1 ELSE 0

(* Hours gone since the row's histogram was rolled; none when the clock    *)
(* was set back.                                                           *)
Elapsed(slot, hour) == IF hour > slot THEN hour - slot ELSE 0

(* rollHourlyHistogram(): before the clock is set every packet goes to the *)
(* current slot, and the first roll after it adopts the slot.              *)
Rolled(row, time) ==
    IF time < ValidFrom THEN row
    ELSE LET hour == time \div HourLen
             gone == IF row.rolled THEN Elapsed(row.slot, hour) ELSE 0
         IN [row EXCEPT
                !.hourly = [h \in 1 .. Hours |-> IF h > gone THEN @[h - gone] ELSE 0],
                !.slot = IF row.rolled THEN @ + gone ELSE hour,
                !.rolled = TRUE]

Counted(row) ==
    [row EXCEPT !.hourly = [h \in 1 .. Hours |->
                               IF h = 1 THEN Lesser(@[h] + 1, CountMax) ELSE @[h]]]

(* Faulty variant: any frame of the station counts as heard on the air.    *)
StampsRfAny(frame) == TRUE

StampsRf(frame) == frame.rf

(* What a frame leaves in its station's row.  An Internet frame keeps the  *)
(* stamp and the hops of the last one heard on the air.                    *)
Stamped(row, time, frame) ==
    LET net == ~frame.rf \/ frame.tcpip IN
    [Counted(Rolled(row, time)) EXCEPT
        !.rf = IF StampsRf(frame) THEN time ELSE @,
        !.hops = IF frame.rf THEN frame.hops ELSE @,
        !.inet = IF net THEN time ELSE @,
        !.viaRf = frame.rf, !.direct = frame.rf /\ frame.direct,
        !.viaBm = ~frame.rf /\ frame.bm,
        !.packets = Lesser(@ + 1, PacketsMax)]

HeardRows(list, call) == {i \in DOMAIN list : list[i].call = call}
HeardRow(list, call) ==
    IF HeardRows(list, call) = {} THEN NewRow(call) ELSE list[CHOOSE i \in HeardRows(list, call) : TRUE]

(* The table without the station's own row, which the others close up over.*)
WithoutRow(list, call) ==
    IF HeardRows(list, call) = {} THEN list
    ELSE RemoveAt(list, CHOOSE i \in HeardRows(list, call) : TRUE)

(* Faulty variant: a full table gives up its newest row but one.           *)
OthersNewest(list, call) ==
    LET rest == WithoutRow(list, call) IN IF Len(rest) < Capacity THEN rest ELSE Tail(rest)

(* The rows that stay behind the new first one: the station's own old row  *)
(* moves up, or the last of a full table goes.                             *)
Others(list, call) ==
    LET rest == WithoutRow(list, call) IN IF Len(rest) < Capacity THEN rest ELSE Front(rest)

(* lastheard_add()                                                         *)
Added(list, time, call, frame) ==
    <<Stamped(HeardRow(list, call), time, frame)>> \o Others(list, call)

Recent(time, stamp, seconds) == stamp # 0 /\ time >= stamp /\ time - stamp <= seconds

(* lastheard_heard_rf_within_hops(), lastheard_heard_inet_within()         *)
HeardRf(list, time, call, seconds, hops) ==
    \E i \in HeardRows(list, call) : /\ Recent(time, list[i].rf, seconds)
                                /\ list[i].hops <= hops
HeardInet(list, time, call, seconds) ==
    \E i \in HeardRows(list, call) : Recent(time, list[i].inet, seconds)

(* lastheard_station_count(), lastheard_last_seen_bm(),                    *)
(* lastheard_bm_count() and lastheard_directs(), whose list ends where its *)
(* buffer does.                                                            *)
StationCount(list, hops) ==
    Cardinality({i \in DOMAIN list : list[i].viaRf /\ list[i].hops <= hops})
LastSeenBm(list, call) == \E i \in HeardRows(list, call) : list[i].viaBm
BmCount(list) == Cardinality({i \in DOMAIN list : list[i].viaBm})
Directs(list, room) ==
    LET direct == SelectSeq(list, LAMBDA r : r.direct) IN
    SubSeq([i \in DOMAIN direct |-> direct[i].call], 1, Lesser(room, Len(direct)))

ClockRuns == (now < BootMax \/ now \in ValidFrom .. (MaxTime - 1)) /\ now' = now + 1
ClockSet  == now < ValidFrom /\ now' = ValidFrom
=============================================================================
