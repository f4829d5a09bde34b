----------------------------- MODULE HeardHours -----------------------------
(***************************************************************************)
(* The last-heard table by itself: stations are heard, the heard-history   *)
(* query rolls a row without counting, and the clock is set once while the *)
(* station runs.                                                           *)
(***************************************************************************)
EXTENDS HeardList

VARIABLES
    since,   \* for each station heard so far, those heard after it
    truth    \* the frames of each station by hour, 0 for before the clock was set

tableVars == <<heard, now, since, truth>>

Known    == {heard[i].call : i \in DOMAIN heard}
LastHour == MaxTime \div HourLen
NoFrames == [h \in 0 .. LastHour |-> 0]

TableInit ==
    /\ heard = <<>> /\ now = 1
    /\ since = [c \in {} |-> {}] /\ truth = [c \in Calls |-> NoFrames]

HourNow == IF now < ValidFrom THEN 0 ELSE now \div HourLen

(* A row that was evicted starts again, and so does what is known of it;   *)
(* the first roll after the clock was set takes in what came before.       *)
Adopted(call) ==
    IF call \notin Known THEN NoFrames
    ELSE IF now < ValidFrom \/ HeardRow(heard, call).rolled THEN truth[call]
    ELSE [truth[call] EXCEPT ![HourNow] = truth[call][0], ![0] = 0]

(* How a station is heard makes no difference to the order and the counts. *)
OnAir == [rf |-> TRUE, direct |-> TRUE, hops |-> 0, tcpip |-> FALSE, bm |-> FALSE]

HearStation ==
    \E call \in Calls :
       /\ heard' = Added(heard, now, call, OnAir)
       /\ since' = [c \in DOMAIN since \cup {call} |->
                        IF c = call THEN {} ELSE since[c] \cup {call}]
       /\ truth' = [truth EXCEPT ![call] =
                        [Adopted(call) EXCEPT ![HourNow] = Lesser(@ + 1, CountMax)]]
       /\ UNCHANGED now

(* lastheard_heard_history()                                               *)
RollHistory ==
    \E i \in DOMAIN heard :
       /\ heard' = [heard EXCEPT ![i] = Rolled(@, now)]
       /\ truth' = [truth EXCEPT ![heard[i].call] = Adopted(heard[i].call)]
       /\ UNCHANGED <<now, since>>

TableTick == (ClockRuns \/ ClockSet) /\ UNCHANGED <<heard, since, truth>>

TableNext == HearStation \/ RollHistory \/ TableTick

TableSpec == TableInit /\ [][TableNext]_tableVars

----------------------------------------------------------------------------
(* The table holds the stations heard last, in that order, each once:     *)
(* those heard since one of them are those in front of it, and of a        *)
(* station that was heard and has no row as many others were heard since   *)
(* as the table has rows.                                                  *)
KeepsLatest ==
    /\ Known \subseteq DOMAIN since
    /\ \A i \in DOMAIN heard :
          since[heard[i].call] = {heard[j].call : j \in 1 .. i - 1}
    /\ \A i, j \in DOMAIN heard : heard[i].call = heard[j].call => i = j
    /\ \A c \in DOMAIN since \ Known : Len(heard) = Capacity /\ Known \subseteq since[c]

(* A row's histogram tells the station's frames of the hour it was rolled  *)
(* in and of each hour before it, whatever hours passed in silence; what   *)
(* came before the clock was set counts in the hour of the first roll      *)
(* (lastheard.c:139-170).                                                  *)
Told(row, h) == IF row.slot >= h - 1 THEN truth[row.call][row.slot - (h - 1)] ELSE 0
HoursTrue ==
    \A i \in DOMAIN heard :
       \A h \in 1 .. Hours : heard[i].hourly[h] = Told(heard[i], h)
=============================================================================
