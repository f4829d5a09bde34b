--------------------------- MODULE QueryResponder ---------------------------
(***************************************************************************)
(* The responder to APRS queries.  The two tasks that receive traffic      *)
(* match a query, pass it through its limiter and queue a request; the     *)
(* beacon scheduler's task answers what is queued at the start of each     *)
(* pass, then makes the rest of its round, objects last, and sleeps until  *)
(* the next beacon is due or it is notified.                               *)
(*                                                                         *)
(* Time passes in Tick: a limiter's stamp is kept as the seconds since it  *)
(* was made, which start at zero with the uptime, and stop counting where  *)
(* the limiter stops caring.  What an answer says is abstracted.           *)
(***************************************************************************)
EXTENDS Naturals, Sequences, SequencesExt, FiniteSets

CONSTANTS
    Calls,        \* stations that ask
    Kinds,        \* the query types asked in this instance
    Configs,      \* the settings of the Query page it is saved with
    PendingMax,   \* QUERY_PENDING_MAX
    TrackMax,     \* QUERY_DIRECTED_TRACK_MAX
    MinInterval,  \* query_min_interval_sec
    CallMin,      \* QUERY_DIRECTED_MIN_INTERVAL_SEC
    Ceiling       \* QUERY_DIRECTED_GLOBAL_MIN_INTERVAL_SEC

Sources  == {"RF", "INET"}
General  == {"APRS", "WX", "IGATE", "QRU"}
Directed == {"DIRECTS", "HEARD", "MESSAGES", "OBJECTS", "POSITION", "STATUS",
             "TRACE"}
Nobody   == "nobody"
Requests == [type : Kinds, source : Sources, call : Calls \cup {Nobody}]

ASSUME QueryAssumption ==
    /\ Kinds \subseteq General \cup Directed
    /\ Configs \subseteq SUBSET ({"query_en", "directed_en", "aprs_en", "wx_en",
                                  "igate_en", "ext_en"} \cup Sources)
    /\ PendingMax \in Nat \ {0} /\ TrackMax \in Nat \ {0}
    /\ {MinInterval, CallMin, Ceiling} \subseteq Nat /\ CallMin <= Ceiling

VARIABLES
    config,      \* the switches that are on
    broadcast,   \* s_lastBroadcastRespondSec, as ages
    directed,    \* s_lastDirectedRespondSec, as ages
    track,       \* s_directedTrack: who was answered, and how long ago
    pending,     \* s_pending, oldest first
    rx,          \* the two receiving tasks: where they are, with what request
    phase,       \* where the scheduler's task is
    current,     \* the request it answers
    notified,    \* its notification, latched
    announce,    \* s_tx_all_channels
    objects,     \* calls of objitems_service(), of which the first is idle
    (* what the properties remember *)
    served,      \* seconds since each station last passed its limiter
    early,       \* a station passed it twice within CallMin
    gaveUp       \* this pass left the queue because its lock was held

limiters == <<broadcast, directed, track, served, early>>
scheduler == <<phase, current, announce, objects, gaveUp>>
vars == <<config, limiters, pending, rx, scheduler, notified>>

Free == [call |-> Nobody, age |-> CallMin]
Idle == [at |-> "idle"]
NoRequest == [type |-> "none"]

Init ==
    /\ config \in Configs
    /\ broadcast = [t \in Kinds \cap General |-> [s \in Sources |-> 0]]
    /\ directed = [s \in Sources |-> 0]
    /\ track = [i \in 1 .. TrackMax |-> Free]
    /\ pending = <<>>
    /\ rx = [s \in Sources |-> Idle]
    /\ phase = "unborn" /\ current = NoRequest /\ notified = FALSE
    /\ announce = {} /\ objects = 0
    /\ served = [c \in Calls |-> CallMin] /\ early = FALSE /\ gaveUp = FALSE

Older(age, limit) == IF age < limit THEN age + 1 ELSE age

(* A second passes; a query is limited in the second it is read in.        *)
Tick ==
    /\ \A s \in Sources : rx[s].at # "claim"
    /\ broadcast' = [t \in DOMAIN broadcast |->
                        [s \in Sources |-> Older(broadcast[t][s], MinInterval)]]
    /\ directed' = [s \in Sources |-> Older(directed[s], Ceiling)]
    /\ track' = [i \in DOMAIN track |->
                    [track[i] EXCEPT !.age = Older(@, CallMin)]]
    /\ served' = [c \in Calls |-> Older(served[c], CallMin)]
    /\ UNCHANGED <<config, early, pending, rx, scheduler, notified>>

SaveSettings ==
    /\ config' \in Configs \ {config}
    /\ UNCHANGED <<limiters, pending, rx, scheduler, notified>>

----------------------------------------------------------------------------
(* The receiving tasks                                                     *)

TypeSwitch(type) ==
    CASE type = "APRS" -> "aprs_en" [] type = "WX" -> "wx_en"
      [] type = "IGATE" -> "igate_en" [] OTHER -> "ext_en"

Answered(type, source) == {"query_en", source, TypeSwitch(type)} \subseteq config

Carry(source, where, type, call) ==
    rx' = [rx EXCEPT ![source] =
              [at |-> where,
               request |-> [type |-> type, source |-> source, call |-> call]]]

(* A general query, which names the area it asks about when it is ?APRS?:  *)
(* the allowance is spent before the area is looked at.                    *)
Broadcast(source, type, inRange) ==
    /\ rx[source] = Idle
    /\ type \in General /\ Answered(type, source)
    /\ broadcast[type][source] >= MinInterval
    /\ broadcast' = [broadcast EXCEPT ![type][source] = 0]
    /\ IF type = "APRS" => inRange THEN Carry(source, "queue", type, Nobody)
                                   ELSE UNCHANGED rx
    /\ UNCHANGED <<config, directed, track, served, early, pending, scheduler,
                   notified>>

(* A query in a message to this station; the ceiling is looked at first.   *)
Ask(source, type, call) ==
    /\ rx[source] = Idle
    /\ type \in Directed /\ Answered(type, source) /\ "directed_en" \in config
    /\ directed[source] >= Ceiling
    /\ Carry(source, "claim", type, call)
    /\ UNCHANGED <<config, limiters, pending, scheduler, notified>>

Oldest == {i \in DOMAIN track : \A j \in DOMAIN track : track[j].age <= track[i].age}

(* Where directedTrackClaim() writes its entry: the caller's own slot if   *)
(* it has one, else a free one, else the oldest.                           *)
SlotFor(call) ==
    LET own  == {i \in DOMAIN track : track[i].call = call}
        free == {i \in DOMAIN track : track[i].call = Nobody}
    IN  IF own # {} THEN own ELSE IF free # {} THEN free ELSE Oldest

(* Faulty variant: the caller's entry is stamped without being compared.   *)
TooSoonNever(call) == FALSE

TooSoon(call) == \E i \in DOMAIN track : track[i].call = call /\ track[i].age < CallMin

Claim(source) ==
    LET call == rx[source].request.call IN
    /\ rx[source].at = "claim"
    /\ \/ /\ ~TooSoon(call)
          /\ \E slot \in SlotFor(call) :
                track' = [track EXCEPT ![slot] = [call |-> call, age |-> 0]]
          /\ directed' = [directed EXCEPT ![source] = 0]
          /\ rx' = [rx EXCEPT ![source].at = "queue"]
          /\ served' = [served EXCEPT ![call] = 0]
          /\ early' = (early \/ served[call] < CallMin)
       \/ /\ rx' = [rx EXCEPT ![source] = Idle]     \* too soon, or the lock is held
          /\ UNCHANGED <<directed, track, served, early>>
    /\ UNCHANGED <<config, broadcast, pending, scheduler, notified>>

(* queueResponse(): folded into an equal request, queued, or dropped       *)
(* because the queue is full or its lock is held.                          *)
Queue(source) ==
    LET request == rx[source].request
        fits == Len(pending) < PendingMax /\ request \notin ToSet(pending)
    IN
    /\ rx[source].at = "queue"
    /\ \/ /\ fits
          /\ pending' = Append(pending, request)
          /\ rx' = [rx EXCEPT ![source] = [at |-> "wake"]]
       \/ /\ rx' = [rx EXCEPT ![source] = Idle]
          /\ UNCHANGED pending
    /\ UNCHANGED <<config, limiters, scheduler, notified>>

(* beacon_scheduler_wake(): nothing to notify before the task exists.      *)
Wake(source) ==
    /\ rx[source].at = "wake"
    /\ rx' = [rx EXCEPT ![source] = Idle]
    /\ notified' = (notified \/ phase # "unborn")
    /\ UNCHANGED <<config, limiters, pending, scheduler>>

----------------------------------------------------------------------------
(* The scheduler's task                                                    *)

Start ==
    /\ phase = "unborn"
    /\ phase' = "queries"
    /\ UNCHANGED <<config, limiters, pending, rx, current, announce, objects,
                   gaveUp, notified>>

(* Faulty variant: the latest request is answered first.                   *)
TakenLast == Len(pending)

Taken == 1

Take ==
    /\ phase = "queries" /\ pending # <<>>
    /\ phase' = "answer" /\ current' = pending[Taken]
    /\ pending' = RemoveAt(pending, Taken)
    /\ UNCHANGED <<config, limiters, rx, announce, objects, gaveUp, notified>>

(* runRequest(): ?APRSO asks objitems_service() for the answer; any other  *)
(* is built and sent here, on the side it was asked on.                    *)
Answer ==
    /\ phase = "answer"
    /\ announce' = IF current.type = "OBJECTS" THEN announce \cup {current.source}
                                               ELSE announce
    /\ phase' = "queries" /\ current' = NoRequest
    /\ UNCHANGED <<config, limiters, pending, rx, objects, gaveUp, notified>>

(* Faulty variant: the drained queue is taken for all there was to be      *)
(* notified of.                                                            *)
StillNotifiedCleared == FALSE

StillNotified == notified

(* The queue is empty, or its lock cannot be had for 50 ms.                *)
Drained ==
    /\ phase = "queries"
    /\ gaveUp' = (pending # <<>>)
    /\ phase' = "beacons"
    /\ notified' = notified
    /\ UNCHANGED <<config, limiters, pending, rx, current, announce, objects>>

Beacons ==
    /\ phase = "beacons"
    /\ phase' = "objects"
    /\ notified' = StillNotified
    /\ UNCHANGED <<config, limiters, pending, rx, current, announce, objects,
                   gaveUp>>

(* objitems_service(), last of the round: what was asked for is sent with  *)
(* whatever else is due, except that its first call only sets it going.    *)
Objects ==
    /\ phase = "objects"
    /\ objects' = IF objects < 2 THEN objects + 1 ELSE 2
    /\ announce' = IF objects = 0 THEN announce ELSE {}
    /\ phase' = "sleep"
    /\ UNCHANGED <<config, limiters, pending, rx, current, gaveUp, notified>>

(* ulTaskNotifyTake(): the soonest beacon is due, or somebody has notified.*)
NextPass ==
    /\ phase = "sleep"
    /\ phase' = "queries" /\ notified' = FALSE /\ gaveUp' = FALSE
    /\ UNCHANGED <<config, limiters, pending, rx, current, announce, objects>>

Receive(source) ==
    \/ \E type \in Kinds \cap General, inRange \in BOOLEAN : Broadcast(source, type, inRange)
    \/ \E type \in Kinds \cap Directed, call \in Calls : Ask(source, type, call)
    \/ Claim(source) \/ Queue(source) \/ Wake(source)

Pass == Start \/ Take \/ Answer \/ Drained \/ Beacons \/ Objects \/ NextPass

Next == Tick \/ SaveSettings \/ (\E source \in Sources : Receive(source)) \/ Pass

(* The task is scheduled; it sleeps for at most half a minute; and the     *)
(* queue's lock, held for a few instructions, is not held against it for   *)
(* ever.                                                                   *)
Fairness ==
    /\ WF_vars(Start) /\ WF_vars(Answer) /\ WF_vars(Beacons) /\ WF_vars(Objects)
    /\ WF_vars(NextPass) /\ WF_vars(Drained) /\ SF_vars(Take)
QuerySpec == Init /\ [][Next]_vars
LiveSpec == QuerySpec /\ Fairness

----------------------------------------------------------------------------
(* No request is slept on: when the task sleeps over a queued one, it is   *)
(* notified or about to be, unless this very pass could not have the       *)
(* queue's lock (query.c:510-511, beacon_scheduler.c:195-202); and objects *)
(* asked for by ?APRSO go out in the pass that answers it, from the second *)
(* pass on (beacon_scheduler.c:170-174).                                   *)
NothingSleptOn ==
    phase = "sleep" =>
        /\ pending # <<>> /\ ~gaveUp =>
               notified \/ \E source \in Sources : rx[source].at = "wake"
        /\ announce # {} => objects < 2

(* One station is not let past its limiter twice within the limiter's      *)
(* interval, though it asks over the air and over APRS-IS at once and the  *)
(* ceilings of the two sides are apart (query.c:283-347).                  *)
StationsSpaced == ~early

(* Nothing that was asked is slept on, and no station is answered too      *)
(* often.                                                                  *)
AnswersSound == NothingSleptOn /\ StationsSpaced

(* A query of each type that is queued is answered, whatever keeps         *)
(* arriving and whoever holds the lock.                                    *)
EveryTypeAnswered ==
    \A type \in Kinds :
        (\E request \in ToSet(pending) : request.type = type) ~> current.type = type
=============================================================================
