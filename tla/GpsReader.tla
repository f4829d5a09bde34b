----------------------------- MODULE GpsReader -----------------------------
(***************************************************************************)
(* The GNSS receiver: the switch on the GPS page, the UART and the task    *)
(* that reads it, what the sentences leave behind, and the snapshot the    *)
(* tracker beacon and the pages take of that.                              *)
(*                                                                         *)
(* A sentence that arrives is damaged, or says whether there is a fix; the *)
(* position in it is the second it was sent.  gps_apply_config() is called *)
(* at start-up and by each save of the page, by several tasks at once; its *)
(* wait for the reader gives up after a while.                             *)
(***************************************************************************)
EXTENDS Naturals

CONSTANTS
    Callers,      \* tasks that apply the switch
    LinkTimeout,  \* GPS_LINK_TIMEOUT_S
    MaxTime,      \* bound: seconds
    MaxSaves      \* bound: moves of the switch

ASSUME GpsAssumption ==
    /\ LinkTimeout \in Nat \ {0} /\ {MaxTime, MaxSaves} \subseteq Nat
    /\ "nobody" \notin Callers

VARIABLES
    now, gpsEn, saves,   \* the clock, the switch, and how often it was moved
    pc, holder,          \* each caller's step; who holds s_apply_lock
    port, alive, stop,   \* s_port_installed, s_task_alive, s_stop_request
    reader,              \* the reader task's step
    data,                \* s_data and the times behind its ages
    passed,              \* the reader has been round in this second
    started,             \* history: when the receiver was brought up
    waitedOut               \* history: a stop was not waited for to its end

gpsVars == <<now, gpsEn, saves, pc, holder, port, alive, stop, reader, data, passed, started, waitedOut>>
life == <<gpsEn, saves, pc, holder, port, stop, started, waitedOut>>

(* The memset of s_data, and of the times of its ages.                     *)
Blanked(d) ==
    [d EXCEPT !.link = FALSE, !.valid = FALSE, !.quality = FALSE, !.hasPosition = FALSE, !.position = 0]
Cleared == [link |-> FALSE, valid |-> FALSE, quality |-> FALSE, hasPosition |-> FALSE, position |-> 0,
            haveSentence |-> FALSE, sentence |-> 0, haveFix |-> FALSE, fix |-> 0]

GpsInit ==
    /\ now = 0 /\ gpsEn \in BOOLEAN /\ saves = 0
    /\ pc = [c \in Callers |-> "apply"] /\ holder = "nobody"
    /\ port = FALSE /\ alive = FALSE /\ stop = FALSE
    /\ reader = "gone" /\ data = Cleared /\ passed = TRUE
    /\ started = 0 /\ waitedOut = FALSE

----------------------------------------------------------------------------
(* The switch, and gps_apply_config()                                      *)

At(c, here, next) == pc[c] = here /\ pc' = [pc EXCEPT ![c] = next]

Save(c) ==
    /\ At(c, "idle", "apply") /\ saves < MaxSaves /\ saves' = saves + 1
    /\ gpsEn' = ~gpsEn
    /\ UNCHANGED <<now, holder, port, alive, stop, reader, data, passed, started, waitedOut>>

Enter(c) ==
    /\ At(c, "apply", "decide") /\ holder = "nobody" /\ holder' = c
    /\ UNCHANGED <<now, gpsEn, saves, port, alive, stop, reader, data, passed, started, waitedOut>>

(* Faulty variant: a reader that went late leaves its port taken.          *)
LateNever == FALSE
Late == ~alive /\ port

(* A port whose reader has gone is given back first.                       *)
Decide(c) ==
    /\ pc[c] = "decide"
    /\ LET late == Late IN
       /\ port' = (port /\ ~late)
       /\ \/ /\ gpsEn /\ ~alive /\ pc' = [pc EXCEPT ![c] = "bringup"]
             /\ stop' = (stop /\ ~late)
          \/ /\ ~gpsEn /\ alive /\ pc' = [pc EXCEPT ![c] = "teardown"] /\ stop' = TRUE
          \/ /\ gpsEn = alive /\ pc' = [pc EXCEPT ![c] = "leave"]
             /\ stop' = (stop /\ ~late)
    /\ UNCHANGED <<now, gpsEn, saves, holder, alive, reader, data, passed, started, waitedOut>>

(* Faulty variant: the ages of the last receiver are left.                 *)
FreshBlank(d) == Blanked(d)
Fresh(d) == Cleared

(* Whether the driver and the task come up is the system's choice.         *)
BringUp(c) ==
    /\ At(c, "bringup", "leave") /\ data' = Fresh(data) /\ stop' = FALSE
    /\ \/ port' = TRUE /\ alive' = TRUE /\ reader' = "top" /\ started' = now
       \/ port' = FALSE /\ UNCHANGED <<alive, reader, started>>
    /\ UNCHANGED <<now, gpsEn, saves, holder, passed, waitedOut>>

(* Faulty variant: the port is given back though the reader did not stop.  *)
GivenUpPort(p) == FALSE
KeptPort(p) == p

(* Faulty variant: a stop that was given up is taken back.                 *)
StopTakenBack(asked) == FALSE
StopAfter(asked) == asked

TearDown(c) ==
    /\ At(c, "teardown", "leave")
    /\ \/ ~alive /\ port' = FALSE /\ stop' = FALSE /\ UNCHANGED waitedOut
       \/ alive /\ port' = KeptPort(port) /\ waitedOut' = TRUE /\ stop' = StopAfter(stop)
    /\ UNCHANGED <<now, gpsEn, saves, holder, alive, reader, data, passed, started>>

Leave(c) ==
    /\ At(c, "leave", "idle") /\ holder' = "nobody"
    /\ UNCHANGED <<now, gpsEn, saves, port, alive, stop, reader, data, passed, started, waitedOut>>

----------------------------------------------------------------------------
(* The reader task: gpsTask()                                              *)

Top ==
    /\ reader = "top" /\ reader' = IF stop THEN "clear" ELSE "read"
    /\ UNCHANGED <<now, life, alive, data, passed>>

(* What handle_line() makes of one sentence, parse_gga() or parse_rmc();   *)
(* the others change nothing a beacon or a page's position depends on.     *)
Sentence(type, fix, d) ==
    LET heard == [d EXCEPT !.haveSentence = TRUE, !.sentence = now]
        said  == CASE type = "RMC" -> [heard EXCEPT !.valid = fix]
                   [] type = "GGA" -> [heard EXCEPT !.quality = fix]
                   [] OTHER -> heard
    IN IF fix /\ type \in {"RMC", "GGA"}
       THEN [said EXCEPT !.hasPosition = TRUE, !.position = now, !.haveFix = TRUE, !.fix = now]
       ELSE said

(* A pass may bring a sentence, a damaged one, or nothing.                 *)
Read ==
    /\ reader = "read" /\ reader' = "link"
    /\ \/ UNCHANGED data
       \/ \E type \in {"RMC", "GGA", "GSV"}, fix \in BOOLEAN : data' = Sentence(type, fix, data)
    /\ UNCHANGED <<now, life, alive, passed>>

(* Faulty variant: a link that is down leaves the position standing.       *)
LinkLostStays(d) == d
LinkLost(d) == [d EXCEPT !.valid = FALSE, !.hasPosition = FALSE, !.quality = FALSE]

Link ==
    /\ reader = "link" /\ reader' = "top" /\ passed' = TRUE
    /\ LET up == data.haveSentence /\ now - data.sentence < LinkTimeout
           d  == [data EXCEPT !.link = up]
       IN data' = IF up THEN d ELSE LinkLost(d)
    /\ UNCHANGED <<now, life, alive>>

Clear ==
    /\ reader = "clear" /\ reader' = "exit"
    /\ data' = Blanked(data)
    /\ UNCHANGED <<now, life, alive, passed>>

Exit ==
    /\ reader = "exit" /\ reader' = "gone" /\ alive' = FALSE
    /\ UNCHANGED <<now, life, data, passed>>

(* Time goes on while the reader is off; while it runs it comes round, or  *)
(* is kept from doing so.                                                  *)
Second ==
    /\ now < MaxTime /\ now' = now + 1 /\ passed' = FALSE
    /\ UNCHANGED <<life, alive, reader, data>>

Reader == Top \/ Read \/ Link \/ Clear \/ Exit

Apply(c) == Enter(c) \/ Decide(c) \/ BringUp(c) \/ TearDown(c) \/ Leave(c)

GpsNext ==
    \/ \E c \in Callers : Save(c) \/ Apply(c)
    \/ Reader \/ Second

GpsSpec == GpsInit /\ [][GpsNext]_gpsVars

(* The reader comes round every GPS_READ_WAIT_MS; a caller waits for the   *)
(* lock, and for the reader only so long.                                  *)
GpsLiveSpec == GpsSpec /\ WF_gpsVars(Reader) /\ \A c \in Callers : SF_gpsVars(Enter(c)) /\ WF_gpsVars(Apply(c))

----------------------------------------------------------------------------
(* gps_snapshot(): nothing is shown while the reader is not there.         *)
Shown == IF alive THEN data ELSE Cleared

(* The reader is never in the driver when the port has been given back,    *)
(* whoever gave up waiting for it (gps.c:741-809).                         *)
PortUnderReader == reader \in {"read", "link"} => port

(* A port is not installed twice (gps.c:95-109).                           *)
OneAtATime ==
    /\ \A c \in Callers : pc[c] = "bringup" => ~port /\ ~alive
    /\ \A c, e \in Callers : pc[c] \notin {"idle", "apply"} /\ pc[e] \notin {"idle", "apply"} => c = e

(* What is shown was heard since the receiver was brought up; a position   *)
(* is not offered, nor a fix claimed, once the reader has been round and   *)
(* the last sentence is too old (gps.h:91-101, gps.c:654-667, 678-693).    *)
ShownIsOurs ==
    /\ Shown.hasPosition => Shown.position >= started
    /\ Shown.haveFix => Shown.fix >= started
    /\ alive /\ reader = "top" /\ passed /\ now - Shown.sentence >= LinkTimeout
          => ~Shown.hasPosition /\ ~Shown.valid

(* The port, its reader and what is shown of it.                           *)
PortSound == PortUnderReader /\ OneAtATime /\ ShownIsOurs

(* A switch that is left off stops the reader, late or not.                *)
OffStops == []<>(gpsEn \/ ~alive \/ \E c \in Callers : pc[c] # "idle")

(* What gps.h:199-201 says of the switch, that a move of it takes effect   *)
(* without a reboot, once nobody is applying it: it does not hold, a       *)
(* reader that stops after its stop was given up is not started again when *)
(* the switch was turned on in between.                                    *)
SwitchObeyed == <>[](\A c \in Callers : pc[c] = "idle") /\ <>[]gpsEn => []<>(alive \/ ~port)

-----------------------------------------------------------------------------
(***************************************************************************)
(* Setting the clock: the state machine the service tick advances once a   *)
(* second, the network, and the SNTP client's own task, whose answers come *)
(* at any time, in time, late or not at all.                               *)
(***************************************************************************)

CONSTANTS
    Wait,         \* seconds waited for an answer, 25 in the code
    Cool          \* seconds between two attempts, 30

ASSUME SyncAssumption == {Wait, Cool} \subseteq Nat \ {0}

VARIABLES
    state,        \* s_state
    synced,       \* s_synced
    inited,       \* s_sntp_inited
    waited,       \* s_wait_s
    net,          \* the network is up
    asked,        \* the client has a request out
    clock         \* history: the clock was set

syncVars == <<state, synced, inited, waited, net, asked, clock>>

SyncInit ==
    /\ state \in {"disabled", "wait_net"} /\ synced = FALSE /\ inited = FALSE /\ waited = 0
    /\ net \in BOOLEAN /\ asked = FALSE /\ clock = FALSE

(* TS_START: the client is started again; it may refuse.                   *)
Started(ok) ==
    /\ synced' = FALSE /\ waited' = 0
    /\ state' = IF ok THEN "waiting" ELSE "cooldown"
    /\ asked' = (asked \/ ok)

WaitNet ==
    /\ state = "wait_net" /\ net
    /\ \/ inited' = TRUE /\ \E ok \in BOOLEAN : Started(ok)
       \/ ~inited /\ state' = "disabled" /\ UNCHANGED <<inited, synced, waited, asked>>
    /\ UNCHANGED <<net, clock>>

SyncStart ==
    /\ state = "start" /\ \E ok \in BOOLEAN : Started(ok)
    /\ UNCHANGED <<inited, net, clock>>

(* Faulty variant: an attempt that brought nothing is the last.            *)
AfterWaitDone == "done"
AfterWait == "cooldown"

Waiting ==
    /\ state = "waiting"
    /\ \/ synced /\ state' = "done" /\ UNCHANGED waited
       \/ ~synced /\ waited + 1 < Wait /\ waited' = waited + 1 /\ UNCHANGED state
       \/ ~synced /\ waited + 1 >= Wait /\ waited' = 0 /\ state' = AfterWait
    /\ UNCHANGED <<synced, inited, net, asked, clock>>

Cooldown ==
    /\ state = "cooldown" /\ waited' = waited + 1
    /\ state' = IF waited' >= Cool THEN "start" ELSE "cooldown"
    /\ UNCHANGED <<synced, inited, net, asked, clock>>

SyncTick == WaitNet \/ SyncStart \/ Waiting \/ Cooldown

(* The client's task: an answer sets the clock and says so.                *)
SyncAnswer ==
    /\ asked /\ net /\ asked' = FALSE /\ synced' = TRUE /\ clock' = TRUE
    /\ UNCHANGED <<state, inited, waited, net>>

(* A request is lost, or refused by the server.                            *)
Lost ==
    /\ asked /\ asked' = FALSE
    /\ UNCHANGED <<state, synced, inited, waited, net, clock>>

Net == net' = ~net /\ UNCHANGED <<state, synced, inited, waited, asked, clock>>

SyncNext == SyncTick \/ SyncAnswer \/ Lost \/ Net

SyncSpec == SyncInit /\ [][SyncNext]_syncVars

(* The tick comes every second, and sees a network that keeps coming back; *)
(* not every start is refused, and not every request lost.                 *)
SyncLiveSpec ==
    /\ SyncSpec /\ WF_syncVars(SyncTick) /\ SF_syncVars(WaitNet) /\ SF_syncVars(SyncAnswer)
    /\ SF_syncVars(SyncStart /\ state' = "waiting")

----------------------------------------------------------------------------
(* The machine stops asking only when the clock was set (time_sync.c:344). *)
DoneMeansSet == state = "done" => clock

(* However often the network goes away and an attempt brings nothing, the  *)
(* clock is set once the network stays, unless the client could not be set *)
(* up at all (time_sync.h:54-62).                                          *)
ClockSet == <>[]net => <>(clock \/ state = "disabled")

(* Where the station is and what time it is come from whom they should.    *)
PlaceAndTime == PortSound /\ DoneMeansSet
=============================================================================
