------------------------------ MODULE InetGate ------------------------------
(***************************************************************************)
(* The way from APRS-IS to the radio.  One task reads a line, forms the    *)
(* traffic log's verdict on it with a copy of the gate's filters, enters   *)
(* its sender in the last-heard table, and then decides whether the line   *)
(* goes on the air.  Two rings remember: who is owed a position report     *)
(* because a message was gated to him, and when each source last had the   *)
(* transmitter.  Between the steps the receive task hears stations on the  *)
(* air and a page is saved.                                                *)
(*                                                                         *)
(* A line is its source, its kind, the addressee of a message, the place   *)
(* it gives, what its header says and the packet inside a third-party one. *)
(* Stations are their callsigns; OwnCalls are this one's.  The rate ring   *)
(* counts ticks modulo TickWrap and compares them as signed numbers.  What *)
(* the message and query components do with the line is theirs.            *)
(***************************************************************************)
EXTENDS HeardList, Integers

CONSTANTS
    Audible,    \* the stations near enough to be heard on the air
    OwnCalls,   \* the callsigns inet_line_is_own_report() knows
    Listed,     \* the callsign filter's list
    Services,   \* the Winlink service callsigns
    Lines,      \* the lines read
    Configs,    \* the settings: sets of switches, and of the types let through
    Window,     \* igate_local_window_sec
    MaxHops,    \* igate_msg_max_hops
    Interval,   \* inet2rf_min_interval_sec, in ticks
    AssocMax, RateMax, TickWrap,
    MaxSaves, MaxReads, MaxAir

ASSUME InetAssumption ==
    /\ {AssocMax, RateMax, Interval} \subseteq Nat \ {0} /\ MaxHops \in Nat
    /\ TickWrap \in Nat /\ TickWrap > 2 * Interval
    /\ Audible \subseteq Calls /\ Lines # {}
    /\ \A l \in Lines : l.src \in Calls /\ (l.kind = "third" => l.inner.src \in Calls)

VARIABLES
    config,
    saves, reads, airs,   \* what is bounded
    assoc,     \* s_msgAssoc, the oldest first
    rate,      \* s_inet2rfRate: callsign and ticks since its stamp
    line,      \* the line in hand
    verdict,   \* igate_log_accepts_line() of it, were the log filtered
    viaBm,     \* aprs_bm_classify() of it, when that is switched on
    stage,     \* "idle", "logged", "heard"
    (* what the properties remember *)
    still,     \* nothing else happened since the line was logged
    outcome,   \* the reason of the last decision, "sent" or "refused"
    lastAir,   \* when each station was last heard on the air, over which hops
    owed,      \* messages sent to a station less reports sent for them
    spoke,     \* ticks since a source was last let through, less what it forgot
    faults     \* what went wrong

settings == <<config, saves>>
bounds   == <<reads, airs>>
rings    == <<assoc, rate>>
hand     == <<line, verdict, viaBm, stage, still, outcome>>
ghosts   == <<lastAir, owed, spoke, faults>>
inetVars == <<heard, now, settings, bounds, rings, hand, ghosts>>

Nobody   == "nobody"
Silent   == Interval
NoLine   == CHOOSE l \in Lines : TRUE
Types    == {"message", "position", "buoy", "status", "telemetry"}

InetInit ==
    /\ heard = <<>> /\ now = 1
    /\ config \in Configs /\ saves = 0 /\ reads = 0 /\ airs = 0
    /\ assoc = <<>> /\ rate = <<>>
    /\ line = NoLine /\ verdict = TRUE /\ viaBm = FALSE
    /\ stage = "idle" /\ still = FALSE /\ outcome = "none"
    /\ lastAir = [c \in Calls |-> [at |-> 0, hops |-> 0]]
    /\ owed = [c \in Calls |-> 0] /\ spoke = [c \in Calls |-> Silent] /\ faults = {}

On(switch) == switch \in config

(* aprs_filter_classify_tnc2(): the four telemetry definitions have the    *)
(* shape of a message and the type of telemetry; a third-party packet has  *)
(* no type at all.                                                         *)
TypeOf(p) == IF p.kind = "parm" THEN "telemetry" ELSE p.kind
IsMessage(p) == TypeOf(p) = "message"
ShapedAsMessage(p) == p.kind \in {"message", "parm"}
Passes(p) == TypeOf(p) \in Types /\ On(TypeOf(p))
Placed(p) == p.place # "none"

(* aprs_filter_budlist_pass()                                              *)
Budlist(call) == CASE On("white") -> call \in Listed
                   [] On("black") -> call \notin Listed
                   [] OTHER -> TRUE

Wrapped(l) == l.kind = "third"
Broadcast(p) == ShapedAsMessage(p) /\ p.dest = "all"

(* msgAssocFind(): the follow-up owed to the source of a position.         *)
Owed(l) == TypeOf(l) \in {"position", "buoy"} /\ \E i \in DOMAIN assoc : assoc[i] = l.src

(* inet_line_is_own_report(), headerForbidsRf(), build_thirdparty_frame(): *)
(* the last makes no frame of a call that cannot stand there, or of a line *)
(* that is too long for one.                                               *)
OwnReport(l)     == l.src \in OwnCalls
HeaderForbids(l) == l.forbidden
Framed(p)        == p.legal

OutOfRange(l) == On("range") /\ l.place = "far"

----------------------------------------------------------------------------
(* inet2rfFiltersPass(): the log's copy of the filters                     *)

MirrorUnwraps(l) ==
    /\ On("unwrap") /\ On("white") /\ Wrapped(l)
    /\ ~Wrapped(l.inner) /\ l.inner.src \in Listed /\ Passes(l.inner)

(* Faulty variant: the log asks no position of a BrandMeister line.        *)
MirrorPlaceNotBm(l, p, follow) ==
    follow \/ IsMessage(p) \/ Placed(p) \/ ~On("position")

MirrorPlace(l, p, follow) ==
    follow \/ IsMessage(p) \/ Placed(p) \/ ~(On("position") \/ (On("bm") /\ l.bm))

Mirror(l) ==
    LET follow == Owed(l)
        p == IF ~follow /\ ~Passes(l) /\ MirrorUnwraps(l) THEN l.inner ELSE l
    IN
    /\ follow \/ ~OutOfRange(l)
    /\ follow \/ Passes(l) \/ MirrorUnwraps(l)
    /\ Budlist(p.src)
    /\ MirrorPlace(l, p, follow)
    /\ On("heardOnly") /\ ~follow /\ ~IsMessage(p) => HeardRf(heard, now, p.src, Window, 255)

----------------------------------------------------------------------------
(* inet2rfHandler()                                                        *)

Unwraps(l) ==
    /\ On("unwrap") /\ On("white") /\ Wrapped(l)
    /\ ~Wrapped(l.inner) /\ ~Broadcast(l.inner)
    /\ l.inner.src \in Listed /\ Passes(l.inner)

(* inet2rfRateAllow(): a source with no slot takes a free one or the       *)
(* oldest; ages are compared as signed differences of ticks.               *)
Signed(d) == IF d % TickWrap < TickWrap \div 2 THEN d % TickWrap
             ELSE (d % TickWrap) - TickWrap
Slot(call) == {i \in DOMAIN rate : rate[i].call = call}

(* Faulty variant: only the source heard last is looked up.                *)
TooSoonLast(call) ==
    rate # <<>> /\ rate[Len(rate)].call = call /\ Signed(rate[Len(rate)].age) < Interval

TooSoon(call) == \E i \in Slot(call) : Signed(rate[i].age) < Interval
Oldest == CHOOSE i \in DOMAIN rate :
             /\ \A j \in DOMAIN rate : Signed(rate[j].age - rate[i].age) <= 0
             /\ \A j \in 1 .. (i - 1) : Signed(rate[j].age - rate[i].age) < 0
Claimed(call) ==
    LET mine == [call |-> call, age |-> 0] IN
    IF Slot(call) # {} THEN [rate EXCEPT ![CHOOSE i \in Slot(call) : TRUE] = mine]
    ELSE IF Len(rate) < RateMax THEN Append(rate, mine)
    ELSE [rate EXCEPT ![Oldest] = mine]

(* messageGatePass(): the rule that stops a message, or none.              *)
MessageRules(p) ==
    LET exempt == On("wlExempt") /\ p.src \in Services IN
    << <<~HeardRf(heard, now, p.dest, Window, 255), "notLocal">>,
       <<~HeardRf(heard, now, p.dest, Window, MaxHops), "hops">>,
       <<~exempt /\ HeardInet(heard, now, p.dest, Window), "online">>,
       <<HeardRf(heard, now, p.src, Window, 255), "senderLocal">> >>

(* The rules in the order of the code; the first that applies drops the    *)
(* line.  p is the packet that is put on the air.                          *)
Rules(l, p, follow) ==
    << <<l.kind = "query", "query">>,
       <<OwnReport(l), "own">>,
       <<HeaderForbids(l), "header">>,
       <<Broadcast(l), "broadcast">>,
       <<~follow /\ OutOfRange(l), "range">>,
       <<~follow /\ ~Passes(l) /\ ~Unwraps(l), "type">>,
       <<~Budlist(p.src), "budlist">>,
       <<~follow /\ ~IsMessage(p) /\ ~Placed(p)
           /\ (On("position") \/ viaBm), "noPosition">>,
       <<~follow /\ ~IsMessage(p) /\ On("heardOnly")
           /\ ~HeardRf(heard, now, p.src, Window, 255), "notHeard">>,
       <<~follow /\ ~IsMessage(p) /\ On("spacing") /\ TooSoon(p.src), "rate">> >>
    \o (IF On("gate") /\ IsMessage(p) THEN MessageRules(p) ELSE <<>>)
    \o << <<~Framed(p), "frame">> >>

FirstOf(rules) ==
    LET hits == {i \in DOMAIN rules : rules[i][1]} IN
    IF hits = {} THEN "sent" ELSE rules[CHOOSE i \in hits : \A j \in hits : i <= j][2]

BeforeFilters == {"query", "own", "header", "broadcast"}
Filters       == {"range", "type", "budlist", "noPosition", "notHeard"}

(* Faulty variant: the claim on a follow-up is not released.               *)
TakenNot(call) == assoc

(* msgAssocTake(): the claim is closed up over.                            *)
Taken(call) ==
    LET claims == {i \in DOMAIN assoc : assoc[i] = call}
    IN  IF claims = {} THEN assoc ELSE RemoveAt(assoc, CHOOSE i \in claims : TRUE)

(* msgAssocRemember()                                                      *)
Remembered(ring, call) ==
    IF \E i \in DOMAIN ring : ring[i] = call THEN ring
    ELSE IF Len(ring) < AssocMax THEN Append(ring, call)
    ELSE Append(Tail(ring), call)

Read ==
    /\ stage = "idle" /\ reads < MaxReads /\ reads' = reads + 1
    /\ \E l \in Lines : line' = l /\ verdict' = Mirror(l)
    /\ stage' = "logged" /\ still' = TRUE /\ outcome' = "none"
    /\ UNCHANGED <<heard, now, settings, airs, rings, viaBm, ghosts>>

(* With the way to the radio switched off the handler is not called.       *)
Skip ==
    /\ stage = "logged" /\ ~On("inet2rf")
    /\ stage' = "idle" /\ line' = NoLine /\ verdict' = TRUE /\ still' = FALSE
    /\ UNCHANGED <<heard, now, settings, bounds, rings, viaBm, outcome, ghosts>>

(* The inner source of the line in hand loses its row to the line's own.   *)
Pushed(list) ==
    /\ Wrapped(line) /\ HeardRows(heard, line.inner.src) # {} /\ HeardRows(list, line.inner.src) = {}

Enter ==
    /\ stage = "logged" /\ On("inet2rf") /\ stage' = "heard"
    /\ viaBm' = (On("bm") /\ line.bm)
    /\ heard' = Added(heard, now, line.src,
                      [rf |-> FALSE, direct |-> FALSE, hops |-> 0, tcpip |-> FALSE,
                       bm |-> viaBm'])
    /\ still' = (still /\ ~Pushed(heard'))
    /\ UNCHANGED <<now, settings, bounds, rings, line, verdict, outcome, ghosts>>

(* The decision, and what became of a frame offered to the transmitter.    *)
Decide ==
    LET l      == line
        follow == Owed(l)
        p      == IF ~follow /\ ~Passes(l) /\ Unwraps(l) THEN l.inner ELSE l
        why    == IF On("inet2rf") THEN FirstOf(Rules(l, p, follow)) ELSE "off"
        takes  == On("inet2rf") /\ why \notin BeforeFilters /\ follow
        spaced == ~follow /\ ~IsMessage(p) /\ On("spacing")
        claims == spaced /\ why \in {"sent", "frame"}
        beyond == why \notin BeforeFilters \cup Filters \cup {"off"}
    IN
    /\ stage = "heard" /\ stage' = "idle"
    /\ \E sent \in IF why = "sent" THEN BOOLEAN ELSE {FALSE} :
          /\ outcome' = IF why = "sent" /\ ~sent THEN "refused" ELSE why
          /\ LET left == IF takes THEN Taken(l.src) ELSE assoc
                 told == sent /\ ShapedAsMessage(p) /\ p.dest \in Calls
             IN /\ assoc' = IF told THEN Remembered(left, p.dest) ELSE left
                /\ owed' = [c \in Calls |->
                     IF sent /\ follow /\ c = l.src THEN owed[c] - 1
                     ELSE IF told /\ c = p.dest THEN Lesser(owed[c] + 1, 1) ELSE owed[c]]
          /\ rate' = IF claims THEN Claimed(p.src) ELSE rate
          /\ spoke' = [c \in Calls |->
                IF ~(\E i \in DOMAIN rate' : rate'[i].call = c) THEN Silent
                ELSE IF claims /\ c = p.src THEN 0 ELSE spoke[c]]
          /\ faults' = faults
               \cup (IF claims /\ spoke[p.src] < Interval THEN {"crowded"} ELSE {})
               \cup (IF sent /\ On("gate") /\ IsMessage(p)
                        /\ ~(/\ lastAir[p.dest].at # 0 /\ now - lastAir[p.dest].at <= Window
                             /\ lastAir[p.dest].hops <= MaxHops)
                     THEN {"unreachable"} ELSE {})
               \cup (IF still /\ ~(Wrapped(l) /\ Broadcast(l.inner)) /\ (IF verdict THEN why \in Filters ELSE beyond)
                     THEN {"verdict"} ELSE {})
    /\ line' = NoLine /\ still' = FALSE /\ verdict' = TRUE /\ viaBm' = FALSE
    /\ UNCHANGED <<heard, now, settings, bounds, lastAir>>

----------------------------------------------------------------------------
(* The other tasks                                                         *)

(* aprs_msg_callback() enters the sender of a frame.                       *)
HearOnAir ==
    /\ airs < MaxAir /\ airs' = airs + 1
    /\ \E call \in Audible, hops \in {0, MaxHops + 1} :
          /\ heard' = Added(heard, now, call,
                            [rf |-> TRUE, direct |-> hops = 0, hops |-> hops,
                             tcpip |-> FALSE, bm |-> FALSE])
          /\ lastAir' = [lastAir EXCEPT ![call] = [at |-> now, hops |-> hops]]
    /\ still' = FALSE
    /\ UNCHANGED <<now, settings, reads, rings, line, verdict, viaBm, stage, outcome, owed, spoke, faults>>

Save ==
    /\ saves < MaxSaves /\ saves' = saves + 1
    /\ config' \in Configs \ {config}
    /\ spoke' = [c \in Calls |-> Silent]
    /\ still' = FALSE
    /\ UNCHANGED <<heard, now, bounds, rings, line, verdict, viaBm, stage, outcome, lastAir, owed, faults>>

InetTick ==
    /\ ClockRuns \/ ClockSet
    /\ rate' = [i \in DOMAIN rate |-> [rate[i] EXCEPT !.age = (@ + 1) % TickWrap]]
    /\ spoke' = [c \in Calls |-> Lesser(spoke[c] + 1, Silent)]
    /\ still' = FALSE
    /\ UNCHANGED <<heard, settings, bounds, assoc, line, verdict, viaBm, stage, outcome, lastAir, owed, faults>>

InetNext == Read \/ Skip \/ Enter \/ Decide \/ HearOnAir \/ Save \/ InetTick

InetSpec == InetInit /\ [][InetNext]_inetVars

----------------------------------------------------------------------------
(* The log's verdict is the gate's: on a line between whose logging and    *)
(* decision nothing else happened, and whose own row did not push its      *)
(* inner sender's out of the table, the two filter sets agree, whatever    *)
(* the settings and the rings hold (igate.c:1078-1088).  The addressee of  *)
(* an inner broadcast is the gate's alone to see.                          *)
VerdictStands == "verdict" \notin faults

(* A message is gated only to a station that was really heard on the air   *)
(* within the window and over few enough hops (aprs_service.c:1155-1163).  *)
AddresseeReachable == "unreachable" \notin faults

(* Past the filters goes at most one position report for each message that *)
(* was gated to its sender (aprs_service.c:1221-1223).                     *)
OneFollowUp == \A c \in Calls : owed[c] >= 0

(* A source is not let through twice within the interval while the ring    *)
(* has its slot (aprs_service.c:1243-1255, app_config.h:483-507).          *)
SourcesSpaced == "crowded" \notin faults

(* The gate down keeps to its filters, to the stations it can reach, to    *)
(* one follow-up a message and to its spacing (aprs_service.c:1119-1268).  *)
InetSound == VerdictStands /\ AddresseeReachable /\ OneFollowUp /\ SourcesSpaced
=============================================================================
