----------------------------- MODULE UplinkGate -----------------------------
(***************************************************************************)
(* The way from the radio to APRS-IS.  The receive task takes one decoded  *)
(* frame at a time: it forms the traffic log's verdict on it, enters its   *)
(* sender in the last-heard table, lets the digipeater rewrite its path,   *)
(* and then the IGate judges it, writes the line's header with the q       *)
(* construct and sends the line.  A third-party frame is judged and gated  *)
(* as the packet inside it.  Between the steps a page is saved, lines from *)
(* the server enter the table, and beacons are sent over the same socket.  *)
(*                                                                         *)
(* A frame is its source, the hops of its path, what it carries, and       *)
(* whether it is a UI frame of two bytes or more.  The duplicate cache is  *)
(* the set of what it remembers, which it may forget; its ring is RxDispatch.*)
(* Callsigns are without SSID, so the callsign filter's and the table's    *)
(* are one.  Header and line lengths are a property of the frame.          *)
(***************************************************************************)
EXTENDS HeardList, Integers

CONSTANTS
    Traffic,        \* the frames received
    Configs,        \* the settings: sets of switches, and of the types let through
    Placeholders,   \* kSrcPlaceholderPrefixes: no station is called so
    Unconfigured,   \* NOCALL and MYCALL, which the dispatch stops at
    Listed,         \* the callsign filter's list
    Prefixed,       \* callsigns with a listed prefix
    Online,         \* the stations the server's lines are from
    Window,         \* igate_local_window_sec
    MaxHops,        \* igate_msg_max_hops
    MaxFrames, MaxSaves, MaxServerLines, MaxOwnLines

(* An address of a frame's path.                                           *)
Hop == [call : STRING, used : BOOLEAN]

ASSUME UplinkAssumption ==
    /\ {Window, MaxHops} \subseteq Nat
    /\ {MaxFrames, MaxSaves, MaxServerLines, MaxOwnLines} \subseteq Nat
    /\ \A f \in Traffic : f \in [src : Calls, path : Seq(Hop), body : {f.body},
                                 ui : BOOLEAN, short : BOOLEAN, long : BOOLEAN]
    /\ Online \subseteq Calls

VARIABLES
    config,
    seen,      \* what the duplicate cache remembers for the IGate
    stage,     \* "idle", "heard", "repeated", "gated"
    frame,     \* the frame in hand, its path as the digipeater left it
    tnc2,      \* the line to be sent
    shown,     \* the frame went to the traffic log
    counts,    \* s_stats
    frames, saves, serverLines, ownLines,   \* what is bounded
    (* what the properties remember *)
    received,  \* the frame in hand, as it was received
    still      \* no page was saved since

settings == <<config, saves>>
hand     == <<stage, frame, tnc2, shown, received, still>>
bounds   == <<frames, serverLines, ownLines>>
uplinkVars == <<heard, now, settings, seen, hand, counts, bounds>>

NoFrame == CHOOSE f \in Traffic : TRUE
NoLine  == [src |-> NoFrame.src, path |-> <<>>, body |-> NoFrame.body, q |-> "qAO"]
Counters == {"rx", "dup", "tx", "isTx", "messages", "drops"}

UplinkInit ==
    /\ heard = <<>> /\ now = 1
    /\ config \in Configs /\ seen = {}
    /\ stage = "idle" /\ frame = NoFrame /\ tnc2 = NoLine /\ shown = FALSE
    /\ counts = [c \in Counters |-> 0]
    /\ frames = 0 /\ saves = 0 /\ serverLines = 0 /\ ownLines = 0
    /\ received = NoFrame /\ still = TRUE

On(switch) == switch \in config

----------------------------------------------------------------------------
(* What the gate and the traffic log share                                 *)

Types == {"message", "position", "status", "query"}

(* thirdPartyUnwrap(): the packet inside, unless the header of the packet  *)
(* is no header, says that it was on the Internet, or wraps another one.   *)
Wrapped(f) == f.body.kind = "third"
Loop(f)    == \E i \in DOMAIN f.body.inner.path : f.body.inner.path[i].call = "tcpip"
Nested(f)  == f.body.inner.body.kind = "third"
Unwraps(f) == Wrapped(f) /\ f.body.header /\ ~Loop(f) /\ ~Nested(f)

(* effectiveFrameView(): who sent what, for the filters.                   *)
EffectiveView(f) == IF Unwraps(f) THEN f.body.inner ELSE f

(* satGateListPass(): every listed satellite of the path has repeated it.  *)
SatelliteUsed(f) == \A i \in DOMAIN f.path : f.path[i].call = "sat" => f.path[i].used

Budlist(call) == CASE On("white") -> call \in Listed
                   [] On("black") -> call \notin Listed
                   [] OTHER -> TRUE

(* rf2inetFiltersPass(), with the reason it counts.  A payload without a   *)
(* position is not asked for its range.                                    *)
FilterReasons(f) ==
    << <<~(f.body.kind \in Types /\ On(f.body.kind)), "type filter">>,
       <<On("range") /\ f.body.place = "far", "range filter">>,
       <<On("prefix") /\ f.src \notin Prefixed, "prefix filter">>,
       <<~Budlist(f.src), "callsign filter">> >>

FirstOf(reasons) ==
    LET hits == {i \in DOMAIN reasons : reasons[i][1]} IN
    IF hits = {} THEN "none" ELSE reasons[CHOOSE i \in hits : \A j \in hits : i <= j][2]

(* Faulty variant: the log reads a third-party frame as it stands.         *)
LogAcceptsOuter(f) ==
    On("logFiltered") => SatelliteUsed(f) /\ FirstOf(FilterReasons(f)) = "none"

(* igate_log_accepts_frame()                                               *)
LogAccepts(f) ==
    On("logFiltered") =>
        SatelliteUsed(f) /\ FirstOf(FilterReasons(EffectiveView(f))) = "none"

----------------------------------------------------------------------------
(* The IGate's own part                                                    *)

Key(f) == [src |-> f.src, body |-> f.body]
Duplicate(f) == On("dup") /\ Key(f) \in seen

(* RFONLY, NOGATE, TCP* or a q construct in the frame's own path           *)
Barred(f) == \E i \in DOMAIN f.path : f.path[i].call \in {"nogate", "tcpip"}

(* The header does not fit its buffer, or the line the 512 bytes of APRS-IS *)
OverLong(f) == f.long

(* igateProcess(), before and after the duplicate cache                    *)
Early(f) == << <<f.src \in Placeholders, "placeholder">>, <<~f.ui, "not APRS">> >>

Late(f) ==
    LET packet == EffectiveView(f) IN
    << <<f.short, "too short">>,
       <<Barred(f), "path token">>,
       <<~SatelliteUsed(f), "satellite not used">>,
       <<Wrapped(f) /\ ~f.body.header, "too short">>,
       <<Wrapped(f) /\ Loop(f), "loop">>,
       <<Wrapped(f) /\ Nested(f), "nested">>,
       <<packet.body.kind = "query", "generic query">> >>
    \o FilterReasons(packet)
    \o << <<OverLong(f), "too long">> >>

(* Faulty variant: a station on the Internet is promised messages as well. *)
QConstructAnyone(call) == IF On("toRf") THEN "qAR" ELSE "qAO"

(* qConstructFor()                                                         *)
QConstruct(call) ==
    IF On("toRf") /\ ~HeardInet(heard, now, call, Window) THEN "qAR" ELSE "qAO"

(* The line's header is the inner packet's for a third-party frame.        *)
LineOf(f) ==
    LET packet == EffectiveView(f) IN
    [src |-> packet.src, path |-> packet.path, body |-> packet.body, q |-> QConstruct(packet.src)]

----------------------------------------------------------------------------
(* The receive task                                                        *)

Hops(f) == Cardinality({i \in DOMAIN f.path : f.path[i].used})

Idle == stage' = "idle" /\ frame' = NoFrame /\ tnc2' = NoLine
        /\ shown' = FALSE /\ received' = NoFrame /\ still' = TRUE

(* igate_note_drop() and the counters of s_stats                           *)
Count(which) == counts' = [c \in Counters |-> counts[c] + (IF c \in which THEN 1 ELSE 0)]

(* aprs_msg_callback() as far as the placeholder check: the log, then the  *)
(* last-heard table, with the source in it either way.                     *)
Receive(f) ==
    /\ stage = "idle" /\ frames < MaxFrames /\ frames' = frames + 1
    /\ heard' = Added(heard, now, f.src, [rf |-> TRUE, direct |-> Hops(f) = 0, hops |-> Hops(f),
                                          tcpip |-> FALSE, bm |-> FALSE])
    /\ IF f.src \in Unconfigured THEN Idle
       ELSE /\ stage' = "heard" /\ frame' = f /\ received' = f /\ tnc2' = NoLine
            /\ shown' = LogAccepts(f) /\ still' = TRUE
    /\ UNCHANGED <<now, settings, seen, counts, serverLines, ownLines>>

(* digiProcess(): the first hop not used yet becomes this station's when   *)
(* it may be repeated.  The path rules are DigiPath's.                     *)
Unused(path) == {i \in DOMAIN path : ~path[i].used}
Next1(path) == CHOOSE i \in Unused(path) : \A j \in Unused(path) : i <= j
Repeatable(path) == Unused(path) # {} /\ path[Next1(path)].call = "wide"

Digipeat ==
    /\ stage = "heard" /\ stage' = "repeated"
    /\ frame' = IF On("digi") /\ Repeatable(frame.path)
                THEN [frame EXCEPT !.path[Next1(frame.path)] = [call |-> "own", used |-> TRUE]]
                ELSE frame
    /\ UNCHANGED <<heard, now, settings, seen, counts, bounds>>
    /\ UNCHANGED <<tnc2, shown, received, still>>

(* igateProcess() up to the send.  The cache remembers the frame whatever  *)
(* becomes of it afterwards.                                               *)
Judge ==
    /\ stage = "repeated"
    /\ LET early == FirstOf(Early(frame))
           late  == FirstOf(Late(frame))
       IN
       CASE ~On("rf2inet") -> Idle /\ UNCHANGED <<seen, counts>>
         [] On("rf2inet") /\ early # "none" -> Idle /\ Count({"rx", "drops"}) /\ UNCHANGED seen
         [] On("rf2inet") /\ early = "none" /\ Duplicate(frame) ->
                Idle /\ Count({"rx", "dup"}) /\ UNCHANGED seen
         [] OTHER ->
                /\ seen' = IF On("dup") THEN seen \cup {Key(frame)} ELSE seen
                /\ IF late # "none" THEN Idle /\ Count({"rx", "drops"})
                   ELSE /\ stage' = "gated" /\ tnc2' = LineOf(frame) /\ Count({"rx"})
                        /\ UNCHANGED <<frame, shown, received, still>>
    /\ UNCHANGED <<heard, now, settings, bounds>>

(* sendToAprsIs(): what it counts itself, and what its caller counts on    *)
(* success.  It fails without a socket, and when the socket refuses.       *)
SentCounts(ok, ours) == IF ok THEN {"isTx"} \cup ours ELSE {"drops"}

SendLine ==
    /\ stage = "gated"
    /\ \E ok \in BOOLEAN :
          Count(SentCounts(ok, {"tx"} \cup (IF tnc2.body.kind = "message" THEN {"messages"} ELSE {})))
    /\ Idle
    /\ UNCHANGED <<heard, now, settings, seen, bounds>>

----------------------------------------------------------------------------
(* Everything else                                                         *)

(* igate_send_raw(): a beacon or a message of this station's own.          *)
SendOwn ==
    /\ ownLines < MaxOwnLines /\ ownLines' = ownLines + 1
    /\ \E ok \in BOOLEAN : Count(SentCounts(ok, {}))
    /\ UNCHANGED <<heard, now, settings, seen, hand, frames, serverLines>>

(* The APRS-IS task reads a line of a station.                             *)
ServerLine(call) ==
    /\ serverLines < MaxServerLines /\ serverLines' = serverLines + 1
    /\ heard' = Added(heard, now, call, [rf |-> FALSE, direct |-> FALSE, hops |-> 0,
                                         tcpip |-> TRUE, bm |-> FALSE])
    /\ UNCHANGED <<now, settings, seen, hand, counts, frames, ownLines>>

SavePage ==
    /\ saves < MaxSaves /\ saves' = saves + 1
    /\ config' \in Configs \ {config} /\ still' = FALSE
    /\ UNCHANGED <<heard, now, seen, counts, bounds>>
    /\ UNCHANGED <<stage, frame, tnc2, shown, received>>

(* The cache's entries expire, or newer ones take their place.             *)
Forget ==
    /\ \E k \in seen : seen' = seen \ {k}
    /\ UNCHANGED <<heard, now, settings, hand, counts, bounds>>

Clock ==
    /\ ClockRuns \/ ClockSet
    /\ UNCHANGED <<heard, settings, seen, hand, counts, bounds>>

UplinkNext ==
    \/ \E f \in Traffic : Receive(f)
    \/ Digipeat \/ Judge \/ SendLine \/ SendOwn
    \/ \E c \in Online : ServerLine(c)
    \/ SavePage \/ Forget \/ Clock

UplinkSpec == UplinkInit /\ [][UplinkNext]_uplinkVars

----------------------------------------------------------------------------
(* Properties                                                              *)

(* While the log is filtered, what is sent to the server was shown: the    *)
(* log's copy of the filters and the gate's agree on one set of settings,  *)
(* with the digipeater between them.                                       *)
GatedIsShown == stage = "gated" /\ still => shown

(* The dashboard's counters: every frame considered is a duplicate, was    *)
(* sent or was dropped, once, with a beacon's failure among the drops.     *)
Accounted ==
    LET pending == IF stage = "gated" THEN 1 ELSE 0 IN
    /\ counts["rx"] + ownLines = counts["dup"] + counts["isTx"] + counts["drops"] + pending
    /\ counts["messages"] <= counts["tx"] /\ counts["tx"] <= counts["isTx"]

(* What was on the Internet, was asked to stay off it or is a query to     *)
(* everybody does not reach the server, wrapped or not.                    *)
KeptOff ==
    stage = "gated" =>
        /\ \A p \in {received.path, tnc2.path} : \A i \in DOMAIN p : p[i].call # "tcpip"
        /\ \A i \in DOMAIN received.path : received.path[i].call # "nogate"
        /\ \A i \in DOMAIN received.path :
              received.path[i].call = "sat" => received.path[i].used
        /\ tnc2.body.kind \notin {"query", "third"}
        /\ received.src \notin Placeholders \cup Unconfigured

UplinkSound == GatedIsShown /\ Accounted /\ KeptOff

(* messageGatePass(), for what its addressee must be.                      *)
Deliverable(call) ==
    HeardRf(heard, now, call, Window, MaxHops) /\ ~HeardInet(heard, now, call, Window)

Promises == stage # "gated" /\ stage' = "gated" /\ tnc2'.q = "qAR"

(* Who is gated as qAR, directly and from within the hops messages are     *)
(* gated over, would be sent a message that came for him now, unless the   *)
(* table gave his row up or it aged while the digipeater was at work.      *)
PlainFromWithin ==
    /\ ~Wrapped(frame) /\ Hops(received) <= MaxHops
    /\ Recent(now, HeardRow(heard, tnc2'.src).rf, Window)
PromiseWithinReach == [][Promises /\ PlainFromWithin => Deliverable(tnc2'.src)]_uplinkVars

(* igate.c: "a bidirectional one still answers qAO for each station it     *)
(* would decline to deliver to".  A station heard over more hops than the  *)
(* message gate allows, or inside a third-party frame only, gets qAR.      *)
PromiseKept == [][Promises => Deliverable(tnc2'.src)]_uplinkVars

(* igate.c: the wrapped packet is gated "exactly as if it had been heard   *)
(* directly".  Its own path tokens and source are not looked at.           *)
AsHeardDirectly ==
    stage = "gated" /\ Wrapped(received) =>
        LET inner == received.body.inner IN ~Barred(inner) /\ inner.src \notin Placeholders
=============================================================================
