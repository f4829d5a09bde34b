---------------------------- MODULE BeaconTimers ----------------------------
(***************************************************************************)
(* The beacon scheduler's round: three position beacons, three status      *)
(* beacons, weather, telemetry and the capabilities line.  One task calls  *)
(* a service for each; the service sends what is due and says in how many  *)
(* seconds it wants the next call, and the task sleeps for the smallest of *)
(* the answers.  The tracker's service also runs SmartBeaconing: its rate  *)
(* follows the speed, and a turn brings its beacon forward.                *)
(*                                                                         *)
(* A due time is kept as the seconds left to it, zero from then on.  Time  *)
(* passes while the task sleeps and, up to MaxBusy seconds in a pass, while*)
(* its transmissions wait for the modem.  A service's switches are one     *)
(* switch: on means enabled with somewhere to send to.  Objects, bulletins *)
(* and queries are served by the same task in modules of their own; their  *)
(* part here is the notification that cuts a sleep short.                  *)
(***************************************************************************)
EXTENDS Naturals, Sequences, FiniteSets, FiniteSetsExt

CONSTANTS
    SwitchedOn,   \* the sets of services switched on to begin with
    Saved,        \* the services a page is saved for later
    Intervals,    \* the intervals a page is saved with
    MinInterval,  \* BEACON_MIN_INTERVAL_S, WX_MIN_INTERVAL_S, TLM_MIN_INTERVAL_S
    DefInterval,  \* the interval that stands for zero
    SlowInterval, FastInterval,   \* trk_sb_slow_interval, trk_sb_fast_interval
    Jitter,       \* the most beacon_scheduler_jitter() adds or takes away
    IdleCheck,    \* the seconds a service that is off asks for
    PollCap,      \* BEACON_SCHED_POLL_CAP_S
    CornerPoll,   \* TRK_SB_CORNER_POLL_S
    MinTurn,      \* trk_sb_min_turn_time
    Headings,     \* headings the receiver reports, 0 .. Headings - 1
    Threshold,    \* the turn that counts at speed
    MaxBusy, MaxSaves, MaxMoves

ASSUME BeaconAssumption ==
    /\ Intervals \subseteq Nat
    /\ {MinInterval, DefInterval, SlowInterval, FastInterval, IdleCheck,
        PollCap, CornerPoll, Headings, Threshold} \subseteq Nat \ {0}
    /\ {Jitter, MinTurn, MaxBusy, MaxSaves, MaxMoves} \subseteq Nat
    /\ Jitter < MinInterval /\ MinInterval <= DefInterval

Order == <<"tracker", "igate", "digi", "trackerStatus", "igateStatus",
           "digiStatus", "weather", "telemetry", "capabilities">>
Services == {Order[i] : i \in DOMAIN Order}
Status   == {"trackerStatus", "igateStatus", "digiStatus"}
Timers   == Services \cup {"info"}
Nowhere  == Headings

VARIABLES
    on,        \* the services that are switched on
    interval,  \* the interval each timer is set to
    smart,     \* trk_use_live_gps and trk_sb_enable
    left,      \* seconds to each s_..._next_due
    turn,      \* the service called next; 0 while the task sleeps
    wait,      \* soonest, then what is left of the sleep
    booting,   \* the modem is being waited for
    notified,  \* the task's notification
    busy,      \* seconds this pass has taken
    fix,       \* the receiver's heading and whether it moves at speed
    peg,       \* s_sb_last_heading_deg and s_sb_last_time_s, as an age
    saves, moves,
    (* what the properties remember *)
    overdue,   \* seconds a service has been on and due
    seen,      \* the services that were on when last called
    since,     \* seconds since each service's last transmission
    crowded,   \* a service transmitted too soon after the last time
    reported,  \* the heading of the tracker's last beacon
    repeg      \* a turn was seen on the heading just reported

settings == <<on, interval, smart, saves>>
world    == <<fix, moves>>
task     == <<turn, wait, booting, notified, busy>>
tracker  == <<peg, reported, repeg>>
ghosts   == <<overdue, seen, since, crowded>>
timerVars == <<settings, left, task, world, tracker, ghosts>>

Spaced == MinInterval - Jitter   \* what NotCrowded asks for
NoPeg   == [heading |-> Nowhere, age |-> 0]
NoFix   == [heading |-> Nowhere, fast |-> FALSE]

TimerInit ==
    /\ on \in SwitchedOn
    /\ \E i \in Intervals : interval = [t \in Timers |-> i]
    /\ smart \in (IF "tracker" \in on THEN BOOLEAN ELSE {FALSE})
    /\ saves = 0
    /\ left = [t \in Timers |-> 0]
    /\ turn = 0 /\ wait = PollCap /\ booting = TRUE /\ notified = FALSE /\ busy = 0
    /\ fix = NoFix /\ moves = 0
    /\ peg = NoPeg /\ reported = Nowhere /\ repeg = FALSE
    /\ overdue = [s \in Services |-> 0] /\ seen = {}
    /\ since = [s \in Services |-> Spaced] /\ crowded = FALSE

(* Faulty variant: a short interval is taken as it is.                     *)
ClampedNot(i) == IF i = 0 THEN DefInterval ELSE i

(* sched_clamp_interval()                                                  *)
Clamped(i) == IF i = 0 THEN DefInterval ELSE IF i < MinInterval THEN MinInterval ELSE i

(* beacon_scheduler_jitter()                                               *)
Jittered(i) == (i - Jitter) .. (i + Jitter)

Less(n) == IF n = 0 THEN 0 ELSE n - 1
Least(a, b) == IF a < b THEN a ELSE b
Wanted(s) == s \in on /\ (s \in Status => interval[s] # 0)

----------------------------------------------------------------------------
(* The world                                                               *)

TimerTick ==
    /\ IF turn = 0 THEN wait > 0 /\ ~notified /\ wait' = wait - 1 /\ UNCHANGED busy
                   ELSE busy < MaxBusy /\ busy' = busy + 1 /\ UNCHANGED wait
    /\ left' = [t \in Timers |-> Less(left[t])]
    /\ overdue' = [s \in Services |->
                      IF Wanted(s) /\ left[s] = 0 /\ ~booting THEN overdue[s] + 1 ELSE 0]
    /\ since' = [s \in Services |-> Least(since[s] + 1, Spaced)]
    /\ peg' = IF peg = NoPeg THEN peg ELSE [peg EXCEPT !.age = Least(@ + 1, MinTurn)]
    /\ UNCHANGED <<settings, turn, booting, notified, world, seen, crowded, reported, repeg>>

PageSaved ==
    /\ saves < MaxSaves /\ saves' = saves + 1
    /\ \E s \in Saved :
          \/ on' = (IF s \in on THEN on \ {s} ELSE on \cup {s}) /\ UNCHANGED interval
          \/ /\ s \in on /\ UNCHANGED on
             /\ \E i \in Intervals : interval' = [interval EXCEPT ![s] = i]
    /\ UNCHANGED <<smart, left, task, world, tracker, ghosts>>

(* The receiver loses its fix, or reports another heading or pace.         *)
Move ==
    /\ smart /\ moves < MaxMoves /\ moves' = moves + 1
    /\ fix' \in {NoFix} \cup [heading : 0 .. Headings - 1, fast : BOOLEAN]
    /\ fix' # fix
    /\ UNCHANGED <<settings, left, task, tracker, ghosts>>

(* beacon_scheduler_wake()                                                 *)
Notify ==
    /\ ~notified /\ notified' = TRUE
    /\ UNCHANGED <<settings, left, turn, wait, booting, busy, world, tracker, ghosts>>

----------------------------------------------------------------------------
(* The services                                                            *)

(* Faulty variant: the answer is the interval, not what is left of it.     *)
WishesWhole(s, due) == IF Wanted(s) THEN Clamped(interval[s]) ELSE IdleCheck

(* What a service answers when its next transmission is due in due seconds.*)
Wishes(s, due) == IF ~Wanted(s) THEN IdleCheck ELSE IF due = 0 THEN 1 ELSE due

Answer(seconds) ==
    /\ wait' = Least(wait, seconds)
    /\ turn' = turn + 1
    /\ UNCHANGED <<settings, booting, notified, busy, world>>

Sends(s) ==
    /\ seen' = seen \cup {s}
    /\ since' = [since EXCEPT ![s] = 0]
    /\ overdue' = [overdue EXCEPT ![s] = 0]
    /\ crowded' = (crowded \/ since[s] < Spaced)
Rests(s) ==
    /\ seen' = (IF Wanted(s) THEN seen \cup {s} ELSE seen \ {s})
    /\ since' = [since EXCEPT ![s] = IF Wanted(s) THEN @ ELSE Spaced]
    /\ overdue' = [overdue EXCEPT ![s] = IF Wanted(s) THEN @ ELSE 0]
    /\ UNCHANGED crowded

Periodic(s) ==
    /\ turn \in DOMAIN Order /\ Order[turn] = s
    /\ \E due \in IF ~Wanted(s) THEN {0}
                  ELSE IF left[s] > 0 THEN {left[s]} ELSE Jittered(Clamped(interval[s])) :
          left' = [left EXCEPT ![s] = due] /\ Answer(Wishes(s, due))
    /\ IF Wanted(s) /\ left[s] = 0 THEN Sends(s) ELSE Rests(s)
    /\ UNCHANGED tracker

IgateBeacon   == Periodic("igate")
DigiBeacon    == Periodic("digi")
TrackerStatus == Periodic("trackerStatus")
IgateStatus   == Periodic("igateStatus")
DigiStatus    == Periodic("digiStatus")
Weather       == Periodic("weather")
Capabilities  == Periodic("capabilities")

(* The data reports, and the four parameter messages on a timer of their   *)
(* own that carries no jitter and is off at zero.                          *)
InfoEvery == IF interval["info"] = 0 THEN 0 ELSE Clamped(interval["info"])
Telemetry ==
    LET s    == "telemetry"
        info == IF ~Wanted(s) \/ InfoEvery = 0 THEN 0
                ELSE IF left["info"] = 0 THEN InfoEvery ELSE left["info"]
        rest == IF InfoEvery = 0 THEN MinInterval ELSE info
    IN
    /\ turn \in DOMAIN Order /\ Order[turn] = s
    /\ \E due \in IF ~Wanted(s) THEN {0}
                  ELSE IF left[s] > 0 THEN {left[s]} ELSE Jittered(Clamped(interval[s])) :
          /\ left' = [left EXCEPT ![s] = due, !["info"] = info]
          /\ Answer(IF Wanted(s) THEN Wishes(s, Least(due, rest)) ELSE IdleCheck)
    /\ IF Wanted(s) /\ left[s] = 0 THEN Sends(s) ELSE Rests(s)
    /\ UNCHANGED tracker

(* headingDeltaDeg(), without its sign                                     *)
Turned(a, b) == LET d == (a + Headings - b) % Headings IN Least(d, Headings - d)

(* smartBeaconingCornerPegged(): the first heading is only remembered; at  *)
(* a slow pace the threshold is beyond any turn.                           *)
Pegs == /\ peg # NoPeg
        /\ peg.age >= MinTurn
        /\ fix.fast /\ Turned(peg.heading, fix.heading) >= Threshold
Pegged(yes) == IF yes \/ peg = NoPeg THEN [heading |-> fix.heading, age |-> 0] ELSE peg

(* smartBeaconingInterval() at the two paces, or the page's interval when  *)
(* there is no fix to rate.                                                *)
TrackerEvery ==
    IF ~smart \/ fix = NoFix THEN Clamped(interval["tracker"])
    ELSE Clamped(IF fix.fast THEN FastInterval ELSE SlowInterval)

Tracker ==
    LET s      == "tracker"
        watch  == Wanted(s) /\ smart /\ fix # NoFix
        corner == watch /\ left[s] > 0 /\ Pegs
        send   == Wanted(s) /\ (left[s] = 0 \/ corner)
    IN
    /\ turn \in DOMAIN Order /\ Order[turn] = s
    /\ \E due \in IF ~Wanted(s) THEN {0}
                  ELSE IF send THEN Jittered(TrackerEvery) ELSE {left[s]} :
          /\ left' = [left EXCEPT ![s] = due]
          /\ Answer(IF Wanted(s) /\ smart THEN Least(Wishes(s, due), CornerPoll)
                                          ELSE Wishes(s, due))
    /\ peg' = IF ~Wanted(s) THEN NoPeg
              ELSE IF watch THEN Pegged(Pegs) ELSE peg
    /\ IF send
       THEN /\ since' = [since EXCEPT ![s] = 0] /\ seen' = seen \cup {s}
            /\ overdue' = [overdue EXCEPT ![s] = 0]
            /\ reported' = IF watch THEN fix.heading ELSE Nowhere
            /\ repeg' = (repeg \/ (corner /\ fix.heading = reported))
            /\ crowded' = (crowded \/ (~corner /\ since[s] < Spaced))
       ELSE Rests(s) /\ UNCHANGED <<reported, repeg>>

(* Every service has been called: the task sleeps.                         *)
Sleep ==
    /\ turn > Len(Order)
    /\ turn' = 0 /\ busy' = 0
    /\ UNCHANGED <<settings, left, wait, booting, notified, world, tracker, ghosts>>

NextPass ==
    /\ turn = 0 /\ (wait = 0 \/ notified \/ booting)
    /\ turn' = 1 /\ wait' = PollCap /\ booting' = FALSE
    /\ notified' = (notified /\ booting)
    /\ UNCHANGED <<settings, left, busy, world, tracker, ghosts>>

TimerNext ==
    \/ TimerTick \/ PageSaved \/ Move \/ Notify
    \/ Tracker \/ IgateBeacon \/ DigiBeacon \/ TrackerStatus \/ IgateStatus
    \/ DigiStatus \/ Weather \/ Telemetry \/ Capabilities
    \/ Sleep \/ NextPass

TimerSpec == TimerInit /\ [][TimerNext]_timerVars

----------------------------------------------------------------------------
(* A beacon that is due goes out within the seconds two passes may take,   *)
(* or within a re-check more when its service was off: neither the sleep   *)
(* nor another service holds it up longer (beacon_scheduler.c:177-202,     *)
(* beacon.c:1204-1206).                                                    *)
OnTime == \A s \in Services :
             overdue[s] <= (IF s \in seen THEN 0 ELSE IdleCheck) + 2 * MaxBusy

(* No beacon goes out twice within the least interval less its jitter, whatever*)
(* wakes the task and however often, unless it was seen switched off in    *)
(* between or a turn brought the tracker's forward.                        *)
NotCrowded == ~crowded

(* What a comment says of the turn: "a beacon that just went out for       *)
(* hitting the rate interval must not immediately re-peg on the same       *)
(* heading it just reported" (beacon.c:1611-1616).  The baseline is only   *)
(* refreshed when the turn would have pegged.                              *)
NoRepeg == ~repeg

(* The timers neither hold a beacon up nor crowd it (beacon.c:1204-1700).  *)
TimersSound == OnTime /\ NotCrowded
=============================================================================
