----------------------------- MODULE TelegramApp -----------------------------
(***************************************************************************)
(* The life cycle of the Telegram bot (main/telegram_app.c): the page that *)
(* saves the settings, the 1 Hz tick, and the single short-lived worker    *)
(* that starts the service, releases it and drains the notification queue. *)
(*                                                                         *)
(* Tasks: the web server (web), the service tick (tick), whoever asks for  *)
(* a drain (asking counts them: the two receive tasks, a worker on its way *)
(* out) and the worker.  A claimed slot whose task is not created yet is   *)
(* creating; the worker then goes through its steps in wk.                 *)
(*                                                                         *)
(* The link and the free heap are read where the code reads them and may   *)
(* be anything there.  lost and stranded are ghosts: they tell the runs    *)
(* apart in which a task could not be created, or a save fell into the     *)
(* window the code leaves open.                                            *)
(***************************************************************************)
EXTENDS Naturals

CONSTANTS
    Tokens,      \* a subset of {"absent", "malformed", "refused", "accepted"}
    QueueLen,    \* TELEGRAM_NOTIFY_QUEUE_LEN
    RetryTicks,  \* TELEGRAM_RETRY_SECONDS
    NoticeWait,  \* TELEGRAM_START_NOTICE_DELAY_S
    NoticeGiveUp,\* TELEGRAM_START_NOTICE_GIVEUP_S
    MaxSaves,    \* bound: saves of the page
    MaxPushes,   \* bound: notifications routed
    MaxFaults,   \* bound: failed creations, polling tasks that end
    MaxAskers    \* bound: tasks on their way to a claim, workers on their way out

ASSUME AppAssumption ==
    /\ Tokens \subseteq {"absent", "malformed", "refused", "accepted"}
    /\ {QueueLen, NoticeGiveUp} \subseteq Nat \ {0}
    /\ MaxAskers \in Nat \ {0}
    /\ {RetryTicks, NoticeWait, MaxSaves, MaxPushes, MaxFaults} \subseteq Nat

VARIABLES
    live,      \* s_cfg and s_enabled: which save (n), enable, token
    action,    \* s_action
    busy,      \* s_worker_busy
    creating,  \* between worker_claim() and the end of xTaskCreate()
    tick, tickAction,
    web,
    asking,
    wk, wkAction, local,
    kicks,     \* workers that released the slot and have not looked at the queue again
    serviceUp, \* s_service_up
    with,      \* the settings the service was brought up with
    polling,   \* the service's polling task exists
    verified,  \* s_token_verified
    retry,     \* s_retry_in
    status,    \* s_status: state and reason
    queue,     \* items in s_notify_queue
    notice,    \* the start-up notice's flags and countdowns
    pushes, faults,
    lost, stranded, sent

settings == <<live, verified, retry, status>>
spawning == <<busy, creating, tick, tickAction, asking>>
worker == <<wk, wkAction, local, kicks>>
service == <<serviceUp, with, polling>>
world == <<pushes, faults>>
ghosts == <<lost, stranded, sent>>
vars == <<settings, action, spawning, web, worker, service, queue, notice, world, ghosts>>

Actions == {"NONE", "START", "STOP"}
Never == RetryTicks + 1
Running == [state |-> "RUNNING", reason |-> "CONNECTED"]
Waiting == [state |-> "STARTING", reason |-> "WAITING_NETWORK"]
Disabled == [state |-> "DISABLED", reason |-> "DISABLED"]
Fault(why) == [state |-> "ERROR", reason |-> why]

\* reason_is_transient(): DNS, TCP and initialisation faults are CONNECT_FAILED here
Transient(why) == why \in {"WAITING_NETWORK", "NO_MEMORY", "CONNECT_FAILED", "TASK_FAILED"}

\* a local copy nobody reads any more
Blank == [n |-> 0, enable |-> FALSE, token |-> "absent"]
NoNotice == [owed |-> FALSE, pending |-> FALSE, done |-> FALSE, wait |-> 0, giveup |-> 0]

Init ==
    /\ live \in [n: {0}, enable: BOOLEAN, token: Tokens]
    /\ live.enable \/ live.token = "absent"
    /\ action = IF live.enable THEN "START" ELSE "STOP"
    /\ busy = FALSE /\ creating = "no" /\ tick = "idle" /\ tickAction = "NONE" /\ asking = 0
    /\ web = "idle"
    /\ wk = "none" /\ wkAction = "NONE" /\ local = Blank /\ kicks = 0
    /\ serviceUp = FALSE /\ with = Blank /\ polling = FALSE
    /\ verified = FALSE /\ retry = 0
    /\ status = IF live.enable THEN Waiting ELSE Disabled
    /\ queue = 0 /\ notice = NoNotice
    /\ pushes = 0 /\ faults = 0
    /\ lost = FALSE /\ stranded = FALSE /\ sent = 0

-----------------------------------------------------------------------------
(* telegram_app_apply_config() on the web server's task: the new settings   *)
(* are published under the lock, then the order is left for the tick.  A    *)
(* file that cannot be read is a switched off bot, and nobody looks at the  *)
(* token of a bot that is off.                                              *)
Publish(enable, token) ==
    /\ web = "idle" /\ live.n < MaxSaves
    /\ live' = [n |-> live.n + 1, enable |-> enable, token |-> IF enable THEN token ELSE "absent"]
    /\ web' = "order"
    /\ UNCHANGED <<action, verified, retry, status, spawning, worker, service, queue, notice,
                   world, lost, stranded, sent>>

Unreadable ==
    /\ web = "idle" /\ live.n < MaxSaves /\ faults < MaxFaults
    /\ faults' = faults + 1
    /\ live' = [n |-> live.n + 1, enable |-> FALSE, token |-> "absent"]
    /\ status' = Fault("FILE_UNREADABLE")
    /\ web' = "order"
    /\ UNCHANGED <<action, verified, retry, spawning, worker, service, queue, notice, pushes, ghosts>>

Order ==
    /\ web = "order"
    /\ IF live.enable
       THEN /\ status' = Waiting /\ verified' = FALSE /\ retry' = 0 /\ action' = "START"
       ELSE /\ action' = "STOP" /\ UNCHANGED <<status, verified, retry>>
    /\ lost' = (lost \/ (tick \in {"create", "clear"} /\ tickAction = action'))
    /\ web' = "idle"
    /\ UNCHANGED <<live, spawning, worker, service, queue, notice, world, stranded, sent>>

-----------------------------------------------------------------------------
(* worker_spawn(): the claim, then xTaskCreate().  A drain is asked for by  *)
(* anyone; an action and the start-up notice by the tick alone.             *)
Claim(what) ==
    IF busy THEN UNCHANGED <<busy, creating>> ELSE busy' = TRUE /\ creating' = what

Ask ==
    /\ asking > 0
    /\ asking' = asking - 1
    /\ Claim("NONE")
    /\ UNCHANGED <<settings, action, tick, tickAction, web, worker, service, queue, notice, world, ghosts>>

Created ==
    /\ creating # "no"
    /\ wk' = (IF creating = "NONE" THEN "batch" ELSE "act")
    /\ wkAction' = creating
    /\ creating' = "no"
    /\ tick' = (IF tick = "create" THEN "clear" ELSE tick)
    /\ stranded' = FALSE
    /\ UNCHANGED <<settings, action, busy, tickAction, asking, web, local, kicks, service, queue, notice,
                   world, lost, sent>>

NotCreated ==
    /\ creating # "no" /\ faults < MaxFaults
    /\ faults' = faults + 1
    /\ creating' = "no" /\ busy' = FALSE
    /\ tick' = (IF tick = "create" THEN "clear" ELSE tick)
    /\ IF creating = "NONE"
       THEN /\ stranded' = TRUE /\ UNCHANGED <<status, retry, lost>>
       ELSE /\ status' = Fault("TASK_FAILED") /\ retry' = RetryTicks
            /\ lost' = TRUE /\ stranded' = TRUE
    /\ UNCHANGED <<live, verified, action, tickAction, asking, web, worker, service, queue, notice, pushes, sent>>

-----------------------------------------------------------------------------
(* telegram_app_tick_1hz()                                                  *)
TickSpawns(what) == tick' = "claim" /\ tickAction' = what

TickOrder ==
    /\ tick = "idle" /\ action # "NONE"
    /\ TickSpawns(action)
    /\ UNCHANGED <<settings, action, busy, creating, asking, web, worker, service, queue, notice, world, ghosts>>

TickClaims ==
    /\ tick = "claim"
    /\ Claim(tickAction)
    /\ IF busy \/ tickAction = "NONE"
       THEN tick' = "idle" /\ tickAction' = "NONE"
       ELSE tick' = "create" /\ UNCHANGED tickAction
    /\ UNCHANGED <<settings, action, asking, web, worker, service, queue, notice, world, ghosts>>

\* Faulty variant: whatever is pending is cleared.
ClearedAny == IF tickAction = "NONE" THEN action ELSE "NONE"
\* action_clear_if(): the order is forgotten if it still is the one read
Cleared == IF action = tickAction THEN "NONE" ELSE action

TickClears ==
    /\ tick = "clear"
    /\ tick' = "idle" /\ tickAction' = "NONE"
    /\ action' = Cleared
    /\ UNCHANGED <<settings, busy, creating, asking, web, worker, service, queue, notice, world, ghosts>>

TickWorks == tick = "idle" /\ action = "NONE" /\ live.enable /\ ~busy

TickService ==
    /\ TickWorks /\ serviceUp
    /\ IF ~polling
       THEN status' = Fault("CONNECT_FAILED") /\ TickSpawns("START")
       ELSE status' \in {Running, Waiting} /\ UNCHANGED <<tick, tickAction>>
    /\ polling /\ notice.owed => status' = Waiting
    /\ UNCHANGED <<live, verified, retry, action, busy, creating, asking, web, worker, service, queue,
                   notice, world, ghosts>>

\* start_notice_tick(), with the giving up first
TickNotice ==
    /\ TickWorks /\ serviceUp /\ polling /\ notice.owed
    /\ status' = Running
    /\ LET left == IF notice.giveup > 0 THEN notice.giveup - 1 ELSE 0
       IN  IF left = 0
           THEN /\ notice' = [notice EXCEPT !.giveup = 0, !.owed = FALSE]
                /\ UNCHANGED <<tick, tickAction>>
           ELSE IF notice.wait > 0
           THEN /\ notice' = [notice EXCEPT !.giveup = left, !.wait = @ - 1]
                /\ UNCHANGED <<tick, tickAction>>
           ELSE \/ /\ notice' = [notice EXCEPT !.giveup = left]
                   /\ UNCHANGED <<tick, tickAction>>
                \/ /\ notice' = [notice EXCEPT !.giveup = left, !.owed = FALSE, !.pending = TRUE]
                   /\ TickSpawns("NONE")
    /\ UNCHANGED <<live, verified, retry, action, busy, creating, asking, web, worker, service, queue, world, ghosts>>

TickRetry ==
    /\ TickWorks /\ ~serviceUp /\ retry # Never
    /\ \/ /\ retry > 0 /\ retry' = retry - 1
          /\ UNCHANGED <<status, tick, tickAction>>
       \/ /\ retry = 0 /\ status' = Waiting
          /\ UNCHANGED <<retry, tick, tickAction>>
       \/ /\ retry = 0 /\ TickSpawns("START")
          /\ UNCHANGED <<retry, status>>
    /\ UNCHANGED <<live, verified, action, busy, creating, asking, web, worker, service, queue, notice, world, ghosts>>

-----------------------------------------------------------------------------
(* telegram_worker_task(), and bring_up_attempt() inside it.                *)

\* the end of the action stage with this reason
Ends(why) ==
    /\ wk' = "batch"
    /\ retry' = (IF Transient(why) THEN RetryTicks ELSE Never)

Teardown ==
    /\ wk = "act" /\ serviceUp
    /\ serviceUp' = FALSE /\ polling' = FALSE /\ with' = Blank
    /\ UNCHANGED <<settings, action, spawning, web, worker, queue, notice, world, ghosts>>

Stopped ==
    /\ wk = "act" /\ ~serviceUp /\ wkAction = "STOP"
    /\ wk' = "batch"
    /\ status' = Disabled /\ retry' = Never
    /\ UNCHANGED <<live, verified, action, spawning, web, wkAction, local, kicks, service, queue, notice, world, ghosts>>

\* the snapshot of the settings; a token that cannot be one ends the attempt
Snapshot ==
    /\ wk = "act" /\ ~serviceUp /\ wkAction = "START"
    /\ local' = live
    /\ IF live.token \in {"absent", "malformed"}
       THEN Ends(IF live.token = "absent" THEN "NO_TOKEN" ELSE "TOKEN_MALFORMED")
       ELSE wk' = "connect" /\ UNCHANGED retry
    /\ UNCHANGED <<live, verified, status, action, spawning, web, wkAction, kicks, service, queue, notice, world, ghosts>>

\* network, heap, probe and telegram_init()
Connect ==
    /\ wk = "connect"
    /\ \/ /\ Ends("WAITING_NETWORK") /\ status' = Waiting
       \/ /\ Ends("NO_MEMORY") /\ status' = Fault("NO_MEMORY")
       \/ /\ wk' = (IF verified THEN "start" ELSE "verify")
          /\ status' = [state |-> "STARTING", reason |-> "CONNECTED"] /\ UNCHANGED retry
    /\ UNCHANGED <<live, verified, action, spawning, web, wkAction, local, kicks, service, queue, notice, world, ghosts>>

ConnectFails ==
    /\ wk \in {"connect", "verify"} /\ faults < MaxFaults
    /\ faults' = faults + 1
    /\ Ends("CONNECT_FAILED") /\ status' = Fault("CONNECT_FAILED")
    /\ UNCHANGED <<live, verified, action, spawning, web, wkAction, local, kicks, service, queue, notice, pushes, ghosts>>

\* verify_token()
Verify ==
    /\ wk = "verify"
    /\ \/ /\ Ends("CONNECT_FAILED") /\ status' = Fault("CONNECT_FAILED") /\ UNCHANGED verified
       \/ /\ local.token # "accepted"
          /\ Ends("API_REJECTED") /\ status' = Fault("API_REJECTED") /\ UNCHANGED verified
       \/ /\ local.token = "accepted" /\ wk' = "start" /\ verified' = TRUE
          /\ UNCHANGED <<retry, status>>
    /\ UNCHANGED <<live, action, spawning, web, wkAction, local, kicks, service, queue, notice, world, ghosts>>

\* Faulty variant: every bring-up arms the notice.
ArmedAgain == [notice EXCEPT !.owed = TRUE, !.done = TRUE, !.wait = NoticeWait, !.giveup = NoticeGiveUp]
\* start_notice_arm()
Armed == IF notice.done THEN notice
         ELSE [notice EXCEPT !.owed = TRUE, !.done = TRUE, !.wait = NoticeWait, !.giveup = NoticeGiveUp]

Start ==
    /\ wk = "start"
    /\ wk' = "batch" /\ retry' = Never /\ status' = Running
    /\ serviceUp' = TRUE /\ polling' = TRUE /\ with' = local
    /\ notice' = Armed
    /\ UNCHANGED <<live, verified, action, spawning, web, wkAction, local, kicks, queue, world, ghosts>>

StartFails ==
    /\ wk = "start" /\ faults < MaxFaults
    /\ faults' = faults + 1
    /\ Ends("TASK_FAILED") /\ status' = Fault("TASK_FAILED")
    /\ UNCHANGED <<live, verified, action, spawning, web, wkAction, local, kicks, service, queue, notice, pushes, ghosts>>

\* the transmit batch: the notice if it is ready, then the queue until it is empty
SendNotice ==
    /\ wk = "batch" /\ notice.pending
    /\ notice' = [notice EXCEPT !.pending = FALSE]
    /\ sent' = sent + 1
    /\ UNCHANGED <<settings, action, spawning, web, worker, service, queue, world, lost, stranded>>

Drain ==
    /\ wk = "batch" /\ ~notice.pending
    /\ IF queue > 0 THEN queue' = queue - 1 /\ UNCHANGED wk ELSE wk' = "release" /\ UNCHANGED queue
    /\ UNCHANGED <<settings, action, spawning, web, wkAction, local, kicks, service, notice, world, ghosts>>

\* Faulty variant: the queue is not looked at again.
KicksNot == asking
\* worker_release(), and the look at the queue notify_worker_kick() takes after it
Kicks == IF queue > 0 THEN asking + 1 ELSE asking

Release ==
    /\ wk = "release" /\ kicks < MaxAskers
    /\ wk' = "none" /\ wkAction' = "NONE" /\ local' = Blank
    /\ busy' = FALSE /\ kicks' = kicks + 1
    /\ UNCHANGED <<settings, action, creating, tick, tickAction, asking, web, service, queue,
                   notice, world, ghosts>>

Kick ==
    /\ kicks > 0 /\ asking < MaxAskers
    /\ kicks' = kicks - 1
    /\ asking' = Kicks
    /\ UNCHANGED <<settings, action, busy, creating, tick, tickAction, web, wk, wkAction, local,
                   service, queue, notice, world, ghosts>>

-----------------------------------------------------------------------------
\* telegram_app_notify_station_message() and telegram_app_notify_bulletin()
Notify ==
    /\ live.enable /\ serviceUp /\ pushes < MaxPushes /\ asking < MaxAskers
    /\ pushes' = pushes + 1
    /\ IF queue < QueueLen
       THEN queue' = queue + 1 /\ asking' = asking + 1
       ELSE UNCHANGED <<queue, asking>>
    /\ UNCHANGED <<settings, action, busy, creating, tick, tickAction, web, worker, service, notice,
                   faults, ghosts>>

\* the polling task ends by itself
PollingEnds ==
    /\ polling /\ faults < MaxFaults
    /\ polling' = FALSE /\ faults' = faults + 1
    /\ UNCHANGED <<settings, action, spawning, web, worker, serviceUp, with, queue, notice, pushes, ghosts>>

Tick == TickOrder \/ TickClaims \/ TickClears \/ TickService \/ TickNotice \/ TickRetry
Work == \/ Teardown \/ Stopped \/ Snapshot \/ Connect \/ Verify \/ Start \/ SendNotice \/ Drain
        \/ Release \/ Kick
Next ==
    \/ \E enable \in BOOLEAN, token \in Tokens : Publish(enable, token)
    \/ Unreadable \/ Order \/ Ask \/ Created \/ NotCreated
    \/ Tick \/ Work \/ ConnectFails \/ StartFails \/ Notify \/ PollingEnds

\* The tasks run: the tick every second, the others when they are ready; the claim of
\* the tick is repeated until it falls on a free slot.
Fairness ==
    /\ WF_vars(Order) /\ WF_vars(Ask) /\ WF_vars(Created)
    /\ WF_vars(Tick) /\ SF_vars(TickClaims /\ ~busy)
    /\ WF_vars(Work)

Spec == Init /\ [][Next]_vars
LiveSpec == Spec /\ Fairness

-----------------------------------------------------------------------------
\* A routed line never waits in the queue with nobody to fetch it: whenever the queue
\* holds something, a worker holds the slot, or somebody is about to ask for one - unless
\* the task could not be created (notify_worker_kick(), lines 573-580 and 1946-1958).
NothingStranded ==
    queue > 0 => busy \/ asking > 0 \/ stranded \/ kicks > 0

\* The start-up notice is sent at most once per boot, however often the bot is brought
\* up again and whichever worker comes to send it (start_notice_arm(), lines 482-528).
NoticeOnce ==
    /\ sent + (IF notice.pending THEN 1 ELSE 0) + (IF notice.owed THEN 1 ELSE 0) <= 1
    /\ notice.owed => ~notice.pending

\* No line of the queue is forgotten, and no notice sent twice.
AppSound == NothingStranded /\ NoticeOnce

\* The operator's last instruction is carried out in the end, whatever it interrupts: a
\* bot switched off is released, and a service that is up was brought up with the settings
\* saved last - unless a task could not be created or the save fell into the tick's own
\* clearing of the same order (telegram_app_tick_1hz(), lines 2023-2040).
Obeyed == serviceUp => live.enable /\ with = live
OperatorObeyed == <>[](lost \/ Obeyed)

\* What the comment of bring_up_attempt() says, "publishing the step that failed": a bot
\* that is wanted, is down and will not be tried again says why on its page.  The code
\* returns NO_TOKEN and TOKEN_MALFORMED without publishing them (lines 1679-1682).
OutcomePublished ==
    live.enable /\ ~serviceUp /\ retry = Never /\ action = "NONE" /\ ~busy => status.state = "ERROR"

\* What the comment of s_token_verified says, "true once Telegram has accepted this
\* token": a service that runs was given a token Telegram accepts.  A save during the
\* getMe call is overtaken by the result for the token before it (lines 296-304, 1792).
TokenAccepted == serviceUp => with.token = "accepted"

\* What the comment of worker_spawn() says of a task that could not be created, "armed a
\* retry, so the action has been dealt with": the order is carried out in the end all the
\* same.  The retry is for a bot that is wanted and down (lines 1981-1984, 2042-2092).
FailureRetried == <>[]Obeyed

=============================================================================
