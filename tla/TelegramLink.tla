----------------------------- MODULE TelegramLink -----------------------------
(***************************************************************************)
(* The two connections of the Telegram bot: the client handles of          *)
(* components/esp_telegram_bot/esp_telegram_bot.c and the batches, alerts  *)
(* and polls components/telegram_service/telegram_service.c runs over them.*)
(*                                                                         *)
(* poll is the handle that waits for updates, tx the one every outgoing    *)
(* message takes; each is one HTTP client behind one mutex and keeps its   *)
(* TLS session between requests.  The heap has room for one session, so    *)
(* each side releases the other's when that one is idle.                   *)
(*                                                                         *)
(* Tasks: service (telegram_task()) and worker, the application's task     *)
(* that starts and releases the service and sends lines in batches.  An    *)
(* answer is the sequence of its pieces, each the number of the attempt it *)
(* came with.                                                              *)
(***************************************************************************)
EXTENDS Naturals, Sequences, SequencesExt

CONSTANTS
    MaxAttempts,  \* TELEGRAM_BOT_MAX_ATTEMPTS
    Room,         \* response->buffer_size - 1, in pieces
    Pieces,       \* bound: pieces of the longest answer
    AlertDepth,   \* alert_queue_len
    Recipients,   \* users and chats an alert is delivered to
    Replies,      \* bound: messages sent while one batch of updates is handled
    Lines,        \* bound: messages of one batch of the worker
    MaxBatches,   \* bound: batches of the worker
    MaxAlerts,    \* bound: alerts raised
    MaxTroubles,  \* bound: failed attempts, mutexes not had in time
    MaxWaitsOut,  \* bound: batches waited for in vain (TELEGRAM_TX_BATCH_WAIT_MS)
    MaxStops,     \* bound: releases of the service
    MaxLateStops  \* bound: releases that stop waiting for the task

ASSUME LinkAssumption ==
    /\ {MaxAttempts, AlertDepth} \subseteq Nat \ {0}
    /\ {Room, Pieces, Recipients, Replies, Lines, MaxBatches, MaxAlerts, MaxTroubles,
        MaxWaitsOut, MaxStops, MaxLateStops} \subseteq Nat

Clients == {"poll", "tx"}
Tasks == {"service", "worker"}

VARIABLES
    at,        \* where each task is
    left,      \* messages it has still to send in this group
    then,      \* what the service goes on with once a group is sent
    owner,     \* the task that holds each client's mutex, or "none"
    open,      \* each client's TLS session is open
    attempt, answer, cut,  \* the request in flight on each client
    depth,     \* s_tx_batch_depth
    released,  \* s_tx_batch_released
    up,        \* s_initialized: the handles exist
    running, stop,         \* s_running, s_stop_requested
    alerts, alertsOn,      \* s_alert_queue, s_alerts_enabled
    batches, raised, troubles, waits, stops, late,
    paid,      \* ghost: TLS handshakes on tx since the outermost batch began
    excused,   \* ghost: of these, the ones after a session was lost or reclaimed
    whole,     \* ghost: every answer handed over was one attempt's, cut only for room
    torn       \* ghost: a handle was destroyed under a task

request == <<owner, open, attempt, answer, cut>>
batch == <<depth, released>>
life == <<up, running, stop>>
linkQueue == <<alerts, alertsOn>>
bounds == <<batches, raised, troubles, waits, stops, late>>
linkGhosts == <<paid, excused, whole, torn>>
linkVars == <<at, left, then, request, batch, life, linkQueue, bounds, linkGhosts>>

-----------------------------------------------------------------------------
LinkInit ==
    /\ at = [t \in Tasks |-> IF t = "worker" THEN "idle" ELSE "none"]
    /\ left = [t \in Tasks |-> 0] /\ then = "reply"
    /\ owner = [c \in Clients |-> "none"] /\ open = [c \in Clients |-> FALSE]
    /\ attempt = [c \in Clients |-> 0] /\ answer = [c \in Clients |-> <<>>]
    /\ cut = [c \in Clients |-> FALSE]
    /\ depth = 0 /\ released = FALSE
    /\ up = FALSE /\ running = FALSE /\ stop = FALSE
    /\ alerts = 0 /\ alertsOn = TRUE
    /\ batches = 0 /\ raised = 0 /\ troubles = 0 /\ waits = 0 /\ stops = 0 /\ late = 0
    /\ paid = 0 /\ excused = 0 /\ whole = TRUE /\ torn = FALSE

Goes(t, where) == at' = [at EXCEPT ![t] = where]
Idle(c) == owner[c] = "none"
Client(t) == IF at[t] \in {"poll", "polling"} THEN "poll" ELSE "tx"
Asking(t) == at[t] \in {"poll", "send", "upload"}
Performing(t) == at[t] \in {"polling", "sending", "uploading"}

\* where a task is once a request of its has ended
AfterPoll(t, n) == Goes(t, "handle") /\ left' = [left EXCEPT ![t] = n]
AfterSend(t) ==
    /\ left' = [left EXCEPT ![t] = @ - 1]
    /\ Goes(t, IF left[t] > 1 THEN "next" ELSE "sent")

-----------------------------------------------------------------------------
(* telegram_bot_client_call(): one task at a time on a handle, up to        *)
(* MaxAttempts tries, each on a session of its own when the last one failed.*)
Begin(t) ==
    /\ Asking(t) /\ Idle(Client(t))
    /\ owner' = [owner EXCEPT ![Client(t)] = t]
    /\ attempt' = [attempt EXCEPT ![Client(t)] = 1]
    /\ answer' = [answer EXCEPT ![Client(t)] = <<>>]
    /\ cut' = [cut EXCEPT ![Client(t)] = FALSE]
    /\ open' = [open EXCEPT ![Client(t)] = TRUE]
    /\ paid' = (IF Client(t) = "tx" /\ ~open["tx"] THEN paid + 1 ELSE paid)
    /\ Goes(t, CASE at[t] = "poll" -> "polling" [] at[t] = "send" -> "sending"
                 [] OTHER -> "uploading")
    /\ UNCHANGED <<left, then, batch, life, linkQueue, bounds, excused, whole, torn>>

\* telegram_bot_lock() gives up after TELEGRAM_BOT_LOCK_TIMEOUT_MS
NoTurn(t) ==
    /\ at[t] \in {"send", "upload"} /\ ~Idle("tx")
    /\ troubles < MaxTroubles /\ troubles' = troubles + 1
    /\ AfterSend(t)
    /\ UNCHANGED <<then, request, batch, life, linkQueue, batches, raised, waits, stops, late, linkGhosts>>

\* telegram_bot_response_append() for n pieces of this attempt
Collected(c, n) == answer[c] \o [i \in 1 .. n |-> attempt[c]]
Kept(pieces) == SubSeq(pieces, 1, IF Len(pieces) < Room THEN Len(pieces) ELSE Room)

WholeAnswer(c, n) ==
    /\ \A i \in DOMAIN Kept(Collected(c, n)) : Kept(Collected(c, n))[i] = attempt[c]
    /\ (cut[c] \/ Len(Collected(c, n)) > Room) <=> n > Room

\* A JSON request leaves its session open, a streamed one (multipart upload, download) closes it.
Succeed(t, n) ==
    /\ Performing(t) /\ n \in 0 .. Pieces
    /\ whole' = (whole /\ WholeAnswer(Client(t), n))
    /\ owner' = [owner EXCEPT ![Client(t)] = "none"]
    /\ open' = [open EXCEPT ![Client(t)] = at[t] # "uploading"]
    /\ excused' = (IF at[t] = "uploading" THEN excused + 1 ELSE excused)
    /\ IF at[t] = "polling" THEN \E m \in 0 .. Replies : AfterPoll(t, m) ELSE AfterSend(t)
    /\ answer' = [answer EXCEPT ![Client(t)] = <<>>]
    /\ cut' = [cut EXCEPT ![Client(t)] = FALSE]
    /\ attempt' = [attempt EXCEPT ![Client(t)] = 0]
    /\ UNCHANGED <<then, batch, life, linkQueue, bounds, paid, torn>>

\* Faulty variant: what the last attempt stored stays in the buffer.
RetryKeepsAnswer(c, n) ==
    /\ answer' = [answer EXCEPT ![c] = Kept(Collected(c, n))]
    /\ cut' = [cut EXCEPT ![c] = @ \/ Len(Collected(c, n)) > Room]
\* the buffer a failed attempt filled is emptied before the next
Retry(c, n) ==
    /\ answer' = [answer EXCEPT ![c] = <<>>]
    /\ cut' = [cut EXCEPT ![c] = FALSE]

FailAndRetry(t, n) ==
    /\ Performing(t) /\ at[t] # "uploading" /\ n \in 0 .. Pieces
    /\ attempt[Client(t)] < MaxAttempts
    /\ troubles < MaxTroubles /\ troubles' = troubles + 1
    /\ attempt' = [attempt EXCEPT ![Client(t)] = @ + 1]
    /\ Retry(Client(t), n)
    \* closed, and opened again by the next attempt
    /\ paid' = (IF Client(t) = "tx" THEN paid + 1 ELSE paid)
    /\ excused' = (IF Client(t) = "tx" THEN excused + 1 ELSE excused)
    /\ UNCHANGED <<at, left, then, owner, open, batch, life, linkQueue, batches, raised, waits, stops, late,
                   whole, torn>>

FailForGood(t) ==
    /\ Performing(t)
    /\ at[t] = "uploading" \/ attempt[Client(t)] = MaxAttempts
    /\ troubles < MaxTroubles /\ troubles' = troubles + 1
    /\ owner' = [owner EXCEPT ![Client(t)] = "none"]
    /\ open' = [open EXCEPT ![Client(t)] = FALSE]
    /\ excused' = (IF Client(t) = "tx" THEN excused + 1 ELSE excused)
    /\ IF at[t] = "polling" THEN AfterPoll(t, 0) ELSE AfterSend(t)
    /\ answer' = [answer EXCEPT ![Client(t)] = <<>>]
    /\ cut' = [cut EXCEPT ![Client(t)] = FALSE]
    /\ attempt' = [attempt EXCEPT ![Client(t)] = 0]
    /\ UNCHANGED <<then, batch, life, linkQueue, batches, raised, waits, stops, late, paid, whole, torn>>

-----------------------------------------------------------------------------
(* Batches, and what a request does to the other handle before it starts.   *)
BatchBegin ==
    /\ depth' = depth + 1
    /\ released' = (released /\ depth > 0)
    /\ IF depth = 0 THEN paid' = 0 /\ excused' = 0 ELSE UNCHANGED <<paid, excused>>
BatchEnd == depth' = depth - 1 /\ UNCHANGED <<released, paid, excused>>

\* telegram_bot_client_disconnect(): a handle busy with a request is left alone
Disconnected(c) == [open EXCEPT ![c] = @ /\ ~Idle(c)]

\* telegram_tx_prepare_connection(): the first of a batch releases the polling session
Releases == depth = 0 \/ ~released

Prepare(t, how) ==
    /\ at[t] = "next" /\ left[t] > 0
    /\ released' = (released \/ depth > 0)
    /\ open' = (IF Releases THEN Disconnected("poll") ELSE open)
    /\ Goes(t, how)
    /\ UNCHANGED <<left, then, owner, attempt, answer, cut, depth, life, linkQueue, bounds, linkGhosts>>

\* Faulty variants: an open batch is not waited for; the transmit session is left open.
BatchOverNever == TRUE
ReclaimedNot == open
\* telegram_tx_wait_batch_idle(), and telegram_release_tx_connection()
BatchOver == depth = 0
Reclaimed == Disconnected("tx")

(* telegram_poll_once() up to its request.  No other task completes a       *)
(* request between the last look at the depth and the release.              *)
Reclaim ==
    /\ at["service"] = "reclaim"
    /\ \/ BatchOver /\ UNCHANGED <<waits, excused>>
       \/ /\ depth > 0 /\ waits < MaxWaitsOut
          /\ waits' = waits + 1 /\ excused' = excused + 1
    /\ open' = Reclaimed
    /\ Goes("service", "poll")
    /\ UNCHANGED <<left, then, owner, attempt, answer, cut, batch, life, linkQueue, batches, raised, troubles,
                   stops, late, paid, whole, torn>>

-----------------------------------------------------------------------------
(* telegram_task(): stop?, drain, poll, handle the updates, drain.          *)
\* the flag telegram_start() cleared is cleared once more
Started ==
    /\ at["service"] = "starting"
    /\ running' = TRUE /\ stop' = FALSE
    /\ Goes("service", "top")
    /\ UNCHANGED <<left, then, request, batch, up, linkQueue, bounds, linkGhosts>>

Top ==
    /\ at["service"] = "top"
    /\ IF stop THEN running' = FALSE /\ Goes("service", "none") /\ UNCHANGED <<batch, paid, excused>>
       ELSE Goes("service", "drain") /\ BatchBegin /\ UNCHANGED running
    /\ UNCHANGED <<left, then, request, up, stop, linkQueue, bounds, whole, torn>>

\* telegram_drain_alerts(): each alert is a batch inside the pass's own
Deliver ==
    /\ at["service"] \in {"drain", "redrain"} /\ alerts > 0
    /\ alerts' = alerts - 1
    /\ IF alertsOn /\ Recipients > 0
       THEN /\ left' = [left EXCEPT !["service"] = Recipients]
            /\ Goes("service", "next") /\ then' = at["service"]
            /\ BatchBegin
       ELSE UNCHANGED <<at, left, then, batch, paid, excused>>
    /\ UNCHANGED <<request, life, alertsOn, bounds, whole, torn>>

Drained ==
    /\ at["service"] \in {"drain", "redrain"} /\ alerts = 0
    /\ BatchEnd
    /\ Goes("service", IF at["service"] = "drain" THEN "reclaim" ELSE "top")
    /\ UNCHANGED <<left, then, request, life, linkQueue, bounds, whole, torn>>

\* telegram_process_updates(): every handler answers on its own, outside a batch
Handle ==
    /\ at["service"] = "handle"
    /\ IF left["service"] > 0
       THEN Goes("service", "next") /\ UNCHANGED <<batch, paid, excused>>
       ELSE Goes("service", "redrain") /\ BatchBegin
    /\ then' = "reply"
    /\ alertsOn' \in (IF left["service"] > 0 THEN BOOLEAN ELSE {alertsOn})
    /\ UNCHANGED <<left, request, life, alerts, bounds, whole, torn>>

Sent ==
    /\ at["service"] = "sent"
    /\ IF then = "reply" THEN BatchBegin /\ Goes("service", "redrain")
       ELSE BatchEnd /\ Goes("service", then)
    /\ UNCHANGED <<left, then, request, life, linkQueue, bounds, whole, torn>>

-----------------------------------------------------------------------------
(* The application: alerts from any task, and the worker, which starts the  *)
(* service, sends its lines in one batch a pass, and releases the service.  *)
SendAlert ==
    /\ up /\ raised < MaxAlerts /\ raised' = raised + 1
    /\ alerts' = (IF alerts < AlertDepth THEN alerts + 1 ELSE alerts)
    /\ UNCHANGED <<at, left, then, request, batch, life, alertsOn, batches, troubles, waits, stops,
                   late, linkGhosts>>

\* Faulty variant: the flag is left to the task to raise.
RaisedByTask == FALSE
\* telegram_start(): raised before the task exists
RaisedFirst == TRUE

StartTask ==
    /\ at["worker"] = "idle" /\ ~up
    /\ up' = TRUE /\ running' = RaisedFirst /\ stop' = FALSE
    /\ alertsOn' = TRUE
    /\ Goes("service", "starting")
    /\ UNCHANGED <<left, then, request, batch, alerts, bounds, linkGhosts>>

Pass ==
    /\ at["worker"] = "idle" /\ up /\ batches < MaxBatches
    /\ batches' = batches + 1
    /\ BatchBegin
    /\ \E n \in 1 .. Lines : left' = [left EXCEPT !["worker"] = n]
    /\ Goes("worker", "next")
    /\ UNCHANGED <<then, request, life, linkQueue, raised, troubles, waits, stops, late, whole, torn>>

Passed ==
    /\ at["worker"] = "sent"
    /\ BatchEnd
    /\ Goes("worker", "idle")
    /\ UNCHANGED <<left, then, request, life, linkQueue, bounds, whole, torn>>

\* telegram_stop(), then telegram_deinit()
Stop ==
    /\ at["worker"] = "idle" /\ up /\ stops < MaxStops
    /\ stops' = stops + 1
    /\ stop' = (stop \/ running)
    /\ Goes("worker", "stopping")
    /\ UNCHANGED <<left, then, request, batch, up, running, linkQueue, batches, raised, troubles, waits,
                   late, linkGhosts>>

ReleaseClient ==
    /\ at["worker"] = "stopping"
    /\ \/ ~running /\ UNCHANGED late
       \/ running /\ late < MaxLateStops /\ late' = late + 1
    /\ torn' = (torn \/ at["service"] # "none")
    /\ up' = FALSE /\ alerts' = 0
    /\ owner' = [c \in Clients |-> "none"] /\ open' = [c \in Clients |-> FALSE]
    /\ at' = [service |-> "none", worker |-> "idle"]
    /\ left' = [left EXCEPT !["service"] = 0]
    /\ attempt' = [c \in Clients |-> 0] /\ answer' = [c \in Clients |-> <<>>]
    /\ cut' = [c \in Clients |-> FALSE]
    /\ UNCHANGED <<then, batch, running, stop, alertsOn, batches, raised, troubles, waits, stops,
                   paid, excused, whole>>

Call(t) ==
    \/ Begin(t) \/ NoTurn(t) \/ FailForGood(t)
    \/ \E n \in 0 .. Pieces : Succeed(t, n) \/ FailAndRetry(t, n)

Service ==
    \/ Started \/ Top \/ Deliver \/ Drained \/ Prepare("service", "send") \/ Reclaim \/ Handle
    \/ Sent \/ Call("service")

Worker ==
    \/ StartTask \/ Pass \/ Passed \/ Stop \/ ReleaseClient \/ Call("worker")
    \/ \E how \in {"send", "upload"} : Prepare("worker", how)

LinkNext == SendAlert \/ Service \/ Worker

\* both tasks run, a request ends, and a pass that was begun is gone through with
LinkFairness ==
    /\ WF_linkVars(Service)
    /\ WF_linkVars(Passed \/ ReleaseClient \/ Call("worker") \/ Prepare("worker", "send"))
LinkSpec == LinkInit /\ [][LinkNext]_linkVars
LinkLiveSpec == LinkSpec /\ LinkFairness

-----------------------------------------------------------------------------
\* An answer is one attempt's, whole unless the buffer is full: a request that failed half
\* way and was repeated never hands over pieces of both (lines 635-660, 306-320).
AnswersWhole == whole

\* No handle is destroyed while a task is using it, as long as the wait for the polling
\* task does not run out: also not when the release follows the start at once
\* (telegram_service.c:3059-3063).
HandlesOutliveRequests == ~torn

\* The messages of a batch share one handshake: a second one follows only on a session that
\* failed, was streamed over, or was reclaimed after TELEGRAM_TX_BATCH_WAIT_MS.
OneHandshake == depth > 0 => paid <= 1 + excused

\* The requests of a batch over their one session.
LinkSound == AnswersWhole /\ HandlesOutliveRequests /\ OneHandshake

\* Two sessions held at once are a passing state: the side that found the other busy, or
\* waited in vain, leads to the next release (lines 700-717).
OneSessionAgain == open["poll"] /\ open["tx"] ~> ~(open["poll"] /\ open["tx"])

\* "so a stop or a release requested right after this call waits for the task"
\* (telegram_service.c:3059-3061): a release that was asked for ends.
StopHeard == at["worker"] = "stopping" ~> at["worker"] # "stopping"

-----------------------------------------------------------------------------
(***************************************************************************)
(* The updates of the Telegram service on their way from Telegram's server *)
(* to a handler (components/telegram_service/telegram_service.c).          *)
(*                                                                         *)
(* The server keeps every update until a getUpdates carries an offset past *)
(* it; the service asks for a batch, handles it one update after another,  *)
(* and tells the server about it with the next request only.  Answers are  *)
(* lost, cut to the receive buffer or unreadable, and the station restarts *)
(* at any point.  An update is its identifier: the offset moves past it    *)
(* whatever it holds and whoever sent it.                                  *)
(***************************************************************************)

CONSTANTS
    MaxUpdates,  \* bound: updates sent to the bot
    BatchLimit,  \* "limit" of a getUpdates request
    Buffer,      \* rx_buffer_size, in the units of Sizes
    Sizes,       \* sizes of the updates in an answer
    MaxPollTroubles, \* bound: lost or unreadable answers
    MaxRestarts  \* bound: restarts of the station or of the service

ASSUME UpdatesAssumption ==
    /\ BatchLimit \in Nat \ {0} /\ Buffer \in Nat /\ Sizes \subseteq Nat
    /\ {MaxUpdates, MaxPollTroubles, MaxRestarts} \subseteq Nat

VARIABLES
    server,    \* the updates the server keeps, oldest first
    posted,      \* identifier of the last update sent to the bot
    offset,    \* s_next_offset
    task,      \* what telegram_task() is at
    fetched,     \* the updates of the last answer that are not handled yet
    failures,  \* s_stats.poll_errors, up to 2
    handled,   \* updates dispatched since telegram_init()
    twice,     \* updates dispatched more than once since telegram_init()
    ever,      \* updates dispatched by any incarnation
    given,     \* updates the code gives up: discarded at the start, or cut
    pollTroubles, restarts
pollVars == <<server, posted, offset, task, fetched, failures, handled, twice, ever, given,
          pollTroubles, restarts>>

bookkeeping == <<handled, twice, ever>>
mishaps == <<pollTroubles, restarts>>

-----------------------------------------------------------------------------
PollInit ==
    /\ server = <<>> /\ posted = 0 /\ offset = 0
    /\ task = "discard" /\ fetched = <<>> /\ failures = 0
    /\ handled = {} /\ twice = {} /\ ever = {} /\ given = {}
    /\ pollTroubles = 0 /\ restarts = 0

Send(size) ==
    /\ posted < MaxUpdates
    /\ posted' = posted + 1
    /\ server' = Append(server, [id |-> posted + 1, size |-> size])
    /\ UNCHANGED <<offset, task, fetched, failures, bookkeeping, given, mishaps>>

Ids(updates) == {update.id : update \in ToSet(updates)}
Size(updates) == FoldSeq(LAMBDA update, sum : update.size + sum, 0, updates)
First(n, updates) == SubSeq(updates, 1, IF Len(updates) < n THEN Len(updates) ELSE n)

-----------------------------------------------------------------------------
(* telegram_discard_pending_updates(): offset -1 asks for the last update   *)
(* alone and confirms all before it; the last one goes with the next poll.  *)
Discard ==
    /\ task = "discard"
    /\ task' = "poll"
    /\ IF server = <<>>
       THEN UNCHANGED <<server, offset, given>>
       ELSE /\ server' = <<Last(server)>>
            /\ offset' = Last(server).id + 1
            /\ given' = given \cup Ids(server)
    /\ UNCHANGED <<posted, fetched, failures, bookkeeping, mishaps>>

\* the request did not reach the server, or the answer did not come back
DiscardLost ==
    /\ task = "discard" /\ pollTroubles < MaxPollTroubles
    /\ pollTroubles' = pollTroubles + 1
    /\ task' = "poll"
    /\ \/ UNCHANGED <<server, given>>
       \/ /\ server # <<>>
          /\ server' = <<Last(server)>>
          /\ given' = given \cup Ids(Front(server))
    /\ UNCHANGED <<posted, offset, fetched, failures, bookkeeping, restarts>>

(* telegram_poll_once(): the server confirms what is before the offset and  *)
(* answers with what comes next (or with nothing once the wait is over).    *)
\* the identifiers are consecutive: the confirmed updates are the first ones
Confirmed == IF server = <<>> \/ offset <= Head(server).id THEN 0 ELSE offset - Head(server).id
Asked == SubSeq(server, Confirmed + 1, Len(server))
Answer == First(BatchLimit, Asked)
Fits == Size(Answer) <= Buffer

Poll ==
    /\ task = "poll" /\ Fits
    /\ server' = Asked
    /\ fetched' = Answer
    /\ task' = (IF Answer = <<>> THEN "poll" ELSE "handle")
    /\ failures' = 0
    /\ UNCHANGED <<posted, offset, bookkeeping, given, mishaps>>

PollLost ==
    /\ task = "poll" /\ pollTroubles < MaxPollTroubles
    /\ pollTroubles' = pollTroubles + 1
    /\ server' \in {server, Asked}
    /\ failures' = (IF failures < 2 THEN failures + 1 ELSE 2)
    /\ UNCHANGED <<posted, offset, task, fetched, bookkeeping, given, restarts>>

\* Faulty variants: the whole batch is skipped; the answer is asked for again.
OffsetPastAll == (Last(Answer).id + 1)
OffsetStays == offset
\* telegram_scan_first_update_id(): past the first update of an answer that is cut
OffsetPastFirst == Head(Answer).id + 1

PollCut ==
    /\ task = "poll" /\ Answer # <<>> /\ ~Fits
    /\ server' = Asked
    /\ offset' = OffsetPastFirst
    /\ given' = given \cup {Head(Answer).id}
    /\ failures' = (IF failures < 2 THEN failures + 1 ELSE 2)
    /\ UNCHANGED <<posted, task, fetched, bookkeeping, mishaps>>

\* telegram_process_updates() that finds no tree, or no memory, is a poll that succeeded
PollUnreadable ==
    /\ task = "poll" /\ pollTroubles < MaxPollTroubles /\ Answer # <<>> /\ Fits
    /\ pollTroubles' = pollTroubles + 1
    /\ server' = Asked
    /\ failures' = 0
    /\ UNCHANGED <<posted, offset, task, fetched, bookkeeping, given, restarts>>

\* Faulty variant: the offset is left at the update itself.
NextOffsetStays(id) == IF id >= offset THEN id ELSE offset
NextOffset(id) == IF id >= offset THEN id + 1 ELSE offset

(* One update of the batch: the offset first, then its handler.             *)
HandleUpdate ==
    /\ task = "handle"
    /\ LET update == Head(fetched).id IN
       /\ offset' = NextOffset(update)
       /\ twice' = (IF update \in handled THEN twice \cup {update} ELSE twice)
       /\ handled' = handled \cup {update}
       /\ ever' = ever \cup {update}
    /\ fetched' = Tail(fetched)
    /\ task' = (IF Len(fetched) = 1 THEN "poll" ELSE "handle")
    /\ UNCHANGED <<server, posted, failures, given, mishaps>>

(* telegram_init() again: after a reset, or after the settings were saved.  *)
Restart ==
    /\ restarts < MaxRestarts
    /\ restarts' = restarts + 1
    /\ offset' = 0 /\ task' = "discard" /\ fetched' = <<>> /\ failures' = 0
    /\ handled' = {} /\ twice' = {}
    /\ UNCHANGED <<server, posted, ever, given, pollTroubles>>

PollNext ==
    \/ \E size \in Sizes : Send(size)
    \/ Discard \/ DiscardLost
    \/ Poll \/ PollLost \/ PollCut \/ PollUnreadable
    \/ HandleUpdate \/ Restart

\* the task runs, and a request is answered in the end
PollFairness == WF_pollVars(Discard) /\ WF_pollVars(Poll \/ PollCut) /\ WF_pollVars(HandleUpdate)
PollSpec == PollInit /\ [][PollNext]_pollVars
PollLiveSpec == PollSpec /\ PollFairness

-----------------------------------------------------------------------------
\* No update is dispatched twice between two starts of the service, whatever happens to
\* the answers: a command is not carried out again because a poll failed (lines 2763-2913).
HandledOnce == twice = {}

\* The server only forgets an update that was dispatched (by this incarnation or one
\* before it), that was waiting when the service started, or that headed an answer too
\* long for the buffer: a crash in the middle of a batch loses none (lines 2793, 2890-2905).
NothingLost == \A id \in 1 .. posted : id \in Ids(server) \cup ever \cup given

\* Every update once, and none lost, through restarts and failed answers.
PollSound == HandledOnce /\ NothingLost

\* The service keeps both: the requests over its two connections, and the updates that come
\* over one of them (esp_telegram_bot.c:306-660, telegram_service.c:2763-3063).
ServiceSound == LinkSound /\ PollSound

\* An update waiting at the server is dealt with in the end: no answer that is lost, unreadable or
\* too long for the buffer blocks those behind it for good.
AllDealtWith ==
    \A id \in 1 .. MaxUpdates : id \in Ids(server) ~> id \in ever \cup given
=============================================================================
