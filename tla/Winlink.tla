------------------------------- MODULE Winlink -------------------------------
(***************************************************************************)
(* The APRSLink session machine of components/winlink/winlink.c.  Three    *)
(* tasks drive it: the HTTP server (the operator), the 1 Hz service tick   *)
(* and the receive path.  Each entry point is one critical section under   *)
(* s_sess_lock, so it is one action here; the command it decides to send   *)
(* is copied into a buffer of the calling task and put on the air by       *)
(* flush_tx after the lock is released, which is the separate action Flush.*)
(*                                                                         *)
(* Abstracted: command text (a small set of kinds), the mailbox, and the   *)
(* clock: `late` stands for WL_REPLY_TIMEOUT_SEC elapsed since s_last_tx,  *)
(* `hold` for WL_POST_RX_HOLD_SEC not yet elapsed since s_last_rx,         *)
(* `expired` for wl_session_max_min elapsed since s_session_started and    *)
(* `pollDue` for wl_poll_min elapsed since s_last_poll.                    *)
(***************************************************************************)
EXTENDS Integers, Sequences, FiniteSets

CONSTANTS
    QueueSize,        \* WL_CMD_QUEUE_SIZE
    Tries,            \* WL_CMD_TRIES
    AutoLogin,        \* g_config.wl_auto_login
    Web, Ticker, Rx,  \* the tasks that reach the session
    Polling,          \* g_config.wl_poll_min > 0
    MaxRequests,      \* bound: operator requests and periodic listings
    MaxReplies,       \* bound: messages and acks from the service
    MaxSwitches       \* bound: times the client is switched on or off

ASSUME QueueAssumption == QueueSize \in Nat /\ QueueSize > 0
ASSUME TriesAssumption == Tries \in Nat /\ Tries > 0
ASSUME SwitchAssumption == AutoLogin \in BOOLEAN /\ Polling \in BOOLEAN
ASSUME BoundsAssumption == MaxRequests \in Nat /\ MaxReplies \in Nat /\ MaxSwitches \in Nat
ASSUME TasksAssumption == Web \cap Rx = {} /\ Ticker \notin Web \cup Rx

VARIABLES
    s,          \* everything under s_sess_lock, see Session
    pending,    \* the buffer flush_tx empties, one per task
    usable,     \* client_usable()
    pollDue,
    flight,     \* history: commands that have been on the air
    acked,      \* history: commands the service acknowledged by number
    settled,    \* history: commands acknowledged, answered or given up
    requests, replies, switches    \* counters of the bounds

counters == <<requests, replies, switches>>
vars == <<s, pending, usable, pollDue, flight, acked, settled, counters>>

Tasks == Web \cup Rx \cup {Ticker}
Commands == {"login", "answer", "list", "sp", "line", "ex", "bye"}
None == "none"
Waiting == {"login_sent", "wait_challenge", "challenge_sent", "wait_valid"}
Closed == {"disabled", "idle", "error"}
States == Waiting \cup Closed \cup {"logged_in", "composing", "logging_off"}
Cells == 0..(QueueSize - 1)

\* The session.  `id` numbers the commands that became outstanding, `sends`
\* counts the transmissions of the outstanding one and `byeOwed` is set from
\* an accepted log-off to its transmission: these three are history.
Session ==
    [state : States, out : Commands \cup {None}, tries : Nat, started : BOOLEAN,
     composing : BOOLEAN, cell : [Cells -> Commands \cup {None}], head : Cells,
     count : 0..QueueSize,
     late : BOOLEAN, hold : BOOLEAN, expired : BOOLEAN,
     id : Nat, sends : Nat, byeOwed : BOOLEAN]

Init ==
    /\ s = [state |-> "disabled", out |-> None, tries |-> 0, started |-> FALSE,
            composing |-> FALSE, cell |-> [i \in Cells |-> None], head |-> 0,
            count |-> 0, late |-> FALSE, hold |-> FALSE, expired |-> FALSE,
            id |-> 0, sends |-> 0, byeOwed |-> FALSE]
    /\ pending = [t \in Tasks |-> 0]
    /\ usable \in BOOLEAN
    /\ pollDue = FALSE
    /\ flight = {} /\ acked = {} /\ settled = {}
    /\ requests = 0 /\ replies = 0 /\ switches = 0

(***************************************************************************)
(* The helpers that run under the lock, as functions from session to       *)
(* session.                                                                *)
(***************************************************************************)
\* Faulty variant: the ring index is taken from the depth alone.
PushAtDepth(x, c) ==
    [x EXCEPT !.cell = [@ EXCEPT ![x.count] = c], !.count = @ + 1]

\* queue_push on a queue that is not full, see Full.
Push(x, c) ==
    [x EXCEPT !.cell = [@ EXCEPT ![(x.head + x.count) % QueueSize] = c], !.count = @ + 1]

Full(x) == x.count >= QueueSize
Clear(x) == [x EXCEPT !.head = 0, !.count = 0]
\* Faulty variant: the head runs past the end of the array.
PopPastEnd(x) == [x EXCEPT !.head = @ + 1, !.count = @ - 1]
Pop(x) == [x EXCEPT !.head = (@ + 1) % QueueSize, !.count = @ - 1]

\* The command with number id becomes, or stays, the outstanding one.
TransmitNew(x, c) ==
    [x EXCEPT !.out = c, !.late = FALSE, !.id = @ + 1, !.sends = 1,
              !.byeOwed = IF c = "bye" THEN FALSE ELSE @]
TransmitAgain(x) == [x EXCEPT !.late = FALSE, !.sends = @ + 1]

\* Faulty variant: the commands queued behind the failed one stay queued.
FailKeepingQueue(x) ==
    [x EXCEPT !.state = "error", !.out = None, !.tries = 0, !.started = FALSE,
              !.composing = FALSE, !.byeOwed = FALSE]

SessionFail(x) ==
    [Clear(x) EXCEPT !.state = "error", !.out = None, !.tries = 0, !.started = FALSE,
                     !.composing = FALSE, !.byeOwed = FALSE]

SessionClose(x) ==
    [Clear(x) EXCEPT !.state = "idle", !.out = None, !.tries = 0, !.started = FALSE,
                     !.composing = FALSE, !.byeOwed = FALSE]

Disable(x) ==
    [Clear(x) EXCEPT !.state = "disabled", !.out = None, !.started = FALSE,
                     !.composing = FALSE, !.byeOwed = FALSE]

LoginSession(x) ==
    TransmitNew([Clear(x) EXCEPT !.state = "login_sent", !.tries = Tries,
                                 !.started = TRUE, !.expired = FALSE], "login")

\* The service let the session in: by confirming the login, or by answering.
Admit(x) ==
    [x EXCEPT !.out = None, !.tries = Tries, !.started = TRUE, !.expired = FALSE,
              !.state = IF x.composing THEN "composing" ELSE "logged_in"]

(***************************************************************************)
(* One critical section of task t: the session becomes x, the ids in done  *)
(* are settled by it, and a transmitted command waits in the buffer of t.  *)
(***************************************************************************)
Apply(t, x, done) ==
    /\ s' = x
    /\ settled' = settled \cup done
    /\ pending[t] = 0
    /\ pending' = IF x.id # s.id \/ x.sends # s.sends
                  THEN [pending EXCEPT ![t] = x.id] ELSE pending

Flush(t) ==
    /\ pending[t] # 0
    /\ flight' = flight \cup {pending[t]}
    /\ pending' = [pending EXCEPT ![t] = 0]
    /\ UNCHANGED <<s, usable, pollDue, acked, settled, counters>>

(***************************************************************************)
(* The operator's requests                                                 *)
(***************************************************************************)
Request ==
    /\ requests < MaxRequests
    /\ requests' = requests + 1
    /\ UNCHANGED <<usable, pollDue, flight, acked, replies, switches>>

Login(t) ==
    /\ usable /\ s.state \in {"idle", "error"}
    /\ Apply(t, LoginSession(s), {s.id})
    /\ Request

\* send_command_locked: the session opens first when auto-login is on, and
\* the command follows it.
Accepts(x) ==
    /\ usable
    /\ IF x.state \in {"idle", "error"} THEN AutoLogin
       ELSE x.state \notin {"disabled", "logging_off"} /\ ~Full(x)

Accept(x, c) ==
    IF x.state \in {"idle", "error"} THEN Push(LoginSession(x), c) ELSE Push(x, c)

Dropped(x) == IF x.state \in {"idle", "error"} THEN {x.id} ELSE {}

SendCommand(t) ==
    /\ Accepts(s)
    /\ Apply(t, Accept(s, "list"), Dropped(s))
    /\ Request

Logoff(t) ==
    /\ s.state \in {"logged_in", "composing"}
    /\ Apply(t, [Push(Clear(s), "bye") EXCEPT !.state = "logging_off", !.byeOwed = TRUE], {})
    /\ Request

ComposeBegin(t) ==
    /\ s.state # "composing" /\ Accepts(s)
    /\ LET x == Accept(s, "sp")
       IN  Apply(t, [x EXCEPT !.composing = TRUE,
                              !.state = IF @ = "logged_in" THEN "composing" ELSE @], Dropped(s))
    /\ Request

ComposeLine(t) ==
    /\ s.composing /\ Accepts(s)
    /\ Apply(t, Accept(s, "line"), Dropped(s))
    /\ Request

ToCommandMode(x) ==
    [x EXCEPT !.composing = FALSE, !.state = IF @ = "composing" THEN "logged_in" ELSE @]

ComposeEnd(t) ==
    /\ s.composing /\ Accepts(s)
    /\ Apply(t, ToCommandMode(Accept(s, "ex")), Dropped(s))
    /\ Request

ComposeAbort(t) ==
    /\ s.composing
    /\ Apply(t, ToCommandMode(Clear(s)), {})
    /\ Request

(***************************************************************************)
(* winlink_rx_observer.  The service answers only what has reached the     *)
(* air, but late, repeatedly and in any order; the number an               *)
(* acknowledgement quotes is not looked at.                                *)
(***************************************************************************)
Heard ==
    /\ usable /\ s.state # "disabled"
    /\ flight # {} /\ replies < MaxReplies
    /\ replies' = replies + 1
    /\ UNCHANGED <<usable, pollDue, flight, requests, switches>>

AckState ==
    CASE s.state = "login_sent"     -> "wait_challenge"
      [] s.state = "challenge_sent" -> "wait_valid"
      [] OTHER                      -> s.state

ServiceAck(t) ==
    /\ Heard
    /\ \E i \in flight :
         /\ acked' = acked \cup {i}
         /\ Apply(t, [s EXCEPT !.hold = TRUE, !.out = None, !.tries = Tries,
                               !.state = AckState], {i})

\* Whether the password covers the challenge, and the challenge is legible,
\* is the environment's choice.
Challenge(t) ==
    /\ Heard
    /\ \/ Apply(t, SessionFail([s EXCEPT !.hold = TRUE]), {s.id})
       \/ Apply(t, TransmitNew([s EXCEPT !.hold = TRUE, !.tries = Tries,
                                         !.state = "challenge_sent"], "answer"), {s.id})
    /\ UNCHANGED acked

LoginValid(t) ==
    /\ Heard
    /\ Apply(t, Admit([s EXCEPT !.hold = TRUE]), {s.id})
    /\ UNCHANGED acked

LoggedOff(t) ==
    /\ Heard
    /\ Apply(t, SessionClose([s EXCEPT !.hold = TRUE]), {s.id})
    /\ UNCHANGED acked

\* Any other text: an account without secure login is let in by it.
Reply(t) ==
    /\ Heard
    /\ LET x == [s EXCEPT !.hold = TRUE]
       IN  IF s.state \in Waiting THEN Apply(t, Admit(x), {s.id}) ELSE Apply(t, x, {})
    /\ UNCHANGED acked

(***************************************************************************)
(* winlink_tick_1hz, by the outcome of tick_locked                         *)
(***************************************************************************)
Ticking == UNCHANGED <<usable, flight, acked, counters>>

\* The state tick_locked works on once the client is usable.
Awake == IF s.state = "disabled" THEN [s EXCEPT !.state = "idle"] ELSE s
Expired == s.started /\ s.expired

TickDisable(t) ==
    /\ ~usable /\ s.state # "disabled"
    /\ Apply(t, Disable(s), {s.id})
    /\ Ticking /\ UNCHANGED pollDue

TickExpire(t) ==
    /\ usable /\ Expired
    /\ Apply(t, SessionClose(Awake), {s.id})
    /\ Ticking /\ UNCHANGED pollDue

Overdue == s.out # None /\ s.late

\* Faulty variant: the count is tested before it is decremented.
LastTryOffByOne == Overdue /\ s.tries = 0
LastTry == Overdue /\ s.tries <= 1

TickGiveUp(t) ==
    /\ usable /\ ~Expired /\ LastTry
    /\ Apply(t, SessionFail(Awake), {s.id})
    /\ Ticking /\ UNCHANGED pollDue

TickRetransmit(t) ==
    /\ usable /\ ~Expired /\ Overdue /\ ~LastTry
    /\ Apply(t, TransmitAgain([Awake EXCEPT !.tries = @ - 1]), {})
    /\ Ticking /\ UNCHANGED pollDue

\* Faulty variant: the queue is served in command mode only.
QuietInCommandMode ==
    /\ usable /\ ~Expired /\ s.out = None /\ ~s.hold
    /\ s.state \in {"idle", "logged_in", "composing", "logging_off"}
Quiet == usable /\ ~Expired /\ s.out = None /\ ~s.hold

\* The oldest queued command goes out, whatever the state.
TickSend(t) ==
    /\ Quiet /\ s.count > 0
    /\ Apply(t, TransmitNew([Pop(Awake) EXCEPT !.tries = Tries], s.cell[s.head]), {})
    /\ Ticking /\ UNCHANGED pollDue

TickPoll(t) ==
    /\ Quiet /\ s.count = 0 /\ Polling /\ pollDue /\ Awake.state = "idle"
    /\ Apply(t, Push(LoginSession(Awake), "list"), {s.id})
    /\ pollDue' = FALSE
    /\ Ticking

\* A tick that only finds the client usable again.
TickWake(t) ==
    /\ usable /\ s.state = "disabled" /\ (s.hold \/ ~(Polling /\ pollDue))
    /\ Apply(t, Awake, {})
    /\ Ticking /\ UNCHANGED pollDue

(***************************************************************************)
(* The clock and the configuration page                                    *)
(***************************************************************************)
Elsewhere == UNCHANGED <<pending, flight, acked, settled, requests, replies>>

ReplyOverdue ==
    /\ s.out # None /\ ~s.late
    /\ s' = [s EXCEPT !.late = TRUE]
    /\ Elsewhere /\ UNCHANGED <<usable, pollDue, switches>>

HoldEnds ==
    /\ s.hold
    /\ s' = [s EXCEPT !.hold = FALSE]
    /\ Elsewhere /\ UNCHANGED <<usable, pollDue, switches>>

LifetimeEnds ==
    /\ s.started /\ ~s.expired
    /\ s' = [s EXCEPT !.expired = TRUE]
    /\ Elsewhere /\ UNCHANGED <<usable, pollDue, switches>>

PollComes ==
    /\ Polling /\ ~pollDue /\ requests < MaxRequests
    /\ pollDue' = TRUE /\ requests' = requests + 1
    /\ UNCHANGED <<s, pending, usable, flight, acked, settled, replies, switches>>

Switch ==
    /\ switches < MaxSwitches
    /\ switches' = switches + 1
    /\ usable' = ~usable
    /\ Elsewhere /\ UNCHANGED <<s, pollDue>>

Operator(t) ==
    \/ Login(t) \/ Logoff(t) \/ SendCommand(t)
    \/ ComposeBegin(t) \/ ComposeLine(t) \/ ComposeEnd(t) \/ ComposeAbort(t)

Receive(t) ==
    \/ ServiceAck(t) \/ Challenge(t) \/ LoginValid(t) \/ LoggedOff(t) \/ Reply(t)

Tick(t) ==
    \/ TickDisable(t) \/ TickExpire(t) \/ TickGiveUp(t) \/ TickRetransmit(t)
    \/ TickSend(t) \/ TickPoll(t) \/ TickWake(t)

Clock == ReplyOverdue \/ HoldEnds \/ LifetimeEnds \/ PollComes

Next ==
    \/ \E t \in Web : Operator(t)
    \/ \E t \in Rx : Receive(t)
    \/ \E t \in Tasks : Flush(t)
    \/ Tick(Ticker)
    \/ Clock
    \/ Switch

Spec == Init /\ [][Next]_vars

\* The tick task runs once a second, a task that left the critical section
\* reaches its flush_tx, and time goes on.
Fairness ==
    /\ WF_vars(Tick(Ticker)) /\ \A t \in Tasks : WF_vars(Flush(t))
    /\ WF_vars(ReplyOverdue) /\ WF_vars(HoldEnds) /\ WF_vars(LifetimeEnds)

FairSpec == Spec /\ Fairness

(***************************************************************************)
(* Properties                                                              *)
(***************************************************************************)
\* Every variable has its type.
TypeOK ==
    /\ s \in Session
    /\ pending \in [Tasks -> Nat]
    /\ usable \in BOOLEAN /\ pollDue \in BOOLEAN
    /\ flight \subseteq Nat /\ acked \subseteq Nat /\ settled \subseteq Nat
    /\ requests \in 0..MaxRequests /\ replies \in 0..MaxReplies /\ switches \in 0..MaxSwitches

\* A command is transmitted at most WL_CMD_TRIES times before the session is
\* given up, whatever acknowledgements, challenges and replies of other
\* commands reset the retry counter in between.
TriesBound == s.out # None => s.sends + s.tries = Tries + 1 /\ s.tries > 0

\* A session that is closed, has failed or is switched off leaves nothing
\* behind: no queued command and no composition that would leak into the next
\* one, and in command mode no composition is open.
NothingLeftBehind ==
    /\ s.state \in Closed => s.count = 0 /\ ~s.composing
    /\ s.state = "logged_in" => ~s.composing
    /\ s.state = "composing" => s.composing

\* A session is bounded in its tries and clean at its end, its ring well formed.
SessionSound == TypeOK /\ TriesBound /\ NothingLeftBehind

Contents == [i \in 1..s.count |-> s.cell[(s.head + i - 1) % QueueSize]]
Fifo == INSTANCE CommandQueue
            WITH Capacity <- QueueSize, Element <- Commands, q <- Contents

\* The ring buffer is the bounded queue it stands for.
FifoSpec == Fifo!Spec

\* The commands an operator was told are queued leave the queue: sent one by
\* one or given up with their session, also when the service stays silent.
QueueDrains == s.count > 0 ~> s.count = 0

\* Doc property: the next command is sent only once its predecessor was
\* acknowledged (or its session ended).  The number in the ack is ignored.
NextOnlyAfterAck == \A i \in 1..(s.id - 1) : i \in settled

\* Doc property: a command the service acknowledged is not put back on the
\* air.  The retry leaves the critical section before it transmits.
NoReplay ==
    [][\A t \in Tasks : pending[t] # 0 /\ pending'[t] = 0 => pending[t] \notin acked]_vars

\* Doc property: a waiting state is left, by a reply or by a timeout.
WaitingEnds == s.state \in Waiting ~> s.state \notin Waiting

\* Doc property: a log-off that was accepted goes out before anything else
\* is sent, or its session ends.
LogoffNotDropped == s.byeOwed => \E i \in 1..s.count : Contents[i] = "bye"

\* Doc property: between two queued "SP" commands the message is closed.
OneMessageAtATime ==
    \A i, j \in 1..s.count :
        i < j /\ Contents[i] = "sp" /\ Contents[j] = "sp"
            => \E k \in i..j : Contents[k] = "ex"

\* Doc property: what the operator queued is transmitted in command mode,
\* after the login it had to wait for.
QueuedAfterLogin ==
    [][s'.id # s.id /\ s'.out \notin {"login", "answer"}
         => s.state \in {"logged_in", "composing", "logging_off"}]_vars
=============================================================================
