------------------------------ MODULE IsUplink ------------------------------
(***************************************************************************)
(* The APRS-IS session of the gateway: igateTask() with its connection     *)
(* attempts, the rotation over the server slots, the dead-link timer and   *)
(* the live updates the web server asks for through two flags.  The web    *)
(* server saves the settings in one step (under the configuration lock)    *)
(* and raises a flag in the next; the Telegram bring-up competes for the   *)
(* heavy-operation lock; the network and the servers do as they like.      *)
(*                                                                         *)
(* Settings: the enabled slots, an identity (a version number: which       *)
(* save it is from) and a filter, "" when none is configured.  A session   *)
(* is what its server was last told.                                       *)
(***************************************************************************)
EXTENDS Naturals, FiniteSets

CONSTANTS N,          \* APRS_SERVER_NUM
          Filters,    \* server-side filters, "" among them
          MaxSaves,   \* bound: saves of the IGate page
          MaxToggles, \* bound: changes of the network and of the need for it
          MaxDefers   \* bound: attempts deferred, Telegram bring-ups

ServerSlots == 0 .. N - 1
None == "none"
NoSession == [slot |-> N, identity |-> 0, filter |-> ""]

ASSUME SlotsAssumption   == N \in Nat /\ N > 0
ASSUME FiltersAssumption == "" \in Filters
ASSUME IsBounds == MaxSaves \in Nat /\ MaxToggles \in Nat /\ MaxDefers \in Nat

VARIABLES
  enabled, identity, filter,   \* g_config
  promised,                    \* history: the identity of the IGate page's last request
  web,                         \* the flag the web server is about to raise
  reconnect, update,           \* s_reconnectRequested, s_filterUpdateRequested
  needed, online,              \* igateUplinkNeeded(), net_state_is_connected()
  pc, idx,                     \* where igateTask() is, s_serverIdx
  slot, login,                 \* connectAprsIsAttempt()'s copies of the settings
  session,                     \* s_sock: the server, and what it was last told
  quiet, lost,                 \* 90 s without a byte; the far end is gone for good
  heavy,                       \* s_heavyOpLock
  saves, toggles, defers

settings == <<enabled, identity, filter, promised>>
flags    == <<web, reconnect, update>>
world    == <<needed, online>>
attempt  == <<slot, login>>
link     == <<session, quiet, lost>>
bounds   == <<saves, toggles, defers>>
isVars == <<settings, flags, world, pc, idx, attempt, link, heavy, bounds>>

IsInit ==
  /\ enabled \in SUBSET ServerSlots /\ identity = 0 /\ filter \in Filters /\ promised = 0
  /\ web = None /\ reconnect = FALSE /\ update = FALSE
  /\ needed = TRUE /\ online \in BOOLEAN
  /\ pc = "top" /\ idx = 0
  /\ slot = 0 /\ login = [identity |-> 0, filter |-> ""]
  /\ session = NoSession /\ quiet = FALSE /\ lost = FALSE
  /\ heavy = "free"
  /\ saves = 0 /\ toggles = 0 /\ defers = 0

-----------------------------------------------------------------------------
(* The settings page and the rest of the station *)

\* The IGate page's save handler, up to app_config_unlock().
Save ==
  /\ web = None /\ saves < MaxSaves /\ saves' = saves + 1
  /\ \/ /\ enabled' \in SUBSET ServerSlots \ {enabled} /\ filter' \in Filters
        /\ web' = "reconnect" /\ UNCHANGED identity
     \/ /\ identity' = identity + 1 /\ filter' \in Filters
        /\ web' = "reconnect" /\ UNCHANGED enabled
     \/ /\ filter' \in Filters \ {filter}
        /\ web' = "update" /\ UNCHANGED <<enabled, identity>>
  /\ promised' = IF web' = "reconnect" THEN identity' ELSE promised
  /\ UNCHANGED <<reconnect, update, world, pc, idx, attempt, link, heavy, toggles, defers>>

\* The Station page's handler: station_resync_dependents() renames the uplink
\* as well, when the IGate page uses the station's callsign.
SaveStation ==
  /\ web = None /\ saves < MaxSaves /\ saves' = saves + 1
  /\ identity' = identity + 1
  /\ UNCHANGED <<enabled, filter, promised, flags, world, pc, idx, attempt, link, heavy,
                 toggles, defers>>

\* igate_request_reconnect(), igate_request_filter_update()
Announce ==
  /\ web # None /\ web' = None
  /\ reconnect' = (reconnect \/ web = "reconnect")
  /\ update' = (update \/ web = "update")
  /\ UNCHANGED <<settings, world, pc, idx, attempt, link, heavy, bounds>>

Toggle ==
  /\ toggles < MaxToggles /\ toggles' = toggles + 1
  /\ \/ needed' = ~needed /\ UNCHANGED online
     \/ online' = ~online /\ UNCHANGED needed
  /\ UNCHANGED <<settings, flags, pc, idx, attempt, link, heavy, saves, defers>>

Telegram ==
  /\ \/ heavy = "free" /\ defers < MaxDefers /\ defers' = defers + 1 /\ heavy' = "telegram"
     \/ heavy = "telegram" /\ heavy' = "free" /\ UNCHANGED defers
  /\ UNCHANGED <<settings, flags, world, pc, idx, attempt, link, saves, toggles>>

\* Nothing has been read for IGATE_RX_SILENCE_US; a lost link delivers nothing.
Silence ==
  /\ session # NoSession /\ ~quiet /\ quiet' = TRUE
  /\ UNCHANGED <<settings, flags, world, pc, idx, attempt, session, lost, heavy, bounds>>

LinkLost ==
  /\ session # NoSession /\ ~lost /\ lost' = TRUE
  /\ UNCHANGED <<settings, flags, world, pc, idx, attempt, session, quiet, heavy, bounds>>

-----------------------------------------------------------------------------
(* Pieces of igateTask() *)

\* Faulty variant: the selected slot is tried again while it is enabled.
StickToServer == idx' = IF idx \in enabled THEN idx ELSE (idx + 1) % N
\* Faulty variant: no wrap after the last slot.
AdvanceUnwrapped == idx' = idx + 1
\* advanceServer(): the next enabled slot, the current one last.
AdvanceServer ==
  \/ \E k \in 1 .. N : /\ (idx + k) % N \in enabled
                       /\ \A j \in 1 .. k - 1 : (idx + j) % N \notin enabled
                       /\ idx' = (idx + k) % N
  \/ enabled = {} /\ UNCHANGED idx

\* currentServer()
CurrentServer == IF idx \in enabled THEN idx ELSE 0

CloseSocket == session' = NoSession /\ quiet' = FALSE /\ lost' = FALSE

Go(from, to) == pc = from /\ pc' = to

-----------------------------------------------------------------------------
(* The loop up to a connection attempt *)

Top ==
  /\ \/ ~(needed /\ online) /\ Go("top", "top") /\ CloseSocket
     \/ needed /\ online /\ session = NoSession /\ Go("top", "dial") /\ UNCHANGED link
     \/ needed /\ online /\ session # NoSession /\ Go("top", "silence") /\ UNCHANGED link
  /\ UNCHANGED <<settings, flags, world, idx, attempt, heavy, bounds>>

\* heap_monitor_try_heavy_op()
TryHeavyOp ==
  /\ \/ heavy = "free" /\ heavy' = "igate" /\ Go("dial", "heap")
     \/ heavy # "free" /\ Go("dial", "top") /\ UNCHANGED heavy
  /\ UNCHANGED <<settings, flags, world, idx, attempt, link, bounds>>

\* Faulty variant: the lock is kept.
StillHeavy == UNCHANGED heavy
ReleaseHeavy == heavy' = "free"

HeapLow ==
  /\ Go("heap", "top") /\ defers < MaxDefers /\ defers' = defers + 1
  /\ heavy' = "free"
  /\ UNCHANGED <<settings, flags, world, idx, attempt, link, saves, toggles>>

CopyServer ==
  /\ Go("heap", "copy") /\ slot' = CurrentServer
  /\ UNCHANGED <<settings, flags, world, idx, login, link, heavy, bounds>>

CopyLogin ==
  /\ Go("copy", "connect")
  /\ login' = [identity |-> identity, filter |-> filter]
  /\ UNCHANGED <<settings, flags, world, idx, slot, link, heavy, bounds>>

\* Address resolution, socket, TCP connect.
ConnectFails ==
  /\ Go("connect", "top") /\ AdvanceServer /\ ReleaseHeavy
  /\ UNCHANGED <<settings, flags, world, attempt, link, bounds>>

Connects ==
  /\ Go("connect", "login") /\ heavy' = "free"
  /\ UNCHANGED <<settings, flags, world, idx, attempt, link, bounds>>

LoginFails ==
  /\ Go("login", "top") /\ AdvanceServer
  /\ UNCHANGED <<settings, flags, world, attempt, link, heavy, bounds>>

\* Faulty variant: requests that came in meanwhile are taken for served.
RequestServed == FALSE
RequestKept == reconnect

\* The login is sent, the banner read, the socket published.
LogsIn ==
  /\ Go("login", "silence")
  /\ session' = [slot |-> slot, identity |-> login.identity, filter |-> login.filter]
  /\ quiet' = FALSE /\ lost' = FALSE
  /\ reconnect' = RequestKept
  /\ UNCHANGED <<settings, web, update, world, idx, attempt, heavy, bounds>>

-----------------------------------------------------------------------------
(* The loop with a session *)

\* Faulty variant: the dead link is dialled again.
StayOnServer == UNCHANGED idx
LeaveServer == AdvanceServer

\* endSessionAndFailover()
EndSession == LeaveServer /\ CloseSocket

\* Faulty variant: keep-alive alone is left to find a dead link.
NeverSilent == FALSE
TooSilent == quiet

CheckSilence ==
  /\ \/ TooSilent /\ Go("silence", "top") /\ EndSession
     \/ ~TooSilent /\ Go("silence", "request") /\ UNCHANGED <<idx, link>>
  /\ UNCHANGED <<settings, flags, world, attempt, heavy, bounds>>

\* The flag is read in one step and cleared in the next.
CheckReconnect ==
  /\ Go("request", IF reconnect THEN "honour" ELSE "update")
  /\ UNCHANGED <<settings, flags, world, idx, attempt, link, heavy, bounds>>

ClearRequests ==
  /\ Go("honour", "drop") /\ reconnect' = FALSE /\ update' = FALSE
  /\ UNCHANGED <<settings, web, world, idx, attempt, link, heavy, bounds>>

Drop ==
  /\ Go("drop", "top") /\ CloseSocket
  /\ UNCHANGED <<settings, flags, world, idx, attempt, heavy, bounds>>

CheckUpdate ==
  /\ Go("update", IF update THEN "clear" ELSE "recv")
  /\ UNCHANGED <<settings, flags, world, idx, attempt, link, heavy, bounds>>

ClearUpdate ==
  /\ Go("clear", "push") /\ update' = FALSE
  /\ UNCHANGED <<settings, web, reconnect, world, idx, attempt, link, heavy, bounds>>

\* The filter command, unless there is no filter to send; it may fail.
PushFilter ==
  /\ Go("push", "recv")
  /\ \/ filter # "" /\ session' = [session EXCEPT !.filter = filter]
     \/ UNCHANGED session
  /\ UNCHANGED <<settings, flags, world, idx, attempt, quiet, lost, heavy, bounds>>

Recv ==
  /\ \/ ~lost /\ Go("recv", "top") /\ quiet' = FALSE /\ UNCHANGED <<idx, session, lost>>
     \/ Go("recv", "top") /\ UNCHANGED <<idx, link>>                   \* timed out
     \/ Go("recv", "top") /\ EndSession                                \* closed, error
  /\ UNCHANGED <<settings, flags, world, attempt, heavy, bounds>>

-----------------------------------------------------------------------------
Dial == TryHeavyOp \/ CopyServer \/ CopyLogin \/ ConnectFails \/ Connects \/ LoginFails \/ LogsIn
Loop == \/ CheckSilence \/ CheckReconnect \/ ClearRequests \/ Drop \/ CheckUpdate
        \/ ClearUpdate \/ PushFilter \/ Recv

IsNext ==
  \/ Save \/ SaveStation \/ Announce \/ Toggle \/ Telegram \/ Silence \/ LinkLost
  \/ Top \/ HeapLow \/ Dial \/ Loop

IsSpec == IsInit /\ [][IsNext]_isVars

(* The task is scheduled, the web server finishes what it began, a bring-up  *)
(* ends, and 90 s without a byte pass on a lost link.                         *)
Fairness ==
  /\ WF_isVars(Top \/ HeapLow \/ Dial \/ Loop) /\ WF_isVars(Announce)
  /\ WF_isVars(heavy = "telegram" /\ Telegram) /\ WF_isVars(lost /\ Silence)

IsFairSpec == IsSpec /\ Fairness

-----------------------------------------------------------------------------
(* Properties *)

Steps == {"top", "dial", "heap", "copy", "connect", "login", "silence", "request", "honour",
          "drop", "update", "clear", "push", "recv"}
Logins == [identity : Nat, filter : Filters]

\* Type invariant: the selected slot is one of the list after every rotation.
IsTypeOK ==
  /\ enabled \subseteq ServerSlots /\ identity \in Nat /\ filter \in Filters
  /\ promised \in Nat
  /\ web \in {None, "reconnect", "update"} /\ reconnect \in BOOLEAN /\ update \in BOOLEAN
  /\ needed \in BOOLEAN /\ online \in BOOLEAN
  /\ pc \in Steps /\ idx \in ServerSlots /\ slot \in ServerSlots /\ login \in Logins
  /\ session \in [slot : ServerSlots, identity : Nat, filter : Filters] \cup {NoSession}
  /\ quiet \in BOOLEAN /\ lost \in BOOLEAN
  /\ heavy \in {"free", "igate", "telegram"}
  /\ saves \in Nat /\ toggles \in Nat /\ defers \in Nat

\* The heavy-operation lock is given back on every one of the attempt's exits:
\* the task holds it nowhere else.
HeavyGivenBack == heavy = "igate" => pc \in {"heap", "copy", "connect"}

\* A session, or an attempt under way, that was begun with an identity the
\* IGate page has replaced since is going to be dropped: no order of the save,
\* the copies, the reading and clearing of the flag and the login loses the
\* request ("the usual read/clear race costs at worst one extra reconnect,
\* never a missed one").
NoLostRequest ==
  LET asked == reconnect \/ web = "reconnect"
  IN /\ pc \in {"connect", "login"} /\ login.identity < promised => asked
     /\ session # NoSession /\ session.identity < promised
          => asked \/ pc \in {"honour", "drop"}

\* No exit of a connection attempt keeps the lock, and no order of save, copy
\* and login loses a request.
UplinkKept == IsTypeOK /\ HeavyGivenBack /\ NoLostRequest

\* An identity saved on the IGate page reaches the server without waiting for
\* the link to drop.
SavedIdentityReachesServer ==
  session # NoSession /\ session.identity < promised
    ~> (session = NoSession \/ session.identity >= promised)

\* A link whose far end is gone is left.
LostLinkLeft == lost ~> ~lost

Dialled(s) == pc = "connect" /\ slot = s

\* "The rotation never stops: it keeps cycling through every enabled slot until
\* one accepts the connection": a slot that stays enabled is dialled again and
\* again unless some session lasts.
EverySlotTried ==
  \A s \in ServerSlots :
    <>[](s \in enabled /\ needed /\ online) => []<>Dialled(s) \/ <>[](session # NoSession)

\* The right identity at a live server, and every server its turn.
ServersServed == SavedIdentityReachesServer /\ LostLinkLeft /\ EverySlotTried

\* "a server that accepts a session and then fails to sustain it ... is left
\* behind rather than dialled again": after a session that ended on the server's
\* side the selection is another enabled slot, if there is one.
LeftBehind ==
  [][session # NoSession /\ session' = NoSession /\ pc \in {"silence", "recv"}
       => idx' # idx \/ enabled \subseteq {idx}]_isVars

\* "Disabled slots are skipped on the first selection after boot as well, not
\* only after a failure ... If no slot at all is enabled the task falls back to
\* slot 1."
DisabledNotSelected ==
  [][pc = "heap" /\ pc' = "copy" => slot' \in enabled \/ enabled = {}]_isVars

\* "A changed login identity or server list ... must not wait for the link to
\* drop on its own", whichever page changed it.
IdentityReachesServer ==
  session # NoSession /\ session.identity # identity
    ~> (session = NoSession \/ session.identity = identity)

\* "push the current g_config.aprs_filter to APRS-IS on its next loop iteration
\* without dropping the session"
FilterReachesServer ==
  session # NoSession /\ session.filter # filter
    ~> (session = NoSession \/ session.filter = filter)

\* "A call while no session is open ... is a harmless no-op": only a session
\* the save made stale is dropped.
OnlyStaleDropped ==
  [][pc = "drop" /\ pc' = "top" =>
       session.identity # identity \/ session.slot \notin enabled]_isVars
=============================================================================
