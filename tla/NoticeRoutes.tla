----------------------------- MODULE NoticeRoutes -----------------------------
(***************************************************************************)
(* Station messages and bulletins on their way to Telegram                 *)
(* (main/telegram_app.c): the copy of the settings every call reads        *)
(* without the lock, the ring of bulletins already routed, the queue of    *)
(* notices and the fan-out to everyone the station knows.                  *)
(*                                                                         *)
(* A bulletin arrives on three tasks (RF, APRS-IS, the beacon scheduler)   *)
(* and its call is three steps here: the test, the queueing, the arming of *)
(* its window.  A save publishes the settings member by member, the table  *)
(* of users row by row, while those calls and the worker read them.  The   *)
(* text of a notice is left out; TelegramApp has the worker's life.        *)
(***************************************************************************)
EXTENDS Naturals, Sequences, SequencesExt, FiniteSets

CONSTANTS
    Callers,    \* tasks a bulletin reaches this module on
    Bulletins,  \* bulletins: sender, slot and text
    Plans,      \* the settings a save may publish
    Slots,      \* TELEGRAM_BULLETIN_SEEN_SLOTS
    NoticeLen,   \* TELEGRAM_NOTIFY_QUEUE_LEN
    Rows,       \* TELEGRAM_APP_USERS_MAX
    MaxTableSaves,   \* bound: saves after the one at start-up
    MaxRouteClock    \* bound: clock steps

ASSUME RoutesAssumption ==
    /\ {Slots, NoticeLen, Rows} \subseteq Nat \ {0}
    /\ {MaxTableSaves, MaxRouteClock} \subseteq Nat
    /\ \A plan \in Plans : Len(plan.users) <= Rows /\ plan.window \in Nat

VARIABLES
    route,    \* s_route_*, s_enabled, s_bulletin_window_s: the published copy
    writer,   \* the save that publishes: its settings and how far it is
    botUp,       \* s_service_up
    notices,    \* s_notify_queue: whom each waiting notice is for, 0 for everyone
    seen,     \* s_bulletin_seen: slots of [text, at], at = 0 unused
    next,     \* s_bulletin_seen_next
    call,     \* caller -> its bulletin and how far the call is
    message,  \* the message the frame-decoding path is routing, and the row it is at
    pass,     \* the fan-out under way: recipients reached, in order
    routeClock,
    saves,
    routed,   \* ghost: bulletin -> when it was last queued, 0 never
    others    \* ghost: bulletin -> arrivals recorded since
routeVars == <<route, writer, botUp, notices, seen, next, call, message, pass, routeClock, saves, routed, others>>

NoRow == [id |-> 0, call |-> "none"]
Padded(users) == [i \in 1 .. Rows |-> IF i \in DOMAIN users THEN users[i] ELSE NoRow]
Published(plan) ==
    [messages |-> plan.messages, users |-> Padded(plan.users), count |-> Len(plan.users), bulletins |-> plan.bulletins,
     window |-> plan.window, chats |-> plan.chats, admin |-> plan.admin]
NoCall == [at |-> "idle", bulletin |-> <<>>]
NoMessage == [to |-> "none", row |-> 1, plain |-> TRUE, reached |-> <<>>]
NoPass == [at |-> "idle", sent |-> <<>>, plain |-> TRUE]
NoWriter == [at |-> "idle", row |-> 1, plan |-> CHOOSE plan \in Plans : TRUE]

RouteInit ==
    /\ \E plan \in Plans : route = Published(plan)
    /\ writer = NoWriter
    /\ botUp \in BOOLEAN
    /\ notices = <<>>
    /\ seen = [i \in 0 .. Slots - 1 |-> [text |-> "none", at |-> 0]] /\ next = 0
    /\ call = [t \in Callers |-> NoCall]
    /\ message = NoMessage /\ pass = NoPass
    /\ routeClock = 1 /\ saves = 0
    /\ routed = [b \in Bulletins |-> 0] /\ others = [b \in Bulletins |-> 0]

-----------------------------------------------------------------------------
(* The save: telegram_app_apply_config().                                   *)
\* what reads the published copy while it changes has not read one table
Disturbed ==
    /\ message' = [message EXCEPT !.plain = message.to = "none"]
    /\ pass' = [pass EXCEPT !.plain = pass.at = "idle"]

Save ==
    /\ writer.at = "idle" /\ saves < MaxTableSaves
    /\ saves' = saves + 1
    /\ \E plan \in Plans : writer' = [at |-> "users", row |-> 1, plan |-> plan]
                           /\ route' = [route EXCEPT !.messages = plan.messages]
    /\ Disturbed
    /\ UNCHANGED <<botUp, notices, seen, next, call, routeClock, routed, others>>

CopyRow ==
    /\ writer.at = "users" /\ writer.row <= Rows
    /\ route' = [route EXCEPT !.users[writer.row] = Padded(writer.plan.users)[writer.row]]
    /\ writer' = [writer EXCEPT !.row = @ + 1]
    /\ Disturbed
    /\ UNCHANGED <<botUp, notices, seen, next, call, routeClock, saves, routed, others>>

CopyRest ==
    /\ writer.at = "users" /\ writer.row > Rows
    /\ route' = Published(writer.plan)
    /\ writer' = NoWriter
    /\ Disturbed
    /\ UNCHANGED <<botUp, notices, seen, next, call, routeClock, saves, routed, others>>

\* the bot is brought up or taken down by the worker; a call reads it when it begins
Link ==
    /\ \A t \in Callers : call[t].at = "idle"
    /\ message.to = "none" /\ pass.at = "idle"
    /\ botUp' = ~botUp
    /\ UNCHANGED <<route, writer, notices, seen, next, call, message, pass, routeClock, saves, routed, others>>

-----------------------------------------------------------------------------
(* Bulletins: telegram_app_notify_bulletin().                               *)
\* Faulty variant: the addressee is compared as it was handed over.
TrimmedNot(bulletin, spaces) == IF spaces THEN <<bulletin, "padded">> ELSE <<bulletin>>
\* bulletin_trim_addressee(): the scheduler's padded addressee and the decoder's are one
Trimmed(bulletin, spaces) == <<bulletin>>

\* Faulty variant: the window alone decides, an unused slot included.
SeenRecentlyByAny(text) == \E i \in DOMAIN seen : routeClock - seen[i].at < route.window
\* bulletin_seen_recently(): a window of 0 routes every copy
SeenRecently(text) ==
    \E i \in DOMAIN seen : seen[i].at # 0 /\ seen[i].text = text /\ routeClock - seen[i].at < route.window

\* Faulty variant: the place never moves on.
FollowingStays == next
Following == (next + 1) % Slots

\* Faulty variant: the window is armed by a bulletin that found no room too.
ArmsAnyway(taken) == TRUE
Arms(taken) == taken

HasRoom == Len(notices) < NoticeLen

Hear(t) ==
    /\ call[t].at = "idle" /\ route.bulletins /\ botUp
    /\ \E bulletin \in Bulletins, spaces \in BOOLEAN :
          LET text == Trimmed(bulletin, spaces) IN
          call' = [call EXCEPT ![t] = [at |-> IF SeenRecently(text) THEN "repeat" ELSE "tested", bulletin |-> text]]
    /\ UNCHANGED <<route, writer, botUp, notices, seen, next, message, pass, routeClock, saves, routed, others>>

Queue(t) ==
    /\ call[t].at = "tested"
    /\ notices' = IF HasRoom THEN Append(notices, 0) ELSE notices
    /\ LET bulletin == Head(call[t].bulletin) IN
       routed' = [routed EXCEPT ![bulletin] = IF HasRoom THEN routeClock ELSE @]
    /\ call' = [call EXCEPT ![t] = IF Arms(HasRoom) THEN [@ EXCEPT !.at = "queued"] ELSE NoCall]
    /\ UNCHANGED <<route, writer, botUp, seen, next, message, pass, routeClock, saves, others>>

\* bulletin_seen_record()
Record(t) ==
    /\ call[t].at = "queued"
    /\ seen' = [seen EXCEPT ![next] = [text |-> call[t].bulletin, at |-> routeClock]]
    /\ next' = Following
    /\ others' = [b \in Bulletins |-> IF b = Head(call[t].bulletin) THEN 0
                                      ELSE IF others[b] < Slots THEN others[b] + 1 ELSE Slots]
    /\ call' = [call EXCEPT ![t] = NoCall]
    /\ UNCHANGED <<route, writer, botUp, notices, message, pass, routeClock, saves, routed>>

HeldBack(t) ==
    /\ call[t].at = "repeat"
    /\ call' = [call EXCEPT ![t] = NoCall]
    /\ UNCHANGED <<route, writer, botUp, notices, seen, next, message, pass, routeClock, saves, routed, others>>

-----------------------------------------------------------------------------
(* Messages: telegram_app_notify_station_message().                         *)
RouteMessage ==
    /\ message.to = "none" /\ route.messages /\ botUp
    /\ \E to \in {row.call : row \in ToSet(route.users)} \ {"none"} :
          message' = [to |-> to, row |-> 1, plain |-> writer.at = "idle", reached |-> <<>>]
    /\ UNCHANGED <<route, writer, botUp, notices, seen, next, call, pass, routeClock, saves, routed, others>>

\* Faulty variant: the first match ends the search.
GoesOnUntilMatch(matched) == ~matched
\* every user of that callsign gets a copy
GoesOn(matched) == TRUE

LookAtRow ==
    /\ message.to # "none" /\ message.row <= route.count
    /\ LET row == route.users[message.row]
           matched == row.call = message.to
       IN /\ notices' = IF matched /\ HasRoom THEN Append(notices, row.id) ELSE notices
          /\ message' = [message EXCEPT !.row = IF GoesOn(matched) THEN @ + 1 ELSE Rows + 1,
                                        !.reached = IF matched THEN Append(@, row.id) ELSE @]
    /\ UNCHANGED <<route, writer, botUp, seen, next, call, pass, routeClock, saves, routed, others>>

MessageRouted ==
    /\ message.to # "none" /\ message.row > route.count
    /\ message' = NoMessage
    /\ UNCHANGED <<route, writer, botUp, notices, seen, next, call, pass, routeClock, saves, routed, others>>

-----------------------------------------------------------------------------
(* The worker's drain: notify_send_one(), notify_broadcast().               *)
Users == [i \in 1 .. route.count |-> route.users[i].id]

\* Faulty variant: the administrator is sent to whoever is in the table.
AdminTooTwice == route.admin # 0
\* the administrator is sent to apart, unless the table lists them
AdminToo == route.admin # 0 /\ route.admin \notin ToSet(Users)

Take ==
    /\ pass.at = "idle" /\ notices # <<>>
    /\ notices' = Tail(notices)
    /\ pass' = IF Head(notices) = 0 THEN [at |-> "users", sent |-> <<>>, plain |-> writer.at = "idle"] ELSE NoPass
    /\ UNCHANGED <<route, writer, botUp, seen, next, call, message, routeClock, saves, routed, others>>

\* one send may take seconds, the copy is read again for the next recipient
SendNext ==
    /\ pass.at = "users"
    /\ pass' = IF Len(pass.sent) < route.count
               THEN [pass EXCEPT !.sent = Append(@, route.users[Len(@) + 1].id)]
               ELSE [pass EXCEPT !.at = "done",
                                 !.sent = @ \o (IF AdminToo THEN <<route.admin>> ELSE <<>>) \o route.chats]
    /\ UNCHANGED <<route, writer, botUp, notices, seen, next, call, message, routeClock, saves, routed, others>>

Done ==
    /\ pass.at = "done"
    /\ pass' = NoPass
    /\ UNCHANGED <<route, writer, botUp, notices, seen, next, call, message, routeClock, saves, routed, others>>

\* a step of the clock is longer than a call
RouteTick ==
    /\ routeClock < MaxRouteClock /\ \A t \in Callers : call[t].at = "idle"
    /\ routeClock' = routeClock + 1
    /\ UNCHANGED <<route, writer, botUp, notices, seen, next, call, message, pass, saves, routed, others>>

RouteNext ==
    \/ Save \/ CopyRow \/ CopyRest \/ Link
    \/ \E t \in Callers : Hear(t) \/ Queue(t) \/ Record(t) \/ HeldBack(t)
    \/ RouteMessage \/ LookAtRow \/ MessageRouted
    \/ Take \/ SendNext \/ Done
    \/ RouteTick
RouteSpec == RouteInit /\ [][RouteNext]_routeVars

-----------------------------------------------------------------------------
\* "a bulletin that could not be routed this time is routed on its next transmission instead of
\* being held back" (telegram_app.c:948-951): what is dropped as a repeat was queued within the
\* window.
HeldBackWasRouted ==
    [][\A t \in Callers :
          call[t].at = "idle" /\ call'[t].at = "repeat"
              => LET when == routed[Head(call'[t].bulletin)] IN when # 0 /\ routeClock - when < route.window]_routeVars

\* A bulletin goes out once a window whatever spelling its addressee arrives in, unless two
\* tasks bring it at the same time or more bulletins came since than the ring remembers
\* (lines 798-824, 836-840).
OncePerWindow ==
    [][\A t \in Callers :
          call[t].at = "idle" /\ call'[t].at = "tested"
              => LET bulletin == Head(call'[t].bulletin) IN
                 \/ routed[bulletin] = 0 \/ routeClock - routed[bulletin] >= route.window
                 \/ others[bulletin] >= Slots
                 \/ \E u \in Callers \ {t} : call[u].at = "queued" /\ Head(call[u].bulletin) = bulletin]_routeVars

\* What is held back was routed, and what is routed is held back for a window.
RepeatsHeldBack == HeldBackWasRouted /\ OncePerWindow

\* A fan-out reaches every user, every chat and the administrator, each once, when no save
\* publishes another table under it (lines 424-461).
EveryoneOnce ==
    pass.at = "done" /\ pass.plain
        => /\ IsInjective(pass.sent)
           /\ ToSet(pass.sent) = (ToSet(Users) \cup ToSet(route.chats) \cup {route.admin}) \ {0}

\* A message is copied to every user of the callsign it names, each once, when no save publishes
\* another table under the search (lines 712-720).
AddresseesOnce ==
    message.to # "none" /\ message.row > route.count /\ message.plain
        => /\ IsInjective(message.reached)
           /\ ToSet(message.reached) = {route.users[i].id : i \in {j \in 1 .. route.count : route.users[j].call = message.to}}

\* Everyone a notice or a message is for gets it, and gets it once.
DeliverySound == EveryoneOnce /\ AddresseesOnce

\* "a save landing mid-lookup is seen as either the whole old table or the whole new one, never
\* a mix of both" (telegram_app.c:316-320): nobody is sent the same message twice.
WholeTable == IsInjective(message.reached)
===============================================================================
