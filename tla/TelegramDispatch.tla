--------------------------- MODULE TelegramDispatch ---------------------------
(***************************************************************************)
(* From an update to its handler: the tables of the Telegram service and   *)
(* what it does with one update (components/telegram_service/              *)
(* telegram_service.c), seeded from the station's settings as              *)
(* main/telegram_app.c does it.                                            *)
(*                                                                         *)
(* A person or a group chat is a number, 0 is nobody.  A name or a payload *)
(* is a string; the words of an answer are left out.  The tables are only  *)
(* touched under the mutex and one task handles every update, so an update *)
(* is one step.  What a command answers, and the flag /alerts sets (see     *)
(* TelegramLink), are left out.                                            *)
(***************************************************************************)
EXTENDS Naturals, Integers, Sequences, SequencesExt, FiniteSetsExt

CONSTANTS
    People,      \* numeric identifiers of the people who write to the bot
    Chats,       \* ... and of the group chats
    MaxUsers,    \* CONFIG_TELEGRAM_SERVICE_MAX_USERS
    MaxChats,    \* CONFIG_TELEGRAM_SERVICE_MAX_CHATS
    MaxUnknown,  \* CONFIG_TELEGRAM_SERVICE_MAX_UNKNOWN_SENDERS
    Window,      \* CONFIG_TELEGRAM_SERVICE_UNKNOWN_REPLY_INTERVAL_S, in clock steps
    MaxListed,   \* TELEGRAM_APP_USERS_MAX
    AdminListed, \* the administrator may be in the table of users as well
    MaxClock     \* bound: clock steps

ASSUME DispatchAssumption ==
    /\ People \subseteq Nat \ {0} /\ Chats \subseteq Nat \ {0}
    /\ {MaxUsers, MaxChats, MaxUnknown} \subseteq Nat \ {0}
    /\ {Window, MaxListed, MaxClock} \subseteq Nat
    /\ AdminListed \in BOOLEAN

VARIABLES
    config,   \* the settings: administrator, listed users, listed chats, open_access
    users,    \* s_users: entries in use, in order
    chats,    \* s_chats
    unknown,  \* s_unknown: entries in use, in order
    commands, \* s_commands: name -> admin_only
    clock,    \* in steps; an answer takes one, so no two are stamped alike
    outcome,  \* the last update and what became of it
    told,     \* ghost: when each stranger was last told an identifier
    since     \* ghost: the strangers told after that
dispatchVars == <<config, users, chats, unknown, commands, clock, outcome, told, since>>

tables == <<users, chats, commands>>

-----------------------------------------------------------------------------
(* The tables.                                                              *)
Entry(table, id) == {i \in DOMAIN table : table[i].id = id}

\* telegram_add_user(): an entry of that identifier is updated; a full table refuses
AddUser(table, id, admin) ==
    IF Entry(table, id) # {}
    THEN [i \in DOMAIN table |-> IF i \in Entry(table, id) THEN [id |-> id, admin |-> admin] ELSE table[i]]
    ELSE IF Len(table) < MaxUsers THEN Append(table, [id |-> id, admin |-> admin]) ELSE table

\* telegram_allow_chat()
AllowChat(allowed, chat) ==
    IF chat \in allowed \/ Cardinality(allowed) < MaxChats THEN allowed \cup {chat} ELSE allowed

\* telegram_init() adds the administrator, bring_up_attempt() everyone who is listed
SeededUsers(settings) ==
    LET first == IF settings.admin = 0 THEN <<>> ELSE AddUser(<<>>, settings.admin, TRUE)
    IN FoldLeft(LAMBDA table, id : AddUser(table, id, FALSE), first, settings.listed)
SeededChats(settings) == FoldLeft(AllowChat, {}, settings.chats)

\* telegram_register_builtin_commands() of a station that does not allow /reboot:
\* name -> admin_only
Reserved == {"config", "get", "set", "users", "alerts"}
Open == {"start", "help", "status", "sensors", "uptime", "whoami", "menu", "stats"}
Builtins == [name \in Reserved \cup Open |-> name \in Reserved]

\* lists of the page: no identifier twice, the administrator among them only if AdminListed
Lists(admin) ==
    {list \in UNION {[1 .. n -> People] : n \in 0 .. MaxListed} :
        /\ IsInjective(list)
        /\ AdminListed \/ admin \notin ToSet(list)
        /\ \A i \in 1 .. Len(list) - 1 : list[i] < list[i + 1]}

\* what is kept of an update and of what became of it
Outcome(update, did) ==
    [kind |-> update.kind, from |-> update.from, group |-> update.group, chat |-> update.chat, did |-> did]
Nothing == Outcome([kind |-> "none", from |-> 0, group |-> FALSE, chat |-> 0], "nothing")

DispatchInit ==
    /\ \E admin \in People \cup {0}, open \in BOOLEAN :
           \E list \in Lists(admin) :
               config = [admin |-> admin, listed |-> list, chats |-> <<Min(Chats)>>, open |-> open]
    /\ users = SeededUsers(config) /\ chats = SeededChats(config)
    /\ unknown = <<>>
    /\ commands = Builtins
    /\ clock = 1
    /\ outcome = Nothing
    /\ told = [p \in People |-> 0] /\ since = [p \in People |-> {}]

-----------------------------------------------------------------------------
(* Decoding: what kind of update a message is.                              *)
\* telegram_parse_message(): the first of these a message carries; a caption may go with it
Attachments == <<"photo", "document", "location", "contact", "web_app">>
KindOf(content) ==
    IF \E i \in DOMAIN Attachments : Attachments[i] \in content
    THEN LET i == Min({j \in DOMAIN Attachments : Attachments[j] \in content})
         IN Attachments[i]
    ELSE IF "slash" \in content THEN "command" ELSE IF "words" \in content THEN "text" ELSE "none"

\* telegram_parse_callback() without its message: the sender's own chat
ChatOf(update) == IF update.kind = "callback" /\ update.chat = 0 THEN update.from ELSE update.chat

(* Authorization.                                                           *)
IsAuthorized(id) == config.open \/ Entry(users, id) # {}
IsAdmin(id) == config.open \/ \E i \in Entry(users, id) : users[i].admin
IsChatAllowed(chat) == config.open \/ chat \in chats

\* Faulty variant: an unattributed reaction is let through wherever it comes from.
AuthorizeAnyCount(update) ==
    \/ update.kind = "reaction_count"
    \/ (update.group => IsChatAllowed(update.chat)) /\ IsAuthorized(update.from)
\* Faulty variant: a listed group vouches for everyone in it.
AuthorizeByGroup(update) == IF update.group THEN IsChatAllowed(update.chat) ELSE IsAuthorized(update.from)
\* telegram_authorize_update(): a reaction count names no sender; its group's listing vouches for it
Authorize(update) ==
    /\ update.group => IsChatAllowed(update.chat)
    /\ (update.group /\ update.kind = "reaction_count") \/ IsAuthorized(update.from)

\* Faulty variant: the entry that goes is always the first.
OldestIsFirst == 1
Oldest ==
    LET times == {unknown[i].at : i \in DOMAIN unknown}
    IN Min({i \in DOMAIN unknown : unknown[i].at = Min(times)})

\* Faulty variant: a full table answers nobody new.
ReplyDueWithRoom(id) ==
    IF Entry(unknown, id) # {} THEN \A i \in Entry(unknown, id) : clock - unknown[i].at >= Window
    ELSE Len(unknown) < MaxUnknown
\* telegram_unknown_reply_due()
ReplyDue(id) == \A i \in Entry(unknown, id) : clock - unknown[i].at >= Window

Remembered(id) ==
    LET entry == [id |-> id, at |-> clock]
    IN IF Entry(unknown, id) # {}
       THEN [unknown EXCEPT ![CHOOSE i \in Entry(unknown, id) : TRUE] = entry]
       ELSE IF Len(unknown) < MaxUnknown THEN Append(unknown, entry)
            ELSE [unknown EXCEPT ![Oldest] = entry]

\* only a private command is answered, and not one from a group nobody listed
Refusable(update) == ~update.group /\ update.kind = "command"

Refuse(update) ==
    IF Refusable(update) /\ ReplyDue(update.from)
    THEN /\ clock < MaxClock /\ clock' = clock + 1
         /\ unknown' = Remembered(update.from)
         /\ outcome' = Outcome(update, "told")
         /\ IF update.from = 0 THEN UNCHANGED <<told, since>>
            ELSE /\ told' = [told EXCEPT ![update.from] = clock]
                 /\ since' = [p \in People |-> IF p = update.from THEN {} ELSE since[p] \cup {update.from}]
    ELSE outcome' = Outcome(update, "ignored") /\ UNCHANGED <<unknown, clock, told, since>>

-----------------------------------------------------------------------------
(* Commands and buttons.                                                    *)
\* telegram_process_command()
Command(update, admin) ==
    IF update.name \notin DOMAIN commands THEN "unknown"
    ELSE IF commands[update.name] /\ ~admin THEN "reserved" ELSE "served"

\* telegram_builtin_menu_callback() behind the prefix of the built-in menu, the longest that matches
Button(update) == IF update.name \in {"status", "sensors", "uptime", "config"} THEN "served" ELSE "unhandled"

\* telegram_dispatch_update()
Serve(update) ==
    outcome' = Outcome(update, CASE update.kind = "command" -> Command(update, IsAdmin(update.from))
                                 [] update.kind = "callback" -> Button(update)
                                 [] OTHER -> "event")

Update(update) ==
    /\ IF Authorize(update) THEN Serve(update) /\ UNCHANGED <<unknown, clock, told, since>>
       ELSE Refuse(update)
    /\ UNCHANGED <<config, tables>>

\* what people send: a command or a button with its name, a reaction
From(who, group, chat, kind, name) ==
    [kind |-> kind, from |-> who, group |-> group, chat |-> chat, name |-> name]
Message ==
    \E who \in People, chat \in Chats \cup {0} :
        LET Say(content, name) ==
                Update(From(who, chat # 0, IF chat = 0 THEN who ELSE chat, KindOf(content), name))
        IN \/ \E name \in {"help", "users", "nosuch"} : Say({"slash"}, name)
           \/ \E content \in {{"words"}, {"photo", "slash"}} : Say(content, "none")
Press ==
    \E who \in People, name \in {"status", "config", "else"}, chat \in Chats \cup {0} :
        Update(From(who, chat # 0, ChatOf([kind |-> "callback", chat |-> chat, from |-> who]), "callback", name))
React ==
    \E who \in People \cup {0}, group \in BOOLEAN, chat \in Chats, kind \in {"reaction", "reaction_count"} :
        /\ kind = "reaction_count" => who = 0
        /\ Update(From(who, group, chat, kind, "none"))

DispatchTick ==
    /\ clock < MaxClock
    /\ clock' = clock + 1
    /\ outcome' = Nothing
    /\ UNCHANGED <<config, tables, unknown, told, since>>

DispatchNext == Message \/ Press \/ React \/ DispatchTick
DispatchSpec == DispatchInit /\ [][DispatchNext]_dispatchVars

-----------------------------------------------------------------------------
Listed(id) == id = config.admin \/ id \in ToSet(config.listed)
Served == outcome.did \in {"served", "unhandled", "unknown", "reserved", "event"}

\* Whoever is listed in the settings is served and nobody else is, in a group only where the
\* group is listed too, whatever the kind of update and the order the tables were filled in
\* (lines 2669-2713, 347-383).
ServesTheListed ==
    LET update == outcome IN
    outcome.did \notin {"nothing", "injected"} /\ update.from \in People
        => (Served <=> config.open \/ (Listed(update.from) /\ (update.group => update.chat \in ToSet(config.chats))))

\* What names no sender is heard in a listed group and nowhere else (lines 2678-2691).
UnsignedInGroupsOnly ==
    outcome.kind = "reaction_count" /\ ~config.open /\ Served
        => outcome.group /\ outcome.chat \in ToSet(config.chats)

\* Who is served, and who is not.
AccessSound == ServesTheListed /\ UnsignedInGroupsOnly

\* An unlisted sender is told an identifier at most once a window unless more others were
\* told since than the table remembers (telegram_service.c:2610-2667).
RefusalsSpaced ==
    [][\A p \in People :
          told'[p] # told[p] /\ told[p] # 0 /\ clock - told[p] < Window
              => Cardinality(since[p]) >= MaxUnknown]_dispatchVars

\* "an operator bringing a station up is never left without the number they came for"
\* (telegram_service.c:2631-2632): a private command of an unlisted sender who was not told
\* within the window is answered.
StrangersTold ==
    [][\A p \in People :
          outcome'.did = "ignored" /\ outcome'.from = p /\ Refusable(outcome') /\ outcome' # outcome
              => told[p] # 0 /\ clock - told[p] < Window]_dispatchVars

\* A stranger is told the identifier when due, and not more often.
RepliesFair == RefusalsSpaced /\ StrangersTold

\* "Telegram numeric identifier of the operator who may run administrative commands on the
\* bot" (lang_en.h:2624): the configured administrator's commands are never reserved.
AdminMayCommand ==
    ~(outcome.did = "reserved" /\ outcome.from = config.admin)
===============================================================================
