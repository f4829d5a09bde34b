----------------------------- MODULE MCTelegram -----------------------------
(***************************************************************************)
(* The Telegram service for TLC, side by side: its start and stop, the     *)
(* link's batches and requests, the poll, the dispatch of an update and    *)
(* the routing of a notice.  A behaviour is one part's; the others rest.   *)
(***************************************************************************)
EXTENDS TelegramApp, TelegramLink, TelegramDispatch, NoticeRoutes

VARIABLE part
allVars == <<part, vars, linkVars, pollVars, dispatchVars, routeVars>>

Row(id, callsign) == [id |-> id, call |-> callsign]
Plan(switch, rows, admin, groups, window) ==
    [messages |-> switch = "messages", bulletins |-> switch = "bulletins",
     users |-> rows, admin |-> admin, chats |-> groups, window |-> window]
MCPlans ==
    {Plan("messages", <<Row(1, "a"), Row(2, "a")>>, 0, <<>>, 0),
     Plan("bulletins", <<Row(2, "b"), Row(1, "a")>>, 2, <<11>>, 1),
     Plan("bulletins", <<Row(2, "b")>>, 3, <<11>>, 0)}

-----------------------------------------------------------------------------
(* Each part parked in one of its initial states: the service switched     *)
(* off, nobody listed, no route.                                           *)
AppRests      == Init /\ ~live.enable
DispatchRests == DispatchInit /\ config.admin = 0 /\ config.open /\ config.listed = <<>>
RouteRests    == RouteInit /\ ~botUp /\ route = Published(CHOOSE p \in Plans : p.messages)

TelegramInit ==
  \/ part = "app" /\ Init /\ LinkInit /\ PollInit /\ DispatchRests /\ RouteRests
  \/ part = "link" /\ AppRests /\ LinkInit /\ PollInit /\ DispatchRests /\ RouteRests
  \/ part = "poll" /\ AppRests /\ LinkInit /\ PollInit /\ DispatchRests /\ RouteRests
  \/ part = "dispatch" /\ AppRests /\ LinkInit /\ PollInit /\ DispatchInit /\ RouteRests
  \/ part = "routes" /\ AppRests /\ LinkInit /\ PollInit /\ DispatchRests /\ RouteInit

AppSteps == part = "app" /\ Next /\ UNCHANGED <<linkVars, pollVars, dispatchVars, routeVars>>
LinkSteps == part = "link" /\ LinkNext /\ UNCHANGED <<vars, pollVars, dispatchVars, routeVars>>
PollSteps == part = "poll" /\ PollNext /\ UNCHANGED <<vars, linkVars, dispatchVars, routeVars>>
DispatchSteps == part = "dispatch" /\ DispatchNext /\ UNCHANGED <<vars, linkVars, pollVars, routeVars>>
RouteSteps == part = "routes" /\ RouteNext /\ UNCHANGED <<vars, linkVars, pollVars, dispatchVars>>

TelegramNext ==
  (AppSteps \/ LinkSteps \/ PollSteps \/ DispatchSteps \/ RouteSteps) /\ UNCHANGED part

TelegramSpec == TelegramInit /\ [][TelegramNext]_allVars

-----------------------------------------------------------------------------
(* Who is served, and who is sent what (telegram_service.c:2669-2713,      *)
(* telegram_app.c:424-461, 712-720).                                       *)
AudienceSound == AccessSound /\ DeliverySound
=============================================================================
