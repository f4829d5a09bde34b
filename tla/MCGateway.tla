----------------------------- MODULE MCGateway ------------------------------
(***************************************************************************)
(* The gateway's parts for TLC, side by side: the digipeater's path rules, *)
(* the lines the gate from APRS-IS decides on, and the last-heard table it *)
(* reads.  A behaviour is one part's; the others rest.                     *)
(***************************************************************************)
EXTENDS DigiPath, InetGate

VARIABLES part, since, truth
heardVars == <<since, truth>>
inetOwn   == <<settings, bounds, rings, hand, ghosts>>
allVars   == <<part, vars, inetVars, heardVars>>

Resting(v) == v = "resting"

-----------------------------------------------------------------------------
(* The digipeater: the factory rows WIDE1 and WIDE2, a flooding regional   *)
(* alias and a fixed alias of the station.                                 *)

MCTable == << [names |-> {"WIDE1"}, fixed |-> FALSE, max |-> 1, mode |-> "trace"],
              [names |-> {"WIDE2", "WIDE3"}, fixed |-> FALSE, max |-> 2, mode |-> "trace"],
              [names |-> {"SS"}, fixed |-> FALSE, max |-> 2, mode |-> "flood"],
              [names |-> {"CITY"}, fixed |-> TRUE, max |-> 1, mode |-> "trace"] >>

MCSendable == [call : {"A", "X", "CITY", "RFONLY", "TCPIP"}, ssid : {0}]
                \cup {[call |-> "WIDE1", ssid |-> 1], [call |-> "WIDE2", ssid |-> 2],
                      [call |-> "WIDE3", ssid |-> 3], [call |-> "SS", ssid |-> 2]}
MCPages == [fillin : BOOLEAN, clamp : BOOLEAN, dest : BOOLEAN,
            preempt : {"off", "mark", "discard"}]
\* A resting path has one slot left, so that what is said of its hops is brief.
DigiRests ==
  /\ frame = Fresh([k \in 1 .. MaxRpt - 1 |-> Own("A")], 0) /\ trail = <<>>
  /\ page = [fillin |-> FALSE, clamp |-> TRUE, dest |-> FALSE, preempt |-> "off"]

-----------------------------------------------------------------------------
(* The gate down: one line of each kind that a rule treats apart, from two *)
(* stations a message goes between and a relay of both.                    *)

NoReport == [kind |-> "none"]
Report(src, kind, dest, place) ==
    [src |-> src, kind |-> kind, dest |-> dest, place |-> place, legal |-> TRUE,
     forbidden |-> FALSE, bm |-> FALSE, inner |-> NoReport]
Relayed(src, p) == [Report(src, "third", "none", "none") EXCEPT !.inner = p]

MCLines == {
    Report("far", "message", "near", "none"),
    Report("far", "message", "all", "none"),
    Report("far", "parm", "near", "none"),
    Report("near", "position", "none", "far"),
    Report("near", "status", "none", "none"),
    [Report("far", "position", "none", "near") EXCEPT !.bm = TRUE],
    [Report("relay", "status", "none", "none") EXCEPT !.bm = TRUE],
    [Report("far", "position", "none", "near") EXCEPT !.forbidden = TRUE],
    [Report("far", "position", "none", "near") EXCEPT !.legal = FALSE],
    Report("far", "query", "none", "none"),
    Report("own", "position", "none", "near"),
    Relayed("relay", Report("near", "status", "none", "none")),
    Relayed("relay", Report("far", "message", "near", "none")),
    Relayed("relay", Report("far", "message", "all", "none")),
    Relayed("relay", Relayed("far", Report("near", "status", "none", "none"))) }
MCConfigs == {
    {"inet2rf", "gate", "message", "position", "status", "telemetry", "spacing", "bm"},
    {"inet2rf", "range", "unwrap", "white", "message", "status", "heardOnly", "position", "gate"},
    {"inet2rf", "gate", "range", "status", "telemetry", "black", "bm"} }
InetRests == InetInit /\ config = CHOOSE c \in MCConfigs : TRUE

-----------------------------------------------------------------------------
(* The last-heard table by itself.                                         *)

MCHeard == {"a", "b", "c"}
Heard == INSTANCE HeardHours WITH
    Calls <- MCHeard, Capacity <- 2, Hours <- 2, HourLen <- 1, ValidFrom <- 2,
    CountMax <- 2, PacketsMax <- 1, BootMax <- 1, MaxTime <- 4
HeardRests == Resting(since) /\ Resting(truth)

ASSUME HeardTableAssumption == Heard!HeardAssumption

-----------------------------------------------------------------------------
GatewayInit ==
  \/ part = "digi" /\ Init /\ InetRests /\ HeardRests
  \/ part = "down" /\ DigiRests /\ InetInit /\ HeardRests
  \/ part = "heard" /\ DigiRests /\ InetRests /\ Heard!TableInit

DigiSteps  == part = "digi" /\ Next /\ UNCHANGED <<inetVars, heardVars>>
DownSteps  == part = "down" /\ InetNext /\ UNCHANGED <<vars, heardVars>>
HeardSteps == part = "heard" /\ Heard!TableNext /\ UNCHANGED <<vars, inetOwn>>

GatewayNext == (DigiSteps \/ DownSteps \/ HeardSteps) /\ UNCHANGED part

GatewaySpec == GatewayInit /\ [][GatewayNext]_allVars

-----------------------------------------------------------------------------
(* The table holds the stations heard last and their frames by the hour    *)
(* (lastheard.c:139-395).                                                  *)
TableSound == part = "heard" => Heard!KeepsLatest /\ Heard!HoursTrue
=============================================================================
