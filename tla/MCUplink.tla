------------------------------ MODULE MCUplink ------------------------------
(***************************************************************************)
(* The way to APRS-IS for TLC: the frames the gate up decides on, and the  *)
(* socket its lines and the server's go through.  A behaviour is one       *)
(* part's; the other rests.                                                *)
(***************************************************************************)
EXTENDS IsWire, UplinkGate

VARIABLE part
allVars == <<part, wireVars, uplinkVars>>

(* The gate up: one frame for each rule, direct and over hops, plain and   *)
(* wrapped.                                                                *)

Via(call, used) == [call |-> call, used |-> used]
NoBody == [kind |-> "none"]
Body(kind, place) == [kind |-> kind, place |-> place, header |-> FALSE, inner |-> NoBody]
Packet(src, path, body) ==
    [src |-> src, path |-> path, body |-> body, ui |-> TRUE, short |-> FALSE, long |-> FALSE]
InThird(src, path, inner) ==
    Packet(src, path, [Body("third", "none") EXCEPT !.header = TRUE, !.inner = inner])

Here == Body("position", "near")
Wide(used) == <<Via("wide", used)>>

MCTraffic == {
    Packet("near", <<>>, Here),
    Packet("near", Wide(FALSE), Body("message", "none")),
    Packet("near", <<Via("wide", TRUE), Via("wide", TRUE)>>, Here),
    Packet("near", <<Via("wide", TRUE), Via("sat", FALSE)>>, Here),
    Packet("near", <<Via("sat", TRUE)>>, Here),
    Packet("near", <<Via("nogate", FALSE)>>, Here),
    Packet("near", <<>>, Body("query", "none")),
    Packet("far", Wide(FALSE), Body("position", "far")),
    [Packet("far", <<>>, Here) EXCEPT !.ui = FALSE],
    [Packet("far", <<>>, Here) EXCEPT !.short = TRUE],
    [Packet("far", <<>>, Here) EXCEPT !.long = TRUE],
    Packet("wide1", <<>>, Here), Packet("nocall", <<>>, Here),
    InThird("near", <<>>, Packet("far", <<>>, Here)),
    InThird("near", <<>>, Packet("far", <<Via("nogate", FALSE)>>, Here)),
    InThird("near", <<>>, Packet("far", <<Via("tcpip", TRUE)>>, Here)),
    InThird("near", <<>>, Packet("far", <<>>, Body("query", "none"))),
    InThird("near", <<>>, InThird("far", <<>>, Packet("far", <<>>, Here))),
    Packet("near", <<>>, [Body("third", "none") EXCEPT !.inner = Packet("far", <<>>, Here)]) }
MCConfigs == {
    {"rf2inet", "toRf", "digi", "dup", "logFiltered", "message", "position", "query"},
    {"rf2inet", "toRf", "logFiltered", "range", "white", "position", "status"},
    {"digi", "dup", "message", "prefix", "black"} }

-----------------------------------------------------------------------------
GateRests == UplinkInit /\ config = CHOOSE c \in MCConfigs : TRUE

UplinkWireInit ==
  \/ part = "wire" /\ WireInit /\ GateRests
  \/ part = "gate" /\ WireInit /\ UplinkInit

WireSteps == part = "wire" /\ WireNext /\ UNCHANGED uplinkVars
GateSteps == part = "gate" /\ UplinkNext /\ UNCHANGED wireVars

UplinkWireNext == (WireSteps \/ GateSteps) /\ UNCHANGED part

UplinkWireSpec == UplinkWireInit /\ [][UplinkWireNext]_allVars
=============================================================================
