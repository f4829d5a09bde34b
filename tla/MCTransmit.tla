----------------------------- MODULE MCTransmit -----------------------------
(***************************************************************************)
(* The transmit path of aprs_service.c for TLC: the gate a frame passes on *)
(* its way to the modem, and the limiter that is asked and charged for it. *)
(* A behaviour is one part's; the other rests.                             *)
(***************************************************************************)
EXTENDS RfGate, DutyCycle

VARIABLE part
allVars == <<part, vars, dutyVars>>

TransmitInit == part \in {"gate", "duty"} /\ Init /\ DutyInit

GateSteps == part = "gate" /\ Next /\ UNCHANGED dutyVars
DutySteps == part = "duty" /\ DutyNext /\ UNCHANGED vars

TransmitNext == (GateSteps \/ DutySteps) /\ UNCHANGED part

(* The gate's fairness; the limiter's steps may stop.                      *)
TransmitSpec == TransmitInit /\ [][TransmitNext]_allVars /\ Fairness
=============================================================================
