----------------------------- MODULE MCServices -----------------------------
(***************************************************************************)
(* The services for TLC, side by side: the query responder, the GPS reader *)
(* under its switch, the setting of the clock, and a store's file under    *)
(* its cache.  A behaviour is one part's; the others rest.                 *)
(***************************************************************************)
EXTENDS QueryResponder, GpsReader, StoreFiles

VARIABLE part
allVars == <<part, vars, gpsVars, syncVars, storeVars>>

(* Each part parked in one of its initial states.                          *)
QueryRests == Init /\ config = {}
GpsRests   == GpsInit /\ ~gpsEn
SyncRests  == SyncInit /\ state = "disabled" /\ ~net
StoreRests == StoreInit /\ kind = "telemetry"

ServicesInit ==
  \/ part = "query" /\ Init /\ GpsRests /\ SyncRests /\ StoreRests
  \/ part = "gps" /\ QueryRests /\ GpsInit /\ SyncRests /\ StoreRests
  \/ part = "sync" /\ QueryRests /\ GpsRests /\ SyncInit /\ StoreRests
  \/ part = "store" /\ QueryRests /\ GpsRests /\ SyncRests /\ StoreInit

QuerySteps == part = "query" /\ Next /\ UNCHANGED <<gpsVars, syncVars, storeVars>>
GpsSteps   == part = "gps" /\ GpsNext /\ UNCHANGED <<vars, syncVars, storeVars>>
SyncSteps  == part = "sync" /\ SyncNext /\ UNCHANGED <<vars, gpsVars, storeVars>>
StoreSteps == part = "store" /\ StoreNext /\ UNCHANGED <<vars, gpsVars, syncVars>>

ServicesNext == (QuerySteps \/ GpsSteps \/ SyncSteps \/ StoreSteps) /\ UNCHANGED part

(* The fairness of the query task and of the loops it wakes; the others may *)
(* stop.                                                                    *)
ServicesSpec == ServicesInit /\ [][ServicesNext]_allVars /\ Fairness
=============================================================================
