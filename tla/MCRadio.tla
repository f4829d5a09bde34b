------------------------------- MODULE MCRadio ------------------------------
(***************************************************************************)
(* The radio side for TLC: the bits on the air, the samples they come from *)
(* and the frames they make; the tests of the audio interface; the         *)
(* dispatch of a frame behind the duplicate cache; and the beacons' timers.*)
(* A behaviour is one part's; the others rest.                             *)
(***************************************************************************)
EXTENDS RxDispatch, BeaconTimers, RxSamples, RxFrames

VARIABLE part
allVars == <<part, rxVars, timerVars, sampleVars, frameVars, lineVars, audioVars>>

(* A short frame sent twice in a row and a longer one.                     *)
MCOnAir == <<"short", "short", "long">>
MCLength == [c \in {"short", "long"} |-> IF c = "short" THEN 2 ELSE 4]

(* Copies that are repeated and gated.                                     *)
MCCopies == [frame : Frames, digi : {2}, gateable : {TRUE}]

(* The services that are switched on when the station boots.               *)
MCSwitchedOn == {{"tracker"}, {"igate", "digiStatus"}, {"digi", "igateStatus"},
                 {"trackerStatus", "weather"}, {"capabilities"}, {"telemetry"}}

-----------------------------------------------------------------------------
(* Each part parked in one of its initial states.                          *)
CacheRests == RxInit /\ size = MinSize /\ ~enabled /\ window = CHOOSE w \in Windows : TRUE
LineRests  == LineInit /\ ~scrambled /\ turned = 0
TimersRest == TimerInit /\ on = {"capabilities"} /\ interval = [t \in Timers |-> 0] /\ ~smart
FrameRests == FrameInit /\ skew = [d \in 1 .. Demods |-> 0] /\ tagged = CHOOSE t \in Tags(1) : TRUE

RadioInit ==
  /\ AudioInit
  /\ \/ part = "cache" /\ RxInit /\ TimersRest /\ SampleInit /\ FrameRests /\ LineRests
     \/ part = "timers" /\ CacheRests /\ TimerInit /\ SampleInit /\ FrameRests /\ LineRests
     \/ part = "samples" /\ CacheRests /\ TimersRest /\ SampleInit /\ FrameRests /\ LineRests
     \/ part = "frames" /\ CacheRests /\ TimersRest /\ SampleInit /\ FrameInit /\ LineRests
     \/ part = "line" /\ CacheRests /\ TimersRest /\ SampleInit /\ FrameRests /\ LineInit
     \/ part = "audio" /\ CacheRests /\ TimersRest /\ SampleInit /\ FrameRests /\ LineRests

CacheSteps == part = "cache" /\ RxNext
  /\ UNCHANGED <<timerVars, sampleVars, frameVars, lineVars, audioVars>>
TimerSteps == part = "timers" /\ TimerNext
  /\ UNCHANGED <<rxVars, sampleVars, frameVars, lineVars, audioVars>>
SampleSteps == part = "samples" /\ SampleNext
  /\ UNCHANGED <<rxVars, timerVars, frameVars, lineVars, audioVars>>
FrameSteps == part = "frames" /\ FrameNext
  /\ UNCHANGED <<rxVars, timerVars, sampleVars, lineVars, audioVars>>
LineSteps == part = "line" /\ LineNext
  /\ UNCHANGED <<rxVars, timerVars, sampleVars, frameVars, audioVars>>
AudioSteps == part = "audio" /\ AudioNext
  /\ UNCHANGED <<rxVars, timerVars, sampleVars, frameVars, lineVars>>

RadioNext ==
  /\ CacheSteps \/ TimerSteps \/ SampleSteps \/ FrameSteps \/ LineSteps \/ AudioSteps
  /\ UNCHANGED part

RadioSpec == RadioInit /\ [][RadioNext]_allVars

-----------------------------------------------------------------------------
(* From the line to the dispatch a frame that was sent is received whole,  *)
(* from a run of samples that is complete, and handed on once              *)
(* (ax25.c:84-330, 1170-1503, afsk.c:1052-1420).                           *)
ReceiveSound == FrameWhole /\ SamplesSound /\ HeldFramesSound /\ AudioSound
=============================================================================
