------------------------------ MODULE TxChain ------------------------------
(***************************************************************************)
(* The transmit chain of the radio modem: the ring of frames waiting for   *)
(* the air, the CSMA state machine that keys the transmitter up, the DAC   *)
(* interrupt that clocks one frame out and keys down again, the transmit   *)
(* time-out and the rebuild of the modem.  Four parties run in parallel on *)
(* two cores and share plain words of memory:                              *)
(*   producers   Ax25WriteTxFrame() under the TX lock                      *)
(*   service     modem_service_task(): teardown, channel access, time-out  *)
(*   isr         dac_timer_isr() -> Ax25GetTxBit()                         *)
(*   rebuild     modem_set_modem() from the web server                     *)
(* A step is a stretch of one party's code that the others cannot tell     *)
(* from one instant; every store another party tests for is a step of its  *)
(* own.  Bits, samples, and milliseconds are abstracted: the interrupt     *)
(* advances a phase at a time, and a deadline is a flag that an Elapse     *)
(* action lowers.                                                          *)
(***************************************************************************)
EXTENDS Naturals, Sequences

CONSTANTS Producers,    \* tasks that queue frames
          Slots,        \* FRAME_MAX_COUNT: ring slots, one of them always free
          MissMax,      \* CSMA_PERSIST_MISS_MAX
          BusyTimeout,  \* whether csmaBusyTimeout > 0
          MaxFrames,    \* bound: frames offered in one behaviour
          MaxRebuilds   \* bound: rebuilds in one behaviour

ASSUME SlotsAssumption   == Slots \in Nat /\ Slots > 1
ASSUME MissAssumption    == MissMax \in Nat /\ MissMax > 0
ASSUME BusyAssumption    == BusyTimeout \in BOOLEAN
ASSUME FramesAssumption  == MaxFrames \in Nat
ASSUME RebuildAssumption == MaxRebuilds \in Nat
ASSUME NamesAssumption   == "none" \notin Producers /\ "rebuild" \notin Producers

VARIABLES
  cell, head, tail,      \* txFrame[], txFrameHead, txFrameTail
  lock, writer, offered, \* s_txMutex, what each producer does, frames offered
  stage, phase,          \* txInitStage, txStage
  active, stopPending,   \* s_txActive, s_txStopPending
  clock, ptt,            \* s_dacTimerRunning, level of the PTT line
  isr,                   \* where the DAC interrupt is
  svc, seen,             \* where the service task is, its snapshot of stage
  justDown, holdoff,     \* txJustKeyedDown, txReleaseHoldoff
  unkeyWait, quiet,      \* txMinUnkeyUntil, txQuiet still in the future
  busy, misses,          \* txBusySlots with txBusySinceMs, txPersistMisses
  keyedAt,               \* s_txKeyedSinceMs: the key-up it was taken in, 0 none
  rb, holdReq, held,     \* the rebuild, s_svcHoldReq, s_svcHeld
  duplex, rebuilds,      \* Ax25Config.fullDuplex, rebuilds begun
  keyUps, aired, gap, sent \* history: see below

ring    == <<cell, head, tail>>
offer   == <<lock, writer, offered>>
phy     == <<stage, phase, active, stopPending, clock, ptt>>
gates   == <<justDown, holdoff, unkeyWait>>
access  == <<quiet, busy, misses>>
chain   == <<rb, holdReq, held, duplex, rebuilds>>
history == <<keyUps, aired, gap, sent>>
vars == <<ring, offer, phy, isr, svc, seen, gates, access, keyedAt, chain, history>>

Ring == 0 .. Slots - 1
\* Faulty variant: the index is not wrapped.
RingNextUnwrapped(i) == i + 1
RingNext(i) == (i + 1) % Slots
Full  == RingNext(head) = tail
Empty == head = tail
FramesPending == (head + Slots - tail) % Slots
Waiting == [i \in 1 .. FramesPending |-> cell[(tail + i - 1) % Slots]]

Init ==
  /\ cell = [i \in Ring |-> 0] /\ head = 0 /\ tail = 0
  /\ lock = "none" /\ writer = [p \in Producers |-> "idle"] /\ offered = 0
  /\ stage = "off" /\ phase = "idle"
  /\ active = FALSE /\ stopPending = FALSE /\ clock = FALSE /\ ptt = FALSE
  /\ isr = "out" /\ svc = "top" /\ seen = "off"
  /\ justDown = FALSE /\ holdoff = FALSE /\ unkeyWait = FALSE
  /\ quiet = TRUE /\ busy = "no" /\ misses = 0 /\ keyedAt = 0
  /\ rb = "idle" /\ holdReq = FALSE /\ held = FALSE
  /\ duplex = FALSE /\ rebuilds = 0
  /\ keyUps = 0     \* key-ups so far
  /\ aired = 0      \* frames retired in the current key-up
  /\ gap = "done" \* "begun" while the service task sleeps with the line low,
                 \* "done" after a whole such tick, "none" since a key-up
  /\ sent = <<>>    \* frames clocked out, oldest first

-----------------------------------------------------------------------------
(* Producers: modem_send_tnc2() -> txLock, encode, Ax25WriteTxFrame *)

LockFree == lock = "none"

TakeTxLock(p) ==
  /\ writer[p] = "idle" /\ LockFree /\ offered < MaxFrames
  /\ lock' = p
  /\ writer' = [writer EXCEPT ![p] = "encode"]
  /\ UNCHANGED <<offered, ring, phy, isr, svc, seen, gates, access, keyedAt, chain, history>>

FillSlot(p) ==
  /\ writer[p] = "encode"
  /\ offered' = offered + 1
  /\ IF Full THEN /\ lock' = "none"
                  /\ writer' = [writer EXCEPT ![p] = "idle"]
                  /\ UNCHANGED cell
             ELSE /\ cell' = [cell EXCEPT ![head] = offered']
                  /\ writer' = [writer EXCEPT ![p] = "publish"]
                  /\ UNCHANGED lock
  /\ UNCHANGED <<head, tail, phy, isr, svc, seen, gates, access, keyedAt, chain, history>>

PublishSlot(p) ==
  /\ writer[p] = "publish"
  /\ head' = RingNext(head)
  /\ writer' = [writer EXCEPT ![p] = "idle"]
  /\ lock' = "none"
  /\ UNCHANGED <<cell, tail, offered, phy, isr, svc, seen, gates, access, keyedAt, chain, history>>

-----------------------------------------------------------------------------
(* The DAC interrupt.  While it is past its getTransmit() test it runs to   *)
(* the end of the handler even if the transmitter is stopped meanwhile.     *)

IsrEnter ==
  /\ isr = "out" /\ clock /\ active
  /\ isr' = "in"
  /\ UNCHANGED <<ring, offer, phy, svc, seen, gates, access, keyedAt, chain, history>>

AfterFrame == "tail"

\* One stage evaluation of Ax25GetTxBit(): one frame per key-up, never chained.
GetTxBit ==
  /\ isr = "in"
  /\ \/ /\ phase = "preamble" /\ phase' = "data" /\ isr' = "out"
     \/ /\ phase = "data" /\ isr' = "out"
        /\ phase' = IF Empty THEN "tail" ELSE "footer"
     \/ /\ phase = "footer" /\ isr' = "retire"
        /\ UNCHANGED phase
     \/ /\ phase = "tail" /\ phase' = "idle" /\ isr' = "pending"
     \/ /\ phase = "idle" /\ isr' = "out"
        /\ UNCHANGED phase
  /\ UNCHANGED <<ring, offer, stage, active, stopPending, clock, ptt, svc, seen,
                 gates, access, keyedAt, chain, history>>

\* txRetireFrame(): exactly the frame that finished is handed back.
Retire ==
  /\ isr = "retire" /\ isr' = "out"
  /\ tail' = RingNext(tail)
  /\ sent' = Append(sent, cell[tail])
  /\ aired' = aired + 1
  /\ phase' = AfterFrame
  /\ UNCHANGED <<cell, head, offer, stage, active, stopPending, clock, ptt, svc, seen,
                 gates, access, keyedAt, chain, keyUps, gap>>

\* Key-down: ModemTransmitStop() raises the teardown, clears the transmitting
\* flag and drops the line; the event flag and TX_INIT_OFF follow.
\* Faulty variant: the line is dropped after everything else.
KeyDownPinLast == [pending |-> "clear", clear |-> "flag", flag |-> "off", off |-> "pin",
                   pin |-> "out"]
KeyDown == [pending |-> "clear", clear |-> "pin", pin |-> "flag", flag |-> "off", off |-> "out"]

IsrStop ==
  /\ isr \in DOMAIN KeyDown /\ isr' = KeyDown[isr]
  /\ stopPending' = IF isr = "pending" THEN TRUE ELSE stopPending
  /\ active'   = IF isr = "clear" THEN FALSE ELSE active
  /\ ptt'      = IF isr = "pin" THEN FALSE ELSE ptt
  /\ justDown' = IF isr = "flag" THEN TRUE ELSE justDown
  /\ stage'    = IF isr = "off" THEN "off" ELSE stage
  /\ UNCHANGED <<ring, offer, phase, clock, svc, seen, holdoff, unkeyWait,
                 access, keyedAt, chain, history>>

\* A task that has slept a tick, or waited for another task, finds the
\* interrupt it last saw running finished.
\* Faulty variant: the tick is not waited for.
NoWaitForIsr == TRUE
IsrSettled == isr = "out"

-----------------------------------------------------------------------------
(* Pieces shared by the service task and the rebuild *)

\* AFSK_ServiceTx(): the teardown the interrupt could not do.
ServiceTx ==
  /\ IF stopPending /\ ~active
       THEN clock' = FALSE /\ ptt' = FALSE /\ stopPending' = FALSE
       ELSE UNCHANGED <<clock, ptt, stopPending>>
  /\ UNCHANGED <<stage, phase, active>>

\* The transmit state machine returned to idle, by an abort and by Ax25Init().
\* Faulty variant: TX_INIT_OFF is forgotten.
LeftTransmitting == phase' = "idle" /\ stage' = stage /\ misses' = 0 /\ busy' = "no"
BackToIdle == phase' = "idle" /\ stage' = "off" /\ misses' = 0 /\ busy' = "no"

\* txAbandon() up to its vTaskDelay(1): setTransmit(false), AFSK_ServiceTx().
StopModulator ==
  /\ active' = FALSE /\ ptt' = FALSE /\ clock' = FALSE /\ stopPending' = FALSE
  /\ UNCHANGED <<stage, phase>>

\* txAbandon() after it: setPtt(false), Ax25TransmitAbort().
AbortTransmit ==
  /\ ptt' = FALSE
  /\ tail' = head /\ UNCHANGED <<cell, head>>
  /\ BackToIdle
  /\ justDown' = FALSE /\ holdoff' = TRUE
  /\ unkeyWait' \in {TRUE, unkeyWait}
  /\ quiet' = ~duplex
  /\ UNCHANGED <<active, stopPending, clock>>

-----------------------------------------------------------------------------
(* The service task *)

SvcTop ==
  /\ svc = "top"
  /\ gap' = IF gap = "begun" THEN "done" ELSE gap
  /\ IF holdReq THEN held' = TRUE /\ svc' = "held" /\ UNCHANGED phy
                ELSE ServiceTx /\ svc' = "check" /\ UNCHANGED held
  /\ UNCHANGED <<ring, offer, isr, seen, gates, access, keyedAt, rb, holdReq, duplex,
                 rebuilds, keyUps, aired, sent>>

LoopHead == "top"

\* The request is withdrawn: the acknowledgement is taken back one step later,
\* and the loop starts over from its head.
SvcLeaveHold ==
  /\ \/ /\ svc = "held" /\ ~holdReq /\ svc' = "leave" /\ UNCHANGED held
     \/ /\ svc = "leave" /\ held' = FALSE /\ svc' = LoopHead
  /\ UNCHANGED <<ring, offer, phy, isr, seen, gates, access, keyedAt, rb, holdReq, duplex,
                 rebuilds, history>>

\* Ax25TransmitCheck(): the snapshot of txInitStage comes first.
SvcSnapshot ==
  /\ svc = "check"
  /\ seen' = stage /\ svc' = "poll"
  /\ UNCHANGED <<ring, offer, phy, isr, gates, access, keyedAt, chain, history>>

\* A key-down has just been reported, or a transmission abandoned.
\* Faulty variant: only a reported key-down holds the next key-up off.
OnlyReported == justDown
JustUnkeyed == justDown \/ holdoff

\* pollTxEvents() and the gates that end the call early.
SvcPoll ==
  /\ svc = "poll"
  /\ IF JustUnkeyed
       THEN /\ justDown' = FALSE /\ holdoff' = FALSE
            /\ unkeyWait' \in IF justDown THEN {TRUE, unkeyWait} ELSE {unkeyWait}
            /\ svc' = "timeout"
       ELSE /\ svc' = IF unkeyWait \/ seen = "transmitting" THEN "timeout" ELSE "gate"
            /\ UNCHANGED gates
  /\ UNCHANGED <<ring, offer, phy, isr, seen, access, keyedAt, chain, history>>

\* keyUp() up to ModemTransmitStart(); the caller has left quiet as it is.
KeyUp ==
  /\ stage' = "transmitting" /\ phase' = "preamble"
  /\ misses' = 0 /\ busy' = "no"
  /\ svc' = "ptt"

\* One slot of waiting.
WaitSlot == quiet' = TRUE /\ svc' = "timeout" /\ UNCHANGED <<stage, phase>>

\* Faulty variant: the channel is waited for without a limit.
NeverOver == FALSE
WaitedEnough == BusyTimeout /\ busy = "over"

\* The rest of Ax25TransmitCheck(): teardown gate, Ax25TransmitBuffer(),
\* quiet time, full duplex, carrier detect, persistence.
SvcGate ==
  /\ svc = "gate"
  /\ \/ /\ stopPending \/ active \/ (stage = "off" /\ Empty) \/ (stage = "waiting" /\ quiet)
        /\ svc' = "timeout" /\ UNCHANGED <<stage, phase, access>>
     \/ /\ ~stopPending /\ ~active /\ stage = "off" /\ ~Empty
        /\ stage' = "waiting" /\ quiet' = ~duplex
        /\ UNCHANGED <<svc, phase, busy, misses>>
     \/ /\ ~stopPending /\ ~active /\ stage = "waiting" /\ ~quiet
        /\ \/ duplex /\ KeyUp /\ UNCHANGED quiet
           \/ /\ ~duplex /\ WaitedEnough                    \* carrier, waited enough
              /\ KeyUp /\ UNCHANGED quiet
           \/ /\ ~duplex /\ ~WaitedEnough                   \* carrier
              /\ busy' = IF busy = "no" THEN "counting" ELSE busy
              /\ misses' = 0 /\ WaitSlot
           \/ ~duplex /\ KeyUp /\ UNCHANGED quiet           \* clear, roll won
           \/ /\ ~duplex /\ misses + 1 >= MissMax           \* clear, last roll lost
              /\ quiet' = TRUE /\ KeyUp
           \/ /\ ~duplex /\ misses + 1 < MissMax            \* clear, roll lost
              /\ misses' = misses + 1 /\ UNCHANGED busy /\ WaitSlot
  /\ UNCHANGED <<ring, offer, active, stopPending, clock, ptt, isr, seen, gates,
                 keyedAt, chain, history>>

\* ModemTransmitStart(): the line first, then setTransmit(true).
SvcKeyLine ==
  /\ svc = "ptt" /\ svc' = "start"
  /\ ptt' = TRUE
  /\ keyUps' = keyUps + 1 /\ aired' = 0 /\ gap' = "none"
  /\ UNCHANGED <<ring, offer, stage, phase, active, stopPending, clock, isr, seen, gates,
                 access, keyedAt, chain, sent>>

SvcStart ==
  /\ svc = "start" /\ svc' = "timeout"
  /\ IF active THEN UNCHANGED <<stopPending, active, clock>>
               ELSE stopPending' = FALSE /\ active' = TRUE /\ clock' = TRUE
  /\ UNCHANGED <<ring, offer, stage, phase, ptt, isr, seen, gates, access, keyedAt, chain,
                 history>>

\* Faulty variant: the start of the last key-up is not forgotten.
Remembered == keyedAt
Forgotten == 0

\* txTimeoutPoll(): the end of a loop pass.  Whether the limit has been
\* reached is a matter of milliseconds, so both outcomes are possible.
SvcTimeout ==
  /\ svc = "timeout"
  /\ \/ ~active /\ keyedAt' = Forgotten /\ svc' = "top"
     \/ active /\ keyedAt = 0 /\ keyedAt' = keyUps /\ svc' = "top"
     \/ active /\ keyedAt # 0 /\ UNCHANGED keyedAt /\ svc' \in {"top", "release"}
  /\ gap' = IF ~ptt /\ gap = "none" THEN "begun" ELSE gap
  /\ UNCHANGED <<ring, offer, phy, isr, seen, gates, access, chain, keyUps, aired, sent>>

\* txTimeoutRelease()
SvcRelease ==
  /\ \/ /\ svc = "release" /\ svc' = "abort"
        /\ StopModulator
        /\ UNCHANGED <<ring, gates, access, keyedAt>>
     \/ /\ svc = "abort" /\ IsrSettled /\ svc' = "top"
        /\ AbortTransmit
        /\ keyedAt' = 0
  /\ UNCHANGED <<offer, isr, seen, chain, history>>

-----------------------------------------------------------------------------
(* modem_set_modem() with a changed receive chain *)

RbRequest ==
  /\ rb = "idle" /\ rebuilds < MaxRebuilds
  /\ rb' = "hold" /\ holdReq' = TRUE /\ rebuilds' = rebuilds + 1
  /\ UNCHANGED <<ring, offer, phy, isr, svc, seen, gates, access, keyedAt, held, duplex, history>>

RbHeld ==
  /\ rb = "hold" /\ held
  /\ rb' = "idling"
  /\ UNCHANGED <<ring, offer, phy, isr, svc, seen, gates, access, keyedAt, holdReq, held,
                 duplex, rebuilds, history>>

\* txWaitIdle(): teardown carried out here, or the key-up abandoned.
RbWaitIdle ==
  /\ \/ /\ rb = "idling" /\ ServiceTx
        /\ IF ~active THEN rb' = "lock" ELSE rb' \in {"idling", "abandon"}
        /\ UNCHANGED <<ring, gates, access>>
     \/ /\ rb = "abandon" /\ rb' = "abort"
        /\ StopModulator
        /\ UNCHANGED <<ring, gates, access>>
     \/ /\ rb = "abort" /\ IsrSettled /\ rb' = "lock"
        /\ AbortTransmit
  /\ UNCHANGED <<offer, isr, svc, seen, keyedAt, holdReq, held, duplex, rebuilds, history>>

RbLock ==
  /\ rb = "lock" /\ LockFree
  /\ lock' = "rebuild" /\ rb' = "reset"
  /\ UNCHANGED <<ring, writer, offered, phy, isr, svc, seen, gates, access, keyedAt, holdReq,
                 held, duplex, rebuilds, history>>

\* afskSetModem() -> Ax25Init(): it first sleeps until the receive task is
\* held, so the interrupt has settled.
RbReset ==
  /\ rb = "reset" /\ IsrSettled
  /\ head' = 0 /\ tail' = 0 /\ UNCHANGED cell
  /\ BackToIdle /\ quiet' = TRUE
  /\ keyedAt' = 0
  /\ duplex' \in BOOLEAN
  /\ lock' = "none" /\ rb' = "release"
  /\ UNCHANGED <<writer, offered, active, stopPending, clock, ptt, isr, svc, seen, gates,
                 holdReq, held, rebuilds, history>>

RbRelease ==
  /\ rb = "release"
  /\ holdReq' = FALSE /\ rb' = "idle"
  /\ UNCHANGED <<ring, offer, phy, isr, svc, seen, gates, access, keyedAt, held, duplex,
                 rebuilds, history>>

-----------------------------------------------------------------------------
(* Time *)

QuietElapses ==
  /\ quiet /\ quiet' = FALSE
  /\ UNCHANGED <<ring, offer, phy, isr, svc, seen, gates, busy, misses, keyedAt, chain, history>>

UnkeyElapses ==
  /\ unkeyWait /\ unkeyWait' = FALSE
  /\ UNCHANGED <<ring, offer, phy, isr, svc, seen, justDown, holdoff, access, keyedAt, chain,
                 history>>

BusyElapses ==
  /\ BusyTimeout /\ busy = "counting" /\ busy' = "over"
  /\ UNCHANGED <<ring, offer, phy, isr, svc, seen, gates, quiet, misses, keyedAt, chain, history>>

-----------------------------------------------------------------------------
Produce(p) == TakeTxLock(p) \/ FillSlot(p) \/ PublishSlot(p)
Interrupt  == IsrEnter \/ GetTxBit \/ Retire \/ IsrStop
Service    == \/ SvcTop \/ SvcLeaveHold \/ SvcSnapshot \/ SvcPoll \/ SvcGate
              \/ SvcKeyLine \/ SvcStart \/ SvcTimeout \/ SvcRelease
Rebuild    == RbHeld \/ RbWaitIdle \/ RbLock \/ RbReset \/ RbRelease

Next == \/ \E p \in Producers : Produce(p)
        \/ Interrupt \/ Service \/ RbRequest \/ Rebuild
        \/ QuietElapses \/ UnkeyElapses \/ BusyElapses

Spec == Init /\ [][Next]_vars

(* Every task is scheduled and every clock runs; a producer that holds the  *)
(* lock lets go of it.  Nobody is obliged to offer a frame or to rebuild.   *)
Fairness ==
  /\ WF_vars(Interrupt) /\ WF_vars(Service) /\ WF_vars(Rebuild)
  /\ \A p \in Producers : WF_vars(FillSlot(p) \/ PublishSlot(p))
  /\ WF_vars(QuietElapses) /\ WF_vars(UnkeyElapses) /\ WF_vars(BusyElapses)

FairSpec == Spec /\ Fairness

-----------------------------------------------------------------------------
(* Properties *)

SvcSteps == {"top", "held", "leave", "check", "poll", "gate", "ptt", "start", "timeout",
             "release", "abort"}
IsrSteps == {"out", "in", "retire", "pending", "clear", "pin", "flag", "off"}
RbSteps  == {"idle", "hold", "idling", "abandon", "abort", "lock", "reset", "release"}
Stages   == {"off", "waiting", "transmitting"}
Phases   == {"idle", "preamble", "data", "footer", "tail"}

DataType ==
  /\ cell \in [Ring -> Nat] /\ head \in Ring /\ tail \in Ring
  /\ lock \in Producers \cup {"none", "rebuild"}
  /\ writer \in [Producers -> {"idle", "encode", "publish"}] /\ offered \in Nat
  /\ stage \in Stages /\ phase \in Phases
  /\ isr \in IsrSteps /\ svc \in SvcSteps /\ seen \in Stages
  /\ busy \in {"no", "counting", "over"} /\ misses \in 0 .. MissMax
  /\ keyedAt \in Nat /\ rb \in RbSteps /\ rebuilds \in 0 .. MaxRebuilds
  /\ keyUps \in Nat /\ aired \in Nat /\ gap \in {"none", "begun", "done"} /\ sent \in Seq(Nat)

FlagType ==
  /\ active \in BOOLEAN /\ stopPending \in BOOLEAN /\ clock \in BOOLEAN /\ ptt \in BOOLEAN
  /\ justDown \in BOOLEAN /\ holdoff \in BOOLEAN /\ unkeyWait \in BOOLEAN
  /\ quiet \in BOOLEAN /\ holdReq \in BOOLEAN /\ held \in BOOLEAN /\ duplex \in BOOLEAN

\* Type invariant of the module.
TypeInv == DataType /\ FlagType

\* The PTT line is keyed only while the modulator runs, but for the instants
\* in which the service task is raising it and the interrupt dropping it; and
\* a running modulator always has the line keyed, so no frame is clocked out
\* to a silent transmitter.  (setTransmit(), AFSK_ServiceTx(): "keeps the
\* physical PTT in lock-step with key-down".)
PttFollowsModulator ==
  /\ ptt => active \/ svc = "start" \/ isr = "pin"
  /\ active => ptt

\* A key-up the state machine believes in has a modulator that will end it, or
\* is on its way to one: nothing else would ever leave TX_INIT_TRANSMITTING.
NoOrphanKeyUp ==
  stage = "transmitting" =>
    \/ active /\ clock
    \/ svc \in {"ptt", "start"}
    \/ isr \in {"pin", "flag", "off"}
    \/ svc = "abort" \/ rb = "abort"

\* "Every frame gets its own key-up": the interrupt keys down after retiring
\* exactly one frame, and no key-up retires a second one.
OneFramePerKeyUp ==
  /\ aired <= 1
  /\ isr \in {"pending", "clear"} => aired = 1

\* The time-out measures the key-up it releases: the moment it was started
\* never dates from an earlier key-up (txTimeoutPoll()).
TimeoutMeasuresThisKeyUp ==
  active /\ keyedAt # 0 => keyedAt = keyUps

\* Line, modulator, interrupt and state machine agree at every instant of a
\* key-up, which is of one frame and measured from its own start.
KeyUpSound ==
  TypeInv /\ PttFollowsModulator /\ NoOrphanKeyUp /\ OneFramePerKeyUp /\ TimeoutMeasuresThisKeyUp

\* "Everything that touches them is brought to rest first": the rings and the
\* state machine are reset only with the service task outside its work, the
\* modulator and its sample clock off, the interrupt out of its handler and no
\* producer inside the ring.
Resting ==
  /\ svc \in {"top", "held", "leave"}
  /\ ~active /\ ~clock /\ isr = "out"
  /\ \A p \in Producers : writer[p] = "idle"
ResetAlone == [][rb = "reset" /\ rb' # "reset" => Resting]_vars

\* Between one key-down and the next key-up the line is low over a whole
\* service tick, the sample clock is stopped and the teardown done: "a real
\* un-key" (txReleaseHoldoff, ModemTxTeardownPending()).
UnkeyGap == [][~ptt /\ ptt' => gap = "done" /\ ~clock /\ ~stopPending]_vars

Fifo == INSTANCE TxQueue WITH queue <- Waiting, sent <- sent

\* The ring is a queue: frames leave in order, each at most once, and are lost
\* only when everything waiting is thrown away.
RingIsQueue == Fifo!Spec

\* A frame that is waiting is sent or, with the rest, thrown away: no
\* interleaving of key-down, teardown, time-out and rebuild leaves the chain
\* waiting for an event that will not come.
FrameLeaves ==
  \A f \in 1 .. MaxFrames :
    (\E i \in 1 .. FramesPending : Waiting[i] = f) ~>
      ~(\E i \in 1 .. FramesPending : Waiting[i] = f)
=============================================================================
