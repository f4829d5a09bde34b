----------------------------- MODULE RxSamples ------------------------------
(***************************************************************************)
(* The audio on its way from the converter to the demodulators: the        *)
(* driver's pool, the modem's FIFO, the noise gate with the blocks it      *)
(* holds back, and the task that moves the samples, which transmissions    *)
(* and a rebuild of the modem interrupt.                                   *)
(*                                                                         *)
(* A sample is its number.  The converter stores each pair of samples the  *)
(* wrong way round.  Which level a block has, and whether the demodulators *)
(* see a carrier in it, is the channel's choice.  Full duplex and the      *)
(* profiles without a gate are the values of two constants.  The second    *)
(* half is the tests of the audio interface.                               *)
(***************************************************************************)
EXTENDS Naturals, Sequences, SequencesExt, FiniteSets

CONSTANTS
    Pool,         \* entries in the driver's pool, even
    Conv,         \* entries of one read, MODEM_ADC_CONV_FRAME
    Fifo,         \* MODEM_RX_FIFO_SIZE
    Block,        \* MODEM_BLOCK_SIZE
    HoldBlocks,   \* RX_HOLD_BLOCKS
    Opens,        \* loud blocks, less the quiet ones, that open the gate
    CountMax,     \* where the count of loud blocks stops
    Gate,         \* a gate is set
    Duplex,       \* full duplex
    Samples, Keys, Rebuilds   \* bounds: samples, transmissions, rebuilds

ASSUME SampleAssumption ==
    /\ {Pool, Conv, Fifo, Block, HoldBlocks, Opens, CountMax} \subseteq Nat \ {0}
    /\ {Samples, Keys, Rebuilds} \subseteq Nat
    /\ Pool % 2 = 0 /\ Opens < CountMax
    /\ {Gate, Duplex} \subseteq BOOLEAN

VARIABLES
    pool, taken,  \* the driver's pool; samples converted so far
    fifo,         \* s_fifo
    waiting,      \* s_pendingSwap, if there is one
    at, conv,     \* the receive task's step; what it read
    flush, reset, \* s_flushReq, s_dcdResetReq
    held, count,  \* s_hold; s_dcdCnt
    open, dcd,    \* s_gateOpen; a demodulator reports a carrier
    txActive, stopPending, keys,    \* the transmitter, and keyings so far
    pauseReq, paused, rebuild, rebuilds,
    run,          \* history: the samples fed since the gate last opened
    lost,         \* history: samples dropped on the way
    slipped       \* history: samples were thrown away with one of a pair waiting

chain == <<pool, taken, fifo, waiting, conv, held, count, open, dcd, run, lost, slipped>>
pause == <<pauseReq, paused, rebuild, rebuilds>>
tx    == <<txActive, stopPending, keys>>
sampleVars == <<chain, at, flush, reset, tx, pause>>

SampleInit ==
    /\ pool = <<>> /\ taken = 0 /\ fifo = <<>> /\ waiting = <<>> /\ conv = <<>>
    /\ at = "top" /\ flush = FALSE /\ reset = FALSE
    /\ held = <<>> /\ count = 0 /\ open = FALSE /\ dcd = FALSE
    /\ txActive = FALSE /\ stopPending = FALSE /\ keys = 0
    /\ pauseReq = FALSE /\ paused = FALSE /\ rebuild = "none" /\ rebuilds = 0
    /\ run = <<>> /\ lost = {} /\ slipped = FALSE

----------------------------------------------------------------------------
(* The driver: a pool that is full is replaced by the new samples.         *)

Convert ==
    /\ taken + 2 <= Samples /\ taken' = taken + 2
    /\ LET pair == <<taken + 2, taken + 1>> IN
       IF Len(pool) + 2 <= Pool
       THEN pool' = pool \o pair /\ UNCHANGED <<lost, slipped>>
       ELSE /\ pool' = pair /\ lost' = lost \cup ToSet(pool)
            /\ slipped' = (slipped \/ Len(pool) % 2 = 1)
    /\ UNCHANGED <<fifo, waiting, conv, held, count, open, dcd, run, at, flush, reset,
                   tx, pause>>

----------------------------------------------------------------------------
(* The receive task: afsk_rx_task()                                        *)

Top ==
    /\ at = "top"
    /\ IF pauseReq THEN paused' = TRUE /\ at' = "held" ELSE paused' = paused /\ at' = "read"
    /\ UNCHANGED <<chain, flush, reset, tx, pauseReq, rebuild, rebuilds>>

Leave ==
    /\ at = "held" /\ ~pauseReq /\ at' = "leave"
    /\ UNCHANGED <<chain, flush, reset, tx, pause>>

(* Faulty variant: the task reads on without a look at a second request.   *)
AfterHoldRead == "read"
AfterHold == "top"

Left ==
    /\ at = "leave" /\ paused' = FALSE /\ at' = AfterHold
    /\ UNCHANGED <<chain, flush, reset, tx, pauseReq, rebuild, rebuilds>>

Read ==
    /\ at = "read"
    /\ \/ at' = "top" /\ UNCHANGED <<pool, conv>>
       \/ \E got \in 1 .. Conv :
             /\ got <= Len(pool) /\ at' = "ingest"
             /\ conv' = SubSeq(pool, 1, got) /\ pool' = SubSeq(pool, got + 1, Len(pool))
    /\ UNCHANGED <<taken, fifo, waiting, held, count, open, dcd, run, lost, slipped,
                   flush, reset, tx, pause>>

(* The pairs put right; the first of a pair without its second waits.      *)
Righted(s) ==
    [i \in 1 .. Len(s) - (Len(s) % 2) |-> IF i % 2 = 1 THEN s[i + 1] ELSE s[i - 1]]

Pairs(s) == IF waiting = <<>> THEN s ELSE waiting \o s

(* Faulty variant: the entry that waits is forgotten.                      *)
StillWaitsNot(s) == <<>>
StillWaits(s) == IF Len(s) % 2 = 1 THEN <<Last(s)>> ELSE <<>>

(* adc_ingest(): the samples of one's own transmission are thrown away.    *)
Ingest ==
    /\ at = "ingest" /\ at' = "poll" /\ conv' = <<>>
    /\ IF ~Duplex /\ txActive
       THEN /\ lost' = lost \cup ToSet(conv) /\ slipped' = (slipped \/ waiting # <<>> \/ Len(conv) % 2 = 1)
            /\ UNCHANGED <<fifo, waiting>>
       ELSE LET new == Righted(Pairs(conv))
                fit == IF Fifo - Len(fifo) < Len(new) THEN Fifo - Len(fifo) ELSE Len(new)
            IN
            /\ fifo' = fifo \o SubSeq(new, 1, fit)
            /\ lost' = lost \cup {new[i] : i \in (fit + 1) .. Len(new)}
            /\ waiting' = StillWaits(Pairs(conv)) /\ UNCHANGED slipped
    /\ UNCHANGED <<pool, taken, held, count, open, dcd, run, flush, reset, tx, pause>>

(* The flags other tasks left are looked at before every block.            *)
Flushed == IF flush THEN <<>> ELSE fifo
Carrier == dcd /\ ~reset

(* Faulty variant: a block is taken out only when there is more than that. *)
WholeBlockMore(samples) == Len(samples) > Block
WholeBlock(samples) == Len(samples) >= Block

PollDone ==
    /\ at = "poll" /\ ~WholeBlock(Flushed)
    /\ at' = "top" /\ fifo' = Flushed /\ dcd' = Carrier
    /\ lost' = IF flush THEN lost \cup ToSet(fifo) ELSE lost
    /\ flush' = FALSE /\ reset' = FALSE
    /\ UNCHANGED <<pool, taken, waiting, conv, held, count, open, run, slipped, tx, pause>>

Counted(level) ==
    CASE ~Gate -> count
      [] Gate /\ level = "loud" -> IF count < CountMax THEN count + 1 ELSE count
      [] Gate /\ level = "quiet" -> IF count > 0 THEN count - 1 ELSE 0
      [] OTHER -> count

(* Faulty variant: the blocks held back are left where they were.          *)
HeldAfterStays(block) == held
HeldAfter(block) == <<>>

(* Faulty variant: closing the gate leaves the carrier as it was.          *)
ClosedCarrierStays(carrier) == carrier
ClosedCarrier(carrier) == IF open THEN FALSE ELSE carrier

(* A block with the gate open goes to the demodulators, behind what was    *)
(* held back; with the gate shut the latest blocks are held.               *)
PollBlock ==
    /\ at = "poll" /\ WholeBlock(Flushed) /\ flush' = FALSE /\ reset' = FALSE
    /\ lost' = IF flush THEN lost \cup ToSet(fifo) ELSE lost
    /\ LET block == SubSeq(Flushed, 1, Block) IN
       /\ fifo' = SubSeq(Flushed, Block + 1, Len(Flushed))
       /\ \E level \in {"loud", "between", "quiet"} :
             /\ count' = Counted(level)
             /\ LET present == ~Gate \/ count' > Opens
                    feed    == FlattenSeq(held) \o block
                IN
                /\ open' = present
                /\ \/ /\ present /\ dcd' \in BOOLEAN /\ held' = HeldAfter(block)
                      /\ run' = (IF open THEN run ELSE <<>>) \o feed
                   \/ /\ ~present /\ dcd' = ClosedCarrier(Carrier)
                      /\ held' = LET all == Append(held, block) IN
                                 IF Len(all) > HoldBlocks THEN Tail(all) ELSE all
                      /\ UNCHANGED run
    /\ UNCHANGED <<pool, taken, waiting, conv, slipped, at, tx, pause>>

----------------------------------------------------------------------------
(* The transmitter, and the service task's AFSK_ServiceTx()                *)

KeyUp ==
    /\ keys < Keys /\ ~txActive /\ keys' = keys + 1
    /\ txActive' = TRUE /\ stopPending' = FALSE
    /\ UNCHANGED <<chain, at, flush, reset, pause>>

KeyDown ==
    /\ txActive /\ txActive' = FALSE /\ stopPending' = TRUE
    /\ UNCHANGED <<chain, at, flush, reset, keys, pause>>

ServiceTx ==
    /\ stopPending /\ ~txActive /\ stopPending' = FALSE
    /\ flush' = (flush \/ ~Duplex) /\ reset' = (reset \/ ~Duplex)
    /\ UNCHANGED <<chain, at, txActive, keys, pause>>

----------------------------------------------------------------------------
(* A rebuild of the modem: afskSetModem()                                  *)

AskRebuild ==
    /\ rebuild = "none" /\ rebuilds < Rebuilds /\ rebuilds' = rebuilds + 1
    /\ rebuild' = "wait" /\ pauseReq' = TRUE
    /\ UNCHANGED <<chain, at, flush, reset, tx, paused>>

Granted ==
    /\ rebuild = "wait" /\ paused /\ rebuild' = "building"
    /\ UNCHANGED <<chain, at, flush, reset, tx, pauseReq, paused, rebuilds>>

Rebuild ==
    /\ rebuild = "building" /\ rebuild' = "built"
    /\ dcd' = FALSE /\ count' = 0 /\ open' = FALSE /\ held' = <<>>
    /\ flush' = TRUE
    /\ UNCHANGED <<pool, taken, fifo, waiting, conv, run, lost, slipped, at, reset, tx,
                   pauseReq, paused, rebuilds>>

Resume ==
    /\ rebuild = "built" /\ rebuild' = "none" /\ pauseReq' = FALSE
    /\ UNCHANGED <<chain, at, flush, reset, tx, paused, rebuilds>>

SampleNext ==
    \/ Convert
    \/ Top \/ Leave \/ Left \/ Read \/ Ingest \/ PollDone \/ PollBlock
    \/ KeyUp \/ KeyDown \/ ServiceTx
    \/ AskRebuild \/ Granted \/ Rebuild \/ Resume

SampleSpec == SampleInit /\ [][SampleNext]_sampleVars

----------------------------------------------------------------------------
(* While the modem is rebuilt the receive task is in its hold, or on its   *)
(* way from it to look at the request again: it touches neither the        *)
(* demodulators nor the samples (afsk.c:1616-1664, 1674-1753).             *)
RebuildExclusive == rebuild \in {"building", "built"} => at \in {"held", "leave", "top"}

(* The demodulators are fed the samples in the order they were taken, none *)
(* twice, and a run of them, the blocks held back before the gate opened   *)
(* included, skips only what was lost on the way (afsk.c:438-454, 1201-    *)
(* 1287, 1373-1522).  Out of this are samples thrown away with one of a    *)
(* pair waiting: PairsKept is about those.                                 *)
RunWhole ==
    ~slipped =>
        /\ \A i \in 2 .. Len(run) : run[i] > run[i - 1]
        /\ run # <<>> => (Head(run) .. Last(run)) \ ToSet(run) \subseteq lost

(* With the gate shut no demodulator reports a carrier that only the next  *)
(* loud block could clear, and the transmitter is not kept waiting by it   *)
(* (afsk.c:1498-1508, 1724-1728).                                          *)
ShutGateIsQuiet == ~open => ~dcd

(* The FIFO has room for all one read brings (afsk.c:1276-1279).           *)
FifoHoldsRead == at = "ingest" /\ (Duplex \/ ~txActive) => Len(fifo) + Len(conv) + 1 <= Fifo

(* What the comments at afsk.c:1178-1183 and 1251-1253 say of the pairs:   *)
(* it does not hold, a transmission that starts with one of a pair waiting *)
(* leaves it there, and the pairs are put together wrongly afterwards.     *)
PairsKept == \A i \in 2 .. Len(run) : run[i] > run[i - 1]

(* The chain is rebuilt by nobody's leave but the reader's, a run is taken *)
(* whole or let go, and a shut gate hears nothing (afsk.c:1052-1420).      *)
SamplesSound == RebuildExclusive /\ RunWhole /\ ShutGateIsQuiet /\ FifoHoldsRead

-----------------------------------------------------------------------------
(***************************************************************************)
(* The three tests of the audio interface that the Radiomodem page runs,   *)
(* as far as what they hear and report goes: the LOOP TEST with the task   *)
(* that watches the receiver for it, the level sample and the TX TEST.     *)
(* RfGate has the transmitter they take.  A received frame waits in a      *)
(* queue for the task that hands it to the hook of the day.                *)
(*                                                                         *)
(* A frame is the number of the loop test whose token it carries, or 0 for *)
(* another station's.  What the converter delivers in a test is chosen     *)
(* when the test begins.                                                   *)
(***************************************************************************)

CONSTANTS MaxTests,   \* bound: tests of all three kinds
          MaxOthers   \* bound: frames of other stations

ASSUME AudioAssumption == {MaxTests, MaxOthers} \subseteq Nat

VARIABLES
    testStage,        \* where the test is, "idle" while s_loopTestActive is clear
    test, others, \* tests begun and other stations' frames so far
    adc,          \* the converter is "dead", or the loop to it is "open" or "closed"
    onAir, otherOn,  \* the test's frame is in the modulator; another station sends
    hook,         \* s_rxHook
    received,     \* s_rxQueue
    inHand,       \* what aprs_rx is about to hand on, and to whom
    got, answer,  \* s_loopTestGotFrame; the frame of s_loopTestRxInfo
    signalled,    \* s_loopTestSem
    inTime,       \* the wait for it ended before its time was out
    diag,         \* s_diag
    sample,       \* the level sample's marks
    report,      \* the last test's report
    heardBack,    \* history: the last test whose frame came round the loop
    awaited,      \* history: another station's frame was waited out for the test
    mistaken      \* history: a test's frame was handled as traffic

audioVars == <<testStage, test, others, adc, onAir, otherOn, hook, received, inHand, got, answer,
               signalled, inTime, diag, sample, report, heardBack, awaited, mistaken>>
airState   == <<onAir, otherOn, others, heardBack, awaited>>
rxState    == <<hook, received, inHand, got, answer, signalled, mistaken>>
judged == <<inTime, sample, report>>

NoneInHand == [frame |-> 0, to |-> "none"]
Unmarked == [clips |-> FALSE, carrier |-> FALSE, tones |-> FALSE]
BlankDiag == [task |-> "none", captured |-> "untaken", alive |-> FALSE, locked |-> FALSE, furthest |-> 0]

AudioInit ==
    /\ testStage = "idle" /\ test = 0 /\ others = 0 /\ adc = "open"
    /\ onAir = FALSE /\ otherOn = FALSE /\ hook = "traffic" /\ received = <<>> /\ inHand = NoneInHand
    /\ got = FALSE /\ answer = 0 /\ signalled = FALSE /\ inTime = FALSE
    /\ diag = BlankDiag /\ sample = Unmarked /\ report = "none"
    /\ heardBack = 0 /\ awaited = FALSE /\ mistaken = FALSE

----------------------------------------------------------------------------
(* The air, the modem and the receive task                                 *)

OtherBegins ==
    /\ ~otherOn /\ others < MaxOthers /\ others' = others + 1 /\ otherOn' = TRUE
    /\ UNCHANGED <<testStage, test, adc, onAir, rxState, judged, diag, heardBack, awaited>>

(* The other station's frame is over, decoded or not.                      *)
OtherEnds ==
    /\ otherOn /\ otherOn' = FALSE
    /\ received' \in {received} \cup (IF adc = "dead" THEN {} ELSE {Append(received, 0)})
    /\ awaited' = (awaited \/ testStage = "hooked")
    /\ UNCHANGED <<testStage, test, adc, onAir, others, heardBack, hook, inHand, got, answer,
                   signalled, mistaken, judged, diag>>

(* The test's frame is over; with the loop closed it may be decoded.       *)
OwnEnds ==
    /\ onAir /\ onAir' = FALSE
    /\ \/ adc = "closed" /\ received' = Append(received, test) /\ heardBack' = test
       \/ UNCHANGED <<received, heardBack>>
    /\ UNCHANGED <<testStage, test, adc, otherOn, others, awaited, hook, inHand, got, answer,
                   signalled, mistaken, judged, diag>>

RxTake ==
    /\ inHand = NoneInHand /\ received # <<>>
    /\ inHand' = [frame |-> Head(received), to |-> hook] /\ received' = Tail(received)
    /\ UNCHANGED <<testStage, test, adc, airState, hook, got, answer, signalled, mistaken, judged, diag>>

(* loopTestRxHook(), or aprs_msg_callback().                               *)
RxHand ==
    /\ inHand # NoneInHand /\ inHand' = NoneInHand
    /\ IF inHand.to = "test"
       THEN answer' = inHand.frame /\ got' = TRUE /\ signalled' = TRUE /\ UNCHANGED mistaken
       ELSE /\ mistaken' = (mistaken \/ inHand.frame # 0)
            /\ UNCHANGED <<answer, got, signalled>>
    /\ UNCHANGED <<testStage, test, adc, airState, hook, received, judged, diag>>

----------------------------------------------------------------------------
(* loopDiagTask(): one capture into the preamble, when the frame has been  *)
(* offered, then the high marks; the frame's own level goes with the swing *)

(* A tone reaches the converter.                                           *)
Swings == (onAir /\ adc = "closed") \/ (otherOn /\ adc # "dead")

Capture ==
    /\ diag.task = "delay" /\ testStage # "watching"
    /\ diag' = [diag EXCEPT !.task = "watch",
                  !.captured = IF adc = "dead" THEN "nothing" ELSE IF Swings THEN "tone" ELSE "flat"]
    /\ UNCHANGED <<testStage, test, adc, airState, rxState, judged>>

Watch ==
    /\ diag.task = "watch" /\ testStage \in {"watching", "waiting"}
    /\ \E locked \in {FALSE, Swings}, reached \in 0 .. (IF Swings THEN 2 ELSE 0) :
          diag' = [diag EXCEPT !.alive = (adc # "dead"), !.locked = @ \/ locked,
                               !.furthest = IF reached > @ THEN reached ELSE @]
    /\ UNCHANGED <<testStage, test, adc, airState, rxState, judged>>

WatchEnds ==
    /\ diag.task = "watch" /\ testStage \in {"stopping", "restored", "idle"}
    /\ diag' = [diag EXCEPT !.task = "none"]
    /\ UNCHANGED <<testStage, test, adc, airState, rxState, judged>>

----------------------------------------------------------------------------
(* self_test_source_call(): the IGate's callsign, or the digipeater's when *)
(* that one is a placeholder or no callsign.                               *)
SourceCall(usable) ==
    IF "igate" \in usable THEN "igate" ELSE IF "digi" \in usable THEN "digi" ELSE "none"

(* diagClaim(): one test of the three at a time.                           *)
Claim(next, usable) ==
    /\ testStage = "idle" /\ test < MaxTests /\ test' = test + 1
    /\ IF SourceCall(usable) = "none"
       THEN testStage' = "idle" /\ report' = "no callsign"
       ELSE testStage' = next /\ report' = "none"

(* aprs_loop_test_run() up to the hook; the task of the last test is over. *)
LoopBegin ==
    /\ diag.task = "none"
    /\ \E usable \in SUBSET {"igate", "digi"} : Claim("hooked", usable)
    /\ adc' \in {"dead", "open", "closed"}
    /\ signalled' = FALSE
    /\ IF testStage' = "hooked" THEN got' = FALSE /\ hook' = "test" ELSE UNCHANGED <<got, hook>>
    /\ awaited' = FALSE
    /\ UNCHANGED <<others, onAir, otherOn, heardBack, received, inHand, answer, mistaken, inTime, sample, diag>>

(* The channel is clear, or was busy too long; loopDiagStart().            *)
DiagStart ==
    /\ testStage = "hooked" /\ testStage' = "watching"
    /\ \E task \in {"delay", "none"} : diag' = [BlankDiag EXCEPT !.task = task]
    /\ UNCHANGED <<test, adc, airState, rxState, judged>>

SendTest ==
    /\ testStage = "watching" /\ testStage' = "waiting" /\ onAir' \in BOOLEAN
    /\ UNCHANGED <<test, adc, otherOn, others, heardBack, awaited, rxState, judged, diag>>

Answered ==
    /\ testStage = "waiting" /\ signalled /\ signalled' = FALSE
    /\ testStage' = "stopping" /\ inTime' = TRUE
    /\ UNCHANGED <<test, adc, airState, hook, received, inHand, got, answer, mistaken, sample, report, diag>>

(* LOOP_TEST_TIMEOUT_MS are many times what the capture and the first look *)
(* at the sample counter take.                                             *)
TimedOut ==
    /\ testStage = "waiting" /\ ~signalled
    /\ diag.task # "delay" /\ (diag.task = "watch" => diag.alive \/ adc = "dead")
    /\ testStage' = "stopping" /\ inTime' = FALSE
    /\ UNCHANGED <<test, adc, airState, rxState, sample, report, diag>>

(* The task has ended, or the wait for it was too long; the hook and the   *)
(* configured mode are put back, whatever the ring held is gone.           *)
LoopRestored ==
    /\ testStage = "stopping" /\ testStage' = "restored"
    /\ hook' = "traffic" /\ onAir' = FALSE
    /\ UNCHANGED <<test, adc, otherOn, others, heardBack, awaited, received, inHand, got, answer,
                   signalled, mistaken, judged, diag>>

(* Faulty variant: any test's frame passes, whatever its token.            *)
OwnTokenAny(frame) == frame # 0
OwnToken(frame) == frame = test

LoopVerdict ==
    CASE ~inTime \/ ~got ->
           (CASE ~diag.alive \/ diag.captured \in {"untaken", "nothing"} -> "no samples"
              [] diag.captured = "flat" -> "no tone"
              [] ~diag.locked -> "no lock"
              [] diag.furthest < 2 -> "no frame"
              [] OTHER -> "bits in error")
      [] OwnToken(answer) -> IF diag.captured = "tone" THEN "pass" ELSE "no genuine tone"
      [] OTHER -> "content differs"

LoopJudged ==
    /\ testStage = "restored" /\ testStage' = "idle" /\ report' = LoopVerdict
    /\ UNCHANGED <<test, adc, airState, rxState, inTime, sample, diag>>

----------------------------------------------------------------------------
(* aprs_rx_level_sample(): the marks are those of one window.              *)
LevelBegin ==
    /\ Claim("sampling", {"igate"}) /\ sample' = Unmarked
    /\ UNCHANGED <<adc, airState, rxState, inTime, diag>>

LevelBlock ==
    /\ testStage = "sampling"
    /\ \E clips \in BOOLEAN, carrier \in {FALSE, Swings}, tones \in {FALSE, Swings} :
          sample' = [clips |-> sample.clips \/ clips, carrier |-> sample.carrier \/ carrier,
                     tones |-> sample.tones \/ tones]
    /\ UNCHANGED <<testStage, test, adc, airState, rxState, inTime, report, diag>>

LevelVerdict ==
    CASE sample.clips -> "clip"
      [] ~sample.clips /\ ~sample.carrier -> "idle"
      [] ~sample.clips /\ sample.carrier /\ ~sample.tones -> "low"
      [] OTHER -> "good"

LevelDone ==
    /\ testStage = "sampling" /\ testStage' = "idle" /\ report' = LevelVerdict
    /\ UNCHANGED <<test, adc, airState, rxState, inTime, sample, diag>>

(* aprs_tx_test_run(): the frame is refused, or goes out as any other; the *)
(* wait for it ends with the ring empty or after TX_TEST_BURST_MS.         *)
TxTestBegin ==
    /\ \E usable \in SUBSET {"igate", "digi"} : Claim("keyed", usable)
    /\ UNCHANGED <<adc, airState, rxState, inTime, sample, diag>>

TxTestEnds ==
    /\ testStage = "keyed" /\ testStage' = "idle" /\ report' \in {"not sent", "transmitted"}
    /\ UNCHANGED <<test, adc, airState, rxState, inTime, sample, diag>>

AudioNext ==
    \/ OtherBegins \/ OtherEnds \/ OwnEnds \/ RxTake \/ RxHand
    \/ Capture \/ Watch \/ WatchEnds
    \/ LoopBegin \/ DiagStart \/ SendTest \/ Answered \/ TimedOut \/ LoopRestored \/ LoopJudged
    \/ LevelBegin \/ LevelBlock \/ LevelDone \/ TxTestBegin \/ TxTestEnds

AudioSpec == AudioInit /\ [][AudioNext]_audioVars

----------------------------------------------------------------------------
(* A test that passes heard its own frame come round the loop, not the     *)
(* late frame of the test before it nor another station's, and a tone with *)
(* it: "so a PASS can never be reported over a physically open loop"       *)
(* (aprs_service.c:2621-2629).                                             *)
PassIsGenuine == report = "pass" => heardBack = test /\ adc = "closed"

(* A converter blamed for not sampling is dead, unless the watching task   *)
(* could not be made, and a lock that is missed was not there to be had    *)
(* (aprs_service.c:2530-2613).                                             *)
BlameTrue ==
    /\ report = "no samples" /\ diag.captured # "untaken" => adc = "dead"
    /\ report \in {"no lock", "no frame", "bits in error"} => adc # "dead"

(* Between tests received frames are the station's traffic again.          *)
HookGivenBack == testStage = "idle" => hook = "traffic"

(* What the page reports of the loop is what the loop did.                 *)
AudioSound == PassIsGenuine /\ BlameTrue /\ HookGivenBack

(* "wait for it to clear ... instead of mixing it with that signal and     *)
(* risking a spurious failure" (aprs_service.c:2496-2500): it does not     *)
(* hold, the frame that is waited out is taken for the test's answer.      *)
WaitedOutIsNoAnswer == awaited => report # "content differs"

(* "so a self-generated test frame is never mistaken for real RF traffic"  *)
(* (aprs_service.c:2384-2386): it does not hold for a frame heard as the   *)
(* wait for it runs out.                                                   *)
TestIsNoTraffic == ~mistaken
=============================================================================
