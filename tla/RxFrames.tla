------------------------------ MODULE RxFrames ------------------------------
(***************************************************************************)
(* The receive side after the deframers: several demodulators listen to    *)
(* the same channel and each hands on its own copy of a frame, intact,     *)
(* repaired or not at all.  A copy accepted within the hold of an equal    *)
(* one is dropped; the others go into the receive ring, which the modem's  *)
(* service task empties into the queue of the task that dispatches them.   *)
(*                                                                         *)
(* A Call is one Ax25BitParse(): the demodulators are called in turn, once *)
(* per bit, and the hold is counted in calls.  A frame on the air is a     *)
(* member of OnAir; its copies are <<transmission, "true">> or, after a    *)
(* repair that flipped the wrong bits, <<transmission, "wrong">>.          *)
(***************************************************************************)
EXTENDS Naturals, Sequences, SequencesExt, FiniteSets

CONSTANTS
    OnAir,        \* the content of each transmission, in order
    Length,       \* octets of each content, without the check sequence
    Fx25,         \* the transmissions sent with FX.25
    Demods,       \* number of demodulators
    MaxSkew,      \* bits by which one may lag behind another
    Hold,         \* RX_DEDUP_HOLD_BITS
    Late,         \* bits from a frame's closing flag to the end of its block
    Gap,          \* bits from a frame's closing flag to the next one's
    Repair,       \* rxFixBits > 0
    RingOctets,   \* FRAME_BUFFER_SIZE
    RingSlots,    \* FRAME_MAX_COUNT
    QueueDepth    \* APRS_RX_QUEUE_DEPTH

ASSUME RxAssumption ==
    /\ {Demods, Hold, Gap, RingOctets, RingSlots, QueueDepth} \subseteq Nat \ {0}
    /\ {MaxSkew, Late} \subseteq Nat /\ Repair \in BOOLEAN
    /\ MaxSkew < Hold /\ Late + MaxSkew + Hold + 1 < Gap

VARIABLES
    air,          \* the transmission being heard
    bitNo, demod,    \* bits since its closing flag; the demodulator called next
    skew, tagged, \* each demodulator's lag, and whether it saw the FX.25 tag
    hold,         \* dedupOpen, lastCrc, rxMultiplexDelay
    ring,         \* rxBuffer, rxFrame and their indices
    stored,       \* history: the copies put in the ring
    clean,        \* history: an intact copy of this transmission was decoded
    noRoom,      \* history: a copy of it found no room
    reader,       \* the service task's step, and the frame it copied
    queue,        \* s_rxQueue
    dispatched    \* history: the frame the dispatcher took last

frameVars == <<air, bitNo, demod, skew, tagged, hold, ring, stored, clean, noRoom, reader, queue,
          dispatched>>

Octets == 0 .. RingOctets - 1
Nobody == [serial |-> 0, copy |-> <<0, "none">>]
Tags(t) == IF t \in Fx25 THEN [1 .. Demods -> BOOLEAN] ELSE {[d \in 1 .. Demods |-> FALSE]}

FrameInit ==
    /\ air = 1 /\ bitNo = 0 /\ demod = 1
    /\ skew \in [1 .. Demods -> 0 .. MaxSkew] /\ tagged \in Tags(1)
    /\ hold = [open |-> FALSE, crc |-> <<>>, delay |-> 0]
    /\ ring = [octets |-> [i \in Octets |-> Nobody], head |-> 0, tail |-> 0,
               slots |-> [i \in 0 .. RingSlots - 1 |-> [start |-> 0, size |-> 0, is |-> Nobody]],
               first |-> 0, next |-> 0]
    /\ stored = <<>> /\ clean = FALSE /\ noRoom = FALSE
    /\ reader = [at |-> "look", has |-> Nobody]
    /\ queue = <<>> /\ dispatched = Nobody

----------------------------------------------------------------------------
(* The receive ring                                                        *)

Next1(i) == (i + 1) % RingSlots

(* ringByteSpace()                                                         *)
Space(r) == RingOctets - ((r.head + RingOctets - r.tail) % RingOctets) - 1

HasRoom(r, size) == Next1(r.next) # r.first /\ Space(r) >= size

(* The octets, then the handle, then the slot is published.  An FX.25      *)
(* block leaves its two octets of check sequence behind the frame's.       *)
Put(r, is, size, left) ==
    LET place == {(r.head + i) % RingOctets : i \in 0 .. size - 1} IN
    [r EXCEPT !.octets = [i \in Octets |-> IF i \in place THEN is ELSE @[i]],
              !.head   = (@ + size + left) % RingOctets,
              !.slots[r.next] = [start |-> r.head, size |-> size, is |-> is],
              !.next   = Next1(@)]

----------------------------------------------------------------------------
(* One call of Ax25BitParse()                                              *)

(* Faulty variant: the hold is counted as if there were one demodulator.   *)
HoldCallsOne == Hold
HoldCalls == Hold * Demods

HoldAged(h) ==
    IF ~h.open THEN h
    ELSE IF h.delay + 1 > HoldCalls THEN [open |-> FALSE, crc |-> h.crc, delay |-> 0]
    ELSE [h EXCEPT !.delay = @ + 1]

(* Faulty variant: the last frame is remembered after its hold is over.    *)
SameForGood(h, crc) == crc = h.crc
Same(h, crc) == h.open /\ crc = h.crc

Opened(crc) == [open |-> TRUE, crc |-> crc, delay |-> 0]

(* The check sequence of a copy: equal contents have equal ones.           *)
Crc(copy) == <<OnAir[copy[1]], copy[2]>>
Size(copy) == Length[OnAir[copy[1]]]

Store(copy, left) ==
    /\ ring' = Put(ring, [serial |-> Len(stored) + 1, copy |-> copy], Size(copy), left)
    /\ stored' = Append(stored, copy)

Kept(copy) ==
    /\ clean' = (clean \/ copy[2] = "true")
    /\ UNCHANGED <<ring, stored>>

(* rxFrameEnd(): the copy is remembered before the room is looked at.      *)
PlainEnd(h, copy) ==
    \/ /\ Same(h, Crc(copy)) /\ hold' = h
       /\ Kept(copy) /\ UNCHANGED noRoom
    \/ /\ ~Same(h, Crc(copy)) /\ hold' = Opened(Crc(copy)) /\ ~HasRoom(ring, Size(copy))
       /\ Kept(copy) /\ noRoom' = TRUE
    \/ /\ ~Same(h, Crc(copy)) /\ hold' = Opened(Crc(copy)) /\ HasRoom(ring, Size(copy))
       /\ Store(copy, 0)
       /\ clean' = (clean \/ copy[2] = "true") /\ UNCHANGED noRoom

(* The end of an FX.25 block: the room for all of it is looked at first.   *)
BlockEnd(h, copy) ==
    \/ /\ ~HasRoom(ring, Size(copy) + 2) /\ hold' = h
       /\ Kept(copy) /\ noRoom' = TRUE
    \/ /\ HasRoom(ring, Size(copy) + 2) /\ Same(h, Crc(copy)) /\ hold' = h
       /\ Kept(copy) /\ UNCHANGED noRoom
    \/ /\ HasRoom(ring, Size(copy) + 2) /\ ~Same(h, Crc(copy)) /\ hold' = Opened(Crc(copy))
       /\ Store(copy, 2) /\ clean' = TRUE /\ UNCHANGED noRoom

NothingDecoded(h) == hold' = h /\ UNCHANGED <<ring, stored, clean, noRoom>>

(* Faulty variant: a repair is tried though the frame was just delivered.  *)
MayRepairAlways(h) == Repair
MayRepair(h) == Repair /\ ~h.open

(* Whether the audio lets this demodulator decode the frame, and whether   *)
(* the one repair that fits is the right one, is the channel's choice.     *)
FrameEnd(h) ==
    \/ NothingDecoded(h)
    \/ /\ tagged[demod] /\ BlockEnd(h, <<air, "true">>)
    \/ /\ ~tagged[demod] /\ PlainEnd(h, <<air, "true">>)
    \/ /\ ~tagged[demod] /\ MayRepair(h)
       /\ \E how \in {"true", "wrong"} : PlainEnd(h, <<air, how>>)

EndsNow(d) == bitNo = skew[d] + (IF tagged[d] THEN Late ELSE 0)

Call ==
    /\ air <= Len(OnAir)
    /\ IF EndsNow(demod) THEN FrameEnd(HoldAged(hold)) ELSE NothingDecoded(HoldAged(hold))
    /\ IF demod < Demods THEN demod' = demod + 1 /\ bitNo' = bitNo ELSE demod' = 1 /\ bitNo' = bitNo + 1
    /\ bitNo' < Gap
    /\ UNCHANGED <<air, skew, tagged, reader, queue, dispatched>>

(* The next transmission's closing flag: more than a hold has gone by.     *)
NextOnAir ==
    /\ air <= Len(OnAir) /\ bitNo = Gap - 1 /\ demod = Demods
    /\ air' = air + 1 /\ bitNo' = 0 /\ demod' = 1
    /\ tagged' \in (IF air < Len(OnAir) THEN Tags(air + 1) ELSE {tagged})
    /\ hold' = HoldAged(hold) /\ clean' = FALSE /\ noRoom' = FALSE
    /\ UNCHANGED <<skew, ring, stored, reader, queue, dispatched>>

----------------------------------------------------------------------------
(* The service task: Ax25ReadNextRxFrame(), then on_rx_frame()             *)

Slot == ring.slots[ring.first]

Copy ==
    /\ reader.at = "look" /\ ring.first # ring.next
    /\ reader' = [at |-> "copied", has |-> ring.octets[Slot.start]]
    /\ UNCHANGED <<air, bitNo, demod, skew, tagged, hold, ring, stored, clean, noRoom, queue,
                   dispatched>>

(* Faulty variant: the octets are given back as far as they are written.   *)
FreedAll(r) == [r EXCEPT !.tail = r.head]
Freed(r) == [r EXCEPT !.tail = (Slot.start + Slot.size) % RingOctets]

FreeOctets ==
    /\ reader.at = "copied" /\ reader' = [reader EXCEPT !.at = "freed"]
    /\ ring' = Freed(ring)
    /\ UNCHANGED <<air, bitNo, demod, skew, tagged, hold, stored, clean, noRoom, queue, dispatched>>

FreeSlot ==
    /\ reader.at = "freed" /\ reader' = [reader EXCEPT !.at = "hand"]
    /\ ring' = [ring EXCEPT !.first = Next1(@)]
    /\ UNCHANGED <<air, bitNo, demod, skew, tagged, hold, stored, clean, noRoom, queue, dispatched>>

(* A full queue drops the frame: the service task never waits.             *)
HandOn ==
    /\ reader.at = "hand" /\ reader' = [at |-> "look", has |-> Nobody]
    /\ queue' = IF Len(queue) < QueueDepth THEN Append(queue, reader.has) ELSE queue
    /\ UNCHANGED <<air, bitNo, demod, skew, tagged, hold, ring, stored, clean, noRoom, dispatched>>

(* rxTask()                                                                *)
Dispatch ==
    /\ queue # <<>> /\ queue' = Tail(queue)
    /\ dispatched' = Head(queue)
    /\ UNCHANGED <<air, bitNo, demod, skew, tagged, hold, ring, stored, clean, noRoom, reader>>

FrameNext == Call \/ NextOnAir \/ Copy \/ FreeOctets \/ FreeSlot \/ HandOn \/ Dispatch

FrameSpec == FrameInit /\ [][FrameNext]_frameVars

----------------------------------------------------------------------------
CopiesOf(t) == Cardinality({i \in DOMAIN stored : stored[i] = <<t, "true">>})
Alike(t) == \A d, e \in 1 .. Demods : tagged[d] = tagged[e]
AllHeard == \A d \in 1 .. Demods : bitNo > skew[d] + (IF tagged[d] THEN Late ELSE 0)

(* However many demodulators decode a transmission, in whichever order and *)
(* repaired or not, it goes into the ring once, and a station that sends   *)
(* the same frame again is heard again; a transmission some demodulator    *)
(* had intact is missing only if the ring had no room (ax25.c:948-963).    *)
(* Demodulators that saw the FX.25 tag are not mixed with ones that did    *)
(* not: MixedOnce is about those.                                          *)
OncePerTransmission ==
    /\ \A t \in 1 .. Len(OnAir) : (t = air => Alike(t)) /\ t \notin Fx25 => CopiesOf(t) <= 1
    /\ air <= Len(OnAir) /\ Alike(air) => CopiesOf(air) <= 1
    /\ air <= Len(OnAir) /\ AllHeard /\ clean /\ ~noRoom => CopiesOf(air) >= 1

(* A copy that could be repaired wrongly is never delivered after one that *)
(* needed no repair (ax25.c:1093-1097).                                    *)
NoWrongAfterTrue ==
    \A i, j \in DOMAIN stored :
        i < j /\ stored[j][2] = "wrong" => stored[i] # <<stored[j][1], "true">>

(* What the service task has not copied yet is what was written, whatever  *)
(* is written meanwhile, and frames reach the dispatcher in the order they *)
(* were heard, none twice (ax25.c:871-905, aprs_service.c:1035-1080).      *)
RingIntact ==
    /\ \A k \in 0 .. RingSlots - 1 :
          LET i == (ring.first + k) % RingSlots
              s == ring.slots[i]
              unread == k < (ring.next + RingSlots - ring.first) % RingSlots
          IN unread /\ ~(k = 0 /\ reader.at = "freed") =>
                 \A j \in 0 .. s.size - 1 : ring.octets[(s.start + j) % RingOctets] = s.is
    /\ LET past == <<dispatched>> \o queue IN
       /\ \A i \in 2 .. Len(past) : past[i].serial > past[i - 1].serial
       /\ reader.at # "look" => reader.has.serial > Last(past).serial
       /\ \A i \in 2 .. Len(past) : past[i].copy = stored[past[i].serial]

(* What the comment at ax25.c:78-84 says of the hold, for demodulators of  *)
(* which one missed the FX.25 tag: it does not hold, the block ends long   *)
(* after the plain frame inside it.                                        *)
MixedOnce == \A t \in 1 .. Len(OnAir) : CopiesOf(t) <= 1

(* What leaves the receiver is each transmission once, a repaired copy     *)
(* never after the true one, in a ring that stays in order                 *)
(* (ax25.c:84-330).                                                        *)
HeldFramesSound == OncePerTransmission /\ NoWrongAfterTrue /\ RingIntact

-----------------------------------------------------------------------------
(***************************************************************************)
(* One frame from the bits the transmitter clocks out to the octets a      *)
(* demodulator's deframer collects: bit stuffing, NRZI and, at 9600 baud,  *)
(* the scrambler on one side; descrambler, NRZI, flag, abort and stuffing  *)
(* detection on the other.  Before the frame the receiver hears noise, and *)
(* the line may be the wrong way up: neither end knows the polarity.       *)
(*                                                                         *)
(* A step is one bit period.  The octets of a frame, its check sequence    *)
(* included, are chosen bit by bit as they are sent, so every content is   *)
(* covered; the two octets of the check sequence are the last two sent.    *)
(* Whether the audio shows the symbol that was sent is not modelled here.  *)
(***************************************************************************)

CONSTANTS
    Scrambled,    \* the profiles: FALSE for AFSK, TRUE for G3RUH
    Reg,          \* length of the scrambler's register, 17 in the code
    Tap,          \* its other tap, 12
    NoiseBits,    \* bits of noise before the transmitter keys up
    Flags,        \* STATIC_HEADER_FLAG_COUNT
    TailFlags,    \* flags after the closing one
    MinOctets,    \* the shortest frame taken, 17 in the code
    MaxOctets     \* octets sent, and the receiver's buffer

ASSUME LineAssumption ==
    /\ {Reg, Flags, MinOctets, MaxOctets} \subseteq Nat \ {0}
    /\ {NoiseBits, TailFlags} \subseteq Nat
    /\ Tap \in 1 .. Reg /\ Scrambled \subseteq BOOLEAN
    /\ 2 <= MinOctets /\ MinOctets <= MaxOctets

VARIABLES
    scrambled,    \* the profile
    noise,        \* bits of noise heard
    txStage,
    octet,        \* the bits of the octet in hand already sent
    sent,         \* octets, or flags, sent in this stage
    ones,         \* txBitstuff
    symbol,       \* currentSymbol
    txReg,        \* txLfsr, the newest bit first
    turned,       \* the line is the wrong way up
    rx,           \* one demodulator's deframer
    outcome       \* what the last closing flag gave

txVars == <<txStage, octet, sent, ones, symbol, txReg>>
lineVars == <<scrambled, noise, txVars, turned, rx, outcome>>

Bits == {0, 1}
Flag == <<0, 1, 1, 1, 1, 1, 1, 0>>
Octet(bits) == bits \in [1 .. 8 -> Bits]
Flipped(a, b) == (a + b) % 2

Idle(r) == [r EXCEPT !.stage = "idle", !.bits = <<>>, !.octets = 0, !.whole = TRUE]

LineInit ==
    /\ scrambled \in Scrambled /\ turned \in Bits /\ noise = 0
    /\ txStage = "off" /\ octet = <<>> /\ sent = 0 /\ ones = 0
    /\ symbol = 0 /\ txReg = [i \in 1 .. Reg |-> 1]
    /\ rx = [reg |-> [i \in 1 .. Reg |-> 1], last |-> 0, raw |-> [i \in 1 .. 8 |-> 0],
             stage |-> "idle", bits |-> <<>>, octets |-> 0, whole |-> TRUE]
    /\ outcome = "none"

----------------------------------------------------------------------------
(* The line                                                                *)

Shifted(reg, bit) == <<bit>> \o Front(reg)
Mixed(reg, bit) == (reg[Reg] + reg[Tap] + bit) % 2

(* MODEM_BAUDRATE_TIMER_HANDLER(): a 0 turns the symbol over.              *)
Coded(bit) == IF bit = 0 THEN 1 - symbol ELSE symbol
OnLine(sym) == IF scrambled THEN Mixed(txReg, sym) ELSE sym

(* Faulty variant: the descrambler shifts in what it put out.              *)
DescrambledOwn(r, line) ==
    LET bit == Mixed(r.reg, line) IN [sym |-> bit, reg |-> Shifted(r.reg, bit)]

(* descramble(): the register holds the line's bits, not its own.          *)
Descrambled(r, line) == [sym |-> Mixed(r.reg, line), reg |-> Shifted(r.reg, line)]

----------------------------------------------------------------------------
(* Ax25BitParse()                                                          *)

Ones(raw, n) == \A i \in (9 - n) .. 8 : raw[i] = 1

(* Faulty variant: a 0 after five ones is always data.                     *)
StuffingNone(raw) == FALSE
Stuffing(raw) == raw[8] = 0 /\ raw[2] # 1 /\ \A i \in 3 .. 7 : raw[i] = 1

(* An octet is whole when it is the one just sent.                         *)
Stored(r, bits, inHand) ==
    IF r.octets >= MaxOctets THEN Idle(r)
    ELSE [r EXCEPT !.octets = @ + 1, !.bits = <<>>, !.whole = @ /\ bits = inHand]

Taken(r, bit, inHand) ==
    LET bits == Append(r.bits, bit) IN
    IF Len(bits) = 8 THEN Stored(r, bits, inHand) ELSE [r EXCEPT !.bits = bits]

Parsed(r, bit, inHand) ==
    LET raw  == Append(Tail(r.raw), bit)
        seen == [r EXCEPT !.raw = raw, !.stage = "frame"]
    IN
    IF raw = Flag THEN [Idle(seen) EXCEPT !.stage = "flag"]
    ELSE IF Ones(raw, 7) THEN Idle(seen)
    ELSE IF Stuffing(raw) THEN seen
    ELSE Taken(seen, bit, inHand)

(* decode(): two like symbols are a 1.                                     *)
Received(r, line, inHand) ==
    LET d   == IF scrambled THEN Descrambled(r, line) ELSE [sym |-> line, reg |-> r.reg]
        bit == IF d.sym = r.last THEN 1 ELSE 0
    IN [r |-> Parsed([r EXCEPT !.reg = d.reg, !.last = d.sym], bit, inHand),
        ends |-> Append(Tail(r.raw), bit) = Flag /\ r.stage = "frame" /\ r.octets >= MinOctets]

Closed(got, frame) ==
    IF ~got.ends THEN outcome
    ELSE IF rx.whole /\ rx.octets = frame /\ txStage = "close" THEN "whole" ELSE "torn"

(* One bit goes out and comes in.                                          *)
Line(bit, inHand) ==
    LET sym == Coded(bit)
        on  == OnLine(sym)
        got == Received(rx, Flipped(on, turned), inHand)
    IN
    /\ symbol' = sym
    /\ txReg' = IF scrambled THEN Shifted(txReg, on) ELSE txReg
    /\ rx' = got.r
    /\ outcome' = Closed(got, sent)
    /\ UNCHANGED <<scrambled, noise, turned>>

----------------------------------------------------------------------------
(* Ax25GetTxBit()                                                          *)

Noise ==
    /\ txStage = "off" /\ noise < NoiseBits /\ noise' = noise + 1
    /\ \E line \in Bits : rx' = Received(rx, line, <<>>).r
    /\ UNCHANGED <<scrambled, txVars, turned, outcome>>

Keyed ==
    /\ txStage = "off" /\ txStage' = "header"
    /\ UNCHANGED <<scrambled, noise, octet, sent, ones, symbol, txReg, turned, rx, outcome>>

(* A bit of a flag; n flags are sent and the stage is then over.           *)
FlagBit(here, n, next) ==
    /\ txStage = here
    /\ Line(Flag[Len(octet) + 1], <<>>)
    /\ octet' = IF Len(octet) = 7 THEN <<>> ELSE Append(octet, Flag[Len(octet) + 1])
    /\ LET over == Len(octet) = 7 /\ sent + 1 = n IN
       /\ txStage' = IF over THEN next ELSE here
       /\ sent' = IF over THEN 0 ELSE IF Len(octet) = 7 THEN sent + 1 ELSE sent
    /\ UNCHANGED ones

Header == FlagBit("header", Flags, "data")
Trail  == FlagBit("tail", TailFlags, "done")

(* A bit of the frame; the choice is the frame's content, and its length.  *)
DataBit ==
    /\ txStage = "data" /\ ones < 5
    /\ \E bit \in Bits :
          LET bits == Append(octet, bit) IN
          /\ Line(bit, bits)
          /\ ones' = IF bit = 1 THEN ones + 1 ELSE 0
          /\ octet' = IF Len(bits) = 8 THEN <<>> ELSE bits
          /\ sent' = IF Len(bits) = 8 THEN sent + 1 ELSE sent
    /\ sent' <= MaxOctets
    /\ UNCHANGED txStage

Stuff ==
    /\ txStage = "data" /\ ones = 5
    /\ Line(0, <<>>) /\ ones' = 0
    /\ UNCHANGED <<txStage, octet, sent>>

(* The last octet is out, and so is a stuffed 0 after its five ones.       *)
FrameOver == txStage = "data" /\ octet = <<>> /\ sent >= MinOctets /\ ones < 5

Close ==
    /\ FrameOver /\ txStage' = "close"
    /\ UNCHANGED <<scrambled, noise, octet, sent, ones, symbol, txReg, turned, rx, outcome>>

(* The closing flag; sent still counts the frame's octets.                 *)
CloseBit ==
    /\ txStage = "close"
    /\ Line(Flag[Len(octet) + 1], <<>>)
    /\ octet' = IF Len(octet) = 7 THEN <<>> ELSE Append(octet, Flag[Len(octet) + 1])
    /\ txStage' = IF Len(octet) = 7 THEN "tail" ELSE "close"
    /\ sent' = IF Len(octet) = 7 THEN 0 ELSE sent
    /\ UNCHANGED ones

LineNext == Noise \/ Keyed \/ Header \/ DataBit \/ Stuff \/ Close \/ CloseBit \/ Trail

LineSpec == LineInit /\ [][LineNext]_lineVars

----------------------------------------------------------------------------
(* Whatever the receiver heard before, whichever way up the line is and    *)
(* whatever the octets are, once the closing flag is out the receiver has  *)
(* closed exactly the frame that was sent (ax25.c:1311-1503, 1170-1302).   *)
FrameWhole == txStage \in {"tail", "done"} => outcome = "whole"
=============================================================================
