------------------------------- MODULE RfGate -------------------------------
(***************************************************************************)
(* Who may put a frame on the transmit ring.  Every task of the station    *)
(* offers frames through send_tnc2_impl(): a look at the backlog, then,    *)
(* under a gate, a look at who owns the transmitter and the hand-over to   *)
(* the modem.  The LOOP TEST, run by the web server, takes the transmitter *)
(* for itself: it lets queued traffic out, inhibits PTT, goes full duplex, *)
(* sends one frame to itself and puts everything back.  The TX TEST is one *)
(* more sender.  The modem below is the ring, one frame in the air at a    *)
(* time, and its rebuild; TxChain has the detail.                          *)
(***************************************************************************)
EXTENDS Naturals, Sequences, FiniteSets

CONSTANTS Senders,   \* tasks that drop a frame rather than wait
          Beacon,    \* the beacon scheduler: s_beaconCtxTask
          Tester,    \* the web server's task
          Limit,     \* rf_tx_buffers, clamped
          RingSize,  \* AX25_TX_FRAME_RING_MAX
          MaxOffers, \* bound: frames offered in one behaviour
          MaxRuns    \* bound: loop tests and saves in one behaviour

Tasks == Senders \cup {Beacon, Tester}

ASSUME LimitAssumption == Limit \in Nat /\ RingSize \in Nat /\ Limit > 0 /\ Limit <= RingSize
ASSUME BoundAssumption == MaxOffers \in Nat /\ MaxRuns \in Nat
ASSUME TasksAssumption == IsFiniteSet(Senders)
ASSUME NamesAssumption ==
  Tester # Beacon /\ Tester \notin Senders /\ Beacon \notin Senders /\ "none" \notin Tasks

VARIABLES
  pc,       \* where each task is in send_tnc2_impl()
  gate,     \* s_rfTxGate: the task inside, or "none"
  owner,    \* s_rfTxOwner
  ring,     \* the transmit ring: the task that queued each frame, oldest first
  tx,       \* "idle", "frame" while the first frame is clocked out, "tail" after
  test,     \* where the LOOP TEST is
  inhibit,  \* PTT inhibit
  duplex,   \* full duplex
  offers, runs

vars == <<pc, gate, owner, ring, tx, test, inhibit, duplex, offers, runs>>

Init ==
  /\ pc = [t \in Tasks |-> "idle"]
  /\ gate = "none" /\ owner = "none"
  /\ ring = <<>> /\ tx = "idle"
  /\ test = "idle" /\ inhibit = FALSE /\ duplex = FALSE
  /\ offers = 0 /\ runs = 0

At(t, from, to) == pc[t] = from /\ pc' = [pc EXCEPT ![t] = to]

-----------------------------------------------------------------------------
(* send_tnc2_impl(); the modem-ready and duty-cycle refusals are the frames *)
(* nobody offers                                                            *)

\* Faulty variant: a full ring stops nobody.
HasRoomAlways == TRUE
HasRoom == Len(ring) < Limit

\* The frame is offered and the backlog looked at.
CheckBacklog(t) ==
  /\ IF t = Tester THEN test = "send" ELSE offers < MaxOffers
  /\ \/ HasRoom /\ At(t, "idle", "gate")
     \/ ~HasRoom /\ t = Beacon /\ At(t, "idle", "drain")
     \/ ~HasRoom /\ t # Beacon /\ At(t, "idle", "idle")
  /\ offers' = IF t = Tester THEN offers ELSE offers + 1
  /\ test' = IF t = Tester THEN (IF HasRoom THEN "sending" ELSE "wait") ELSE test
  /\ UNCHANGED <<gate, owner, ring, tx, inhibit, duplex, runs>>

\* The beacon task polls until there is room or RF_TX_DRAIN_WAIT_MS are over.
Drain(t) ==
  /\ At(t, "drain", IF HasRoom THEN "gate" ELSE "idle")
  /\ UNCHANGED <<gate, owner, ring, tx, test, inhibit, duplex, offers, runs>>

EnterGate(t) ==
  /\ gate = "none" /\ gate' = t
  /\ At(t, "gate", "owner")
  /\ UNCHANGED <<owner, ring, tx, test, inhibit, duplex, offers, runs>>

\* The frame is given up: the gate is released and the call returns.
Return(t) ==
  /\ gate' = "none"
  /\ test' = IF t = Tester THEN "wait" ELSE test

CheckOwner(t) ==
  /\ IF owner \in {"none", t}
       THEN At(t, "owner", "send") /\ UNCHANGED <<gate, test>>
       ELSE At(t, "owner", "idle") /\ Return(t)
  /\ UNCHANGED <<owner, ring, tx, inhibit, duplex, offers, runs>>

\* modem_send_tnc2(): the frame is queued, or the ring or its lock refuses it.
Send(t) ==
  /\ At(t, "send", "idle") /\ Return(t)
  /\ \/ Len(ring) < RingSize /\ ring' = Append(ring, t)
     \/ UNCHANGED ring
  /\ UNCHANGED <<owner, tx, inhibit, duplex, offers, runs>>

-----------------------------------------------------------------------------
(* The modem *)

\* Faulty variant: the ring is not looked at.
KeyUpUnchecked ==
  /\ tx = "idle" /\ tx' = "frame"
  /\ UNCHANGED <<pc, gate, owner, ring, test, inhibit, duplex, offers, runs>>
KeyUp ==
  /\ tx = "idle" /\ ring # <<>> /\ tx' = "frame"
  /\ UNCHANGED <<pc, gate, owner, ring, test, inhibit, duplex, offers, runs>>

Retire ==
  /\ tx = "frame" /\ tx' = "tail" /\ ring' = Tail(ring)
  /\ UNCHANGED <<pc, gate, owner, test, inhibit, duplex, offers, runs>>

KeyDown ==
  /\ tx = "tail" /\ tx' = "idle"
  /\ UNCHANGED <<pc, gate, owner, ring, test, inhibit, duplex, offers, runs>>

\* modem_set_modem(): the transmitter goes idle or is abandoned, and whatever
\* is on the ring is discarded.
\* Faulty variant: the ring survives.
RebuildKeepingRing == UNCHANGED ring /\ tx' = "idle"
Rebuild == ring' = <<>> /\ tx' = "idle"

\* A settings page is saved: the same task as the tester's.
Save ==
  /\ test = "idle" /\ runs < MaxRuns /\ runs' = runs + 1
  /\ Rebuild
  /\ UNCHANGED <<pc, gate, owner, test, inhibit, duplex, offers>>

-----------------------------------------------------------------------------
(* aprs_loop_test_run() *)

Step(from, to) == test = from /\ test' = to

\* Faulty variant: ownership changes without the gate.
GateOpenAlways == TRUE
GateOpen == gate = "none"

TakeTransmitter ==
  /\ Step("idle", "drain") /\ runs < MaxRuns /\ runs' = runs + 1
  /\ GateOpen
  /\ owner' = Tester
  /\ UNCHANGED <<pc, gate, ring, tx, inhibit, duplex, offers>>

TransmitterIdle == ring = <<>> /\ tx = "idle"

LetTrafficOut ==
  /\ TransmitterIdle /\ Step("drain", "inhibit")
  /\ UNCHANGED <<pc, gate, owner, ring, tx, inhibit, duplex, offers, runs>>

\* Faulty variant: the transmitter is kept when the test is given up.
KeptAfterGivingUp == Tester
AfterGivingUp == "none"

\* Faulty variant: the traffic that would not go out is thrown away.
GiveUpDiscarding ==
  /\ ~TransmitterIdle /\ Step("drain", "idle")
  /\ owner' = AfterGivingUp /\ Rebuild
  /\ UNCHANGED <<pc, gate, inhibit, duplex, offers, runs>>
GiveUp ==
  /\ ~TransmitterIdle /\ Step("drain", "idle")
  /\ owner' = AfterGivingUp
  /\ UNCHANGED <<pc, gate, ring, tx, inhibit, duplex, offers, runs>>

Inhibit ==
  /\ Step("inhibit", "duplex") /\ inhibit' = TRUE
  /\ UNCHANGED <<pc, gate, owner, ring, tx, duplex, offers, runs>>

GoDuplex ==
  /\ Step("duplex", "send") /\ duplex' = TRUE /\ Rebuild
  /\ UNCHANGED <<pc, gate, owner, inhibit, offers, runs>>

\* The frame was heard, or the wait for it timed out: the mode is put back,
\* then the inhibit lifted, then the transmitter handed back.
Restore ==
  /\ Step("wait", "lift") /\ duplex' = FALSE /\ Rebuild
  /\ UNCHANGED <<pc, gate, owner, inhibit, offers, runs>>

LiftInhibit ==
  /\ Step("lift", "free") /\ inhibit' = FALSE
  /\ UNCHANGED <<pc, gate, owner, ring, tx, duplex, offers, runs>>

HandBack ==
  /\ Step("free", "idle") /\ owner' = "none"
  /\ UNCHANGED <<pc, gate, ring, tx, inhibit, duplex, offers, runs>>

-----------------------------------------------------------------------------
Offer(t) == EnterGate(t) \/ CheckOwner(t) \/ Send(t)
Modem == KeyUp \/ Retire \/ KeyDown
LoopTest == \/ LetTrafficOut \/ GiveUp \/ Inhibit \/ GoDuplex
            \/ Restore \/ LiftInhibit \/ HandBack

Next == \/ \E t \in Tasks : CheckBacklog(t) \/ Drain(t) \/ Offer(t)
        \/ Modem \/ Save \/ TakeTransmitter \/ LoopTest

Spec == Init /\ [][Next]_vars

(* A task inside send_tnc2_impl() goes on, the queue of the gate is served in *)
(* turn, the modem runs and the web server's task, once in a test, goes on.   *)
Fairness == /\ \A t \in Tasks : /\ SF_vars(EnterGate(t))
                                /\ WF_vars(CheckOwner(t) \/ Send(t) \/ Drain(t))
            /\ WF_vars(Modem) /\ WF_vars(LoopTest) /\ WF_vars(CheckBacklog(Tester))

FairSpec == Spec /\ Fairness

-----------------------------------------------------------------------------
(* Properties *)

TestSteps == {"idle", "drain", "inhibit", "duplex", "send", "sending", "wait", "lift", "free"}

\* Type invariant: a frame is clocked out only while the ring holds it.
TypeOK ==
  /\ pc \in [Tasks -> {"idle", "drain", "gate", "owner", "send"}]
  /\ gate \in Tasks \cup {"none"} /\ owner \in {"none", Tester}
  /\ ring \in Seq(Tasks) /\ tx \in {"idle", "frame", "tail"} /\ (tx = "frame" => ring # <<>>)
  /\ test \in TestSteps /\ inhibit \in BOOLEAN /\ duplex \in BOOLEAN
  /\ offers \in Nat /\ runs \in Nat

OnlyFrom(t) == \A i \in 1 .. Len(ring) : ring[i] = t
NoneFrom(t) == \A i \in 1 .. Len(ring) : ring[i] # t

\* While PTT is inhibited or the modem in full duplex, the ring holds nothing
\* but the test's own frame: no real traffic is modulated into a silent
\* transmitter, or keyed up without channel access ("Without it a producer
\* could pass the check, be preempted ... and then queue its frame").
ForeignStaysOut == inhibit \/ duplex => OnlyFrom(Tester)

\* The test's frame is on the ring only while PTT is inhibited: the test "is
\* not a transmission", also when its wait times out with the frame queued.
TestStaysOffAir == ~inhibit => NoneFrom(Tester)

\* The loop test takes no frame of another task off the ring: "it is real
\* traffic, and the test must neither swallow it nor hear it back".
NothingSwallowed ==
  [][test # "idle" /\ ring' # ring =>
       \/ ring = <<>> \/ OnlyFrom(Tester)
       \/ \E t \in Tasks : ring' = Append(ring, t)
       \/ tx = "frame" /\ ring' = Tail(ring)]_vars

\* The look at the backlog and the hand-over are apart, so the ring may grow
\* past the limit, but by no more than one frame for each other task.
Overshoot == Len(ring) <= Limit + Cardinality(Tasks) - 1

\* What the gate keeps of the ring's content, whoever holds the transmitter.
GateSound == TypeOK /\ ForeignStaysOut /\ TestStaysOffAir /\ Overshoot

\* The transmitter taken for a test is handed back.
TransmitterReturned == owner = Tester ~> owner = "none"

\* "up to g_config.rf_tx_buffers frames may sit in the ring ... before a new
\* packet is dropped instead of queued" (send_tnc2_impl()).
BacklogWithinLimit == Len(ring) <= Limit
=============================================================================
