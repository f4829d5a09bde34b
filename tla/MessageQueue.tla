---------------------------- MODULE MessageQueue ----------------------------
(***************************************************************************)
(* The conversation queue of components/message/message.c and the tasks    *)
(* that share it.  s_queue, s_seq and the Reply-ACK table have no lock: a  *)
(* sender (the /msgchat handler, the Winlink machine), the two receive     *)
(* paths (aprs_rx for RF frames, igate_task for APRS-IS lines), the 1 Hz   *)
(* service tick that retries, and the scheduler task that answers ?APRSM   *)
(* all reach it.  Every shared read and every shared write that another    *)
(* task can get between is therefore a step of its own; only the claim of  *)
(* a message number is indivisible (s_msgIDLock).                          *)
(*                                                                         *)
(* Abstracted: the text of a frame (a model value), wall-clock time (an    *)
(* entry becomes due when more than msg_interval has passed since last_tx, *)
(* and a clock stepped backwards is left out), the channel choice of       *)
(* txPacket, the Telegram copy and the alarm pin.                          *)
(***************************************************************************)
EXTENDS Integers, FiniteSets

CONSTANTS
    QueueSize,       \* MSG_QUEUE_SIZE
    MaxId,           \* MSG_ID_MAX
    MsgRetry,        \* g_config.msg_retry, a uint8_t
    BurstMax,        \* MSG_QUERY_BURST_MAX
    ReplyStations,   \* MSG_REPLY_ACK_STATIONS
    Peers, Texts,    \* stations on the air, message texts
    Senders,         \* tasks inside sendAPRSMessage
    Receivers,       \* tasks inside handleIncomingAPRS
    Payloads,        \* texts sent, NoText for one sanitized to nothing
    NoCall,          \* an empty callsign
    NoText,          \* an empty text
    MaxClaims,       \* bound: messages this station originates
    MaxReceived,     \* bound: frames received
    MaxBursts,       \* bound: ?APRSM answers
    PeerNumbers,     \* numbers the stations give their messages, 0 for none
    Overtaken        \* bound: claims made while one send is in progress

ASSUME QueueAssumption == QueueSize \in Nat /\ QueueSize > 0
ASSUME ReplyAssumption == ReplyStations \in Nat /\ ReplyStations > 0
ASSUME IdAssumption == MaxId \in Nat /\ MaxId > 0
ASSUME RetryAssumption == MsgRetry \in Nat /\ MsgRetry <= 255
ASSUME PeerAssumption == \A n \in PeerNumbers : n \in Nat /\ n <= 65535
ASSUME BoundsAssumption ==
    BurstMax \in Nat /\ MaxClaims \in Nat /\ MaxReceived \in Nat /\ MaxBursts \in Nat /\ Overtaken \in Nat
ASSUME NamesAssumption ==
    /\ NoCall \notin Peers /\ NoText \notin Texts /\ Payloads \subseteq Texts \cup {NoText} /\ Senders \cap Receivers = {}

VARIABLES
    queue,      \* s_queue
    s_seq, s_msgID,
    replyAck,   \* s_replyAck
    replySeq,   \* s_replyAckSeq
    loc,        \* program counter and locals of each sender and receiver
    tick,       \* sendAPRSMessageRetry: program counter, index, loaded ack
    burst,      \* message_send_pending_to: addressee, index, frames sent
    due,        \* slots whose msg_interval has elapsed
    sent,       \* history: <<peer, number>> this station put on the air
    acked,      \* history: <<peer, number>> whose ack or rej was handled
    heard,      \* history: <<peer, number>> of the messages received
    budget,     \* history: retry allowance ever stored in each slot
    retried,    \* history: retry transmissions made from each slot
    claims, received, bursts    \* counters of the bounds

queueVars == <<queue, due, budget, retried, s_seq>>
replyVars == <<replyAck, replySeq>>
histVars  == <<sent, acked, heard>>
counters  == <<claims, received, bursts>>
vars == <<queueVars, s_msgID, replyVars, loc, tick, burst, histVars, counters>>

Slots == 1..QueueSize
Tasks == Senders \cup Receivers
Numbers == 0..MaxId

\* (int8_t)g_config.msg_retry, the conversion sendAPRSMessage applies.
Int8(n) == IF n > 127 THEN n - 256 ELSE n
InitialAck == IF MsgRetry = 0 THEN -2 ELSE Int8(MsgRetry)
\* reply_ack_t.mm holds two characters: strncpy keeps the first two digits.
TwoDigits(n) == IF n < 100 THEN n ELSE IF n < 1000 THEN n \div 10
                ELSE IF n < 10000 THEN n \div 100 ELSE n \div 1000
Positive(n) == IF n > 0 THEN n ELSE 0

NoEntry == [used |-> FALSE, seq |-> 0, id |-> 0, ack |-> 0, rxtx |-> FALSE,
            group |-> FALSE, call |-> NoCall, text |-> NoText]
Idle == [pc |-> "idle", call |-> NoCall, text |-> NoText, id |-> 0, ack |-> 0,
         owed |-> 0, rxtx |-> FALSE, group |-> FALSE, slot |-> 1, row |-> 1,
         seq |-> 0, over |-> 0]

Init ==
    /\ queue = [i \in Slots |-> NoEntry]
    /\ s_seq = 0 /\ s_msgID = 0
    /\ replyAck = [i \in 1..ReplyStations |-> [call |-> NoCall, mm |-> 0, seq |-> 0]]
    /\ replySeq = 0
    /\ loc = [t \in Tasks |-> Idle]
    /\ tick = [pc |-> "idle", i |-> 1, ack |-> 0]
    /\ burst = [call |-> NoCall, i |-> 1, n |-> 0]
    /\ due = {} /\ sent = {} /\ acked = {} /\ heard = {}
    /\ budget = [i \in Slots |-> 0] /\ retried = [i \in Slots |-> 0]
    /\ claims = 0 /\ received = 0 /\ bursts = 0

(***************************************************************************)
(* Lookups                                                                 *)
(***************************************************************************)
\* The first slot that satisfies a test, 0 when none does.
First(S) == IF S = {} THEN 0 ELSE CHOOSE i \in S : \A j \in S : i <= j

Find(call, id, rxtx) ==
    First({i \in Slots : queue[i].used /\ queue[i].id = id
                         /\ queue[i].rxtx = rxtx /\ queue[i].call = call})

FindRepeat(m) ==
    First({i \in Slots : queue[i].used /\ queue[i].rxtx = m.rxtx
                         /\ queue[i].id = m.id /\ queue[i].group = m.group
                         /\ queue[i].call = m.call /\ queue[i].text = m.text})

\* Faulty variant: the newest message is pushed out instead of the oldest.
EvictNewest ==
    LET free == {i \in Slots : ~queue[i].used}
    IN  IF free # {} THEN First(free)
        ELSE First({i \in Slots : \A j \in Slots : queue[i].seq >= queue[j].seq})

\* A free slot while there is one, otherwise the lowest insertion counter.
EvictSlot ==
    LET free == {i \in Slots : ~queue[i].used}
    IN  IF free # {} THEN First(free)
        ELSE First({i \in Slots : \A j \in Slots : queue[i].seq <= queue[j].seq})

\* The Reply-ACK row of a station: its own, the first empty one, or the one
\* written longest ago.
ReplySlot(call) ==
    LET rows == 1..ReplyStations
        mine == {i \in rows : replyAck[i].call \in {call, NoCall}}
    IN  IF mine # {} THEN First(mine)
        ELSE First({i \in rows : \A j \in rows : replyAck[i].seq <= replyAck[j].seq})

SetEntry(i, e) == queue' = [queue EXCEPT ![i] = e]
Become(t, r) == loc' = [loc EXCEPT ![t] = r]
Goto(t, pc) == Become(t, [loc[t] EXCEPT !.pc = pc])

(***************************************************************************)
(* sendAPRSMessage.  The number is claimed under the spinlock, the frame   *)
(* goes out, and only then is the message filed.                           *)
(***************************************************************************)
\* Faulty variant: the test for the wrap is the wrong way round.
NextIdTurned == IF s_msgID + 1 > MaxId THEN s_msgID + 1 ELSE 1
NextId == IF s_msgID + 1 > MaxId THEN 1 ELSE s_msgID + 1

NewMessage(p, m) ==
    [Idle EXCEPT !.pc = "transmit", !.call = p, !.text = m, !.id = NextId]

Claim(t) ==
    /\ loc[t].pc = "idle" /\ claims < MaxClaims
    /\ \A u \in Senders : loc[u].pc # "idle" => loc[u].over < Overtaken
    /\ \E p \in Peers, m \in Payloads :
         loc' = [u \in Tasks |->
                   IF u = t THEN NewMessage(p, m)
                   ELSE IF u \in Senders /\ loc[u].pc # "idle"
                        THEN [loc[u] EXCEPT !.over = @ + 1] ELSE loc[u]]
    /\ s_msgID' = NextId
    /\ claims' = claims + 1
    /\ UNCHANGED <<queueVars, replyVars, tick, burst, histVars, received, bursts>>

\* txPacket: the first transmission.  A text that sanitizeOutgoingText left
\* empty is transmitted and then refused by pkgMsgStore.
Transmit(t) ==
    /\ loc[t].pc = "transmit"
    /\ sent' = sent \cup {<<loc[t].call, loc[t].id>>}
    /\ acked' = acked \ {<<loc[t].call, loc[t].id>>}
    /\ Goto(t, IF loc[t].text = NoText THEN "idle" ELSE "pick")
    /\ UNCHANGED <<queueVars, s_msgID, replyVars, tick, burst, heard, counters>>

(***************************************************************************)
(* pkgMsgStore, from a sender and from a receiver.  The slot is picked,    *)
(* the insertion counter is read, then the fields are written in the       *)
(* order of the source: number and state first, callsign and text last.    *)
(***************************************************************************)
Pick(t) ==
    /\ loc[t].pc = "pick"
    /\ Become(t, [loc[t] EXCEPT !.pc = "count", !.slot = EvictSlot])
    /\ UNCHANGED <<queueVars, s_msgID, replyVars, tick, burst, histVars, counters>>

Count(t) ==
    /\ loc[t].pc = "count"
    /\ Become(t, [loc[t] EXCEPT !.pc = "head", !.seq = s_seq])
    /\ UNCHANGED <<queueVars, s_msgID, replyVars, tick, burst, histVars, counters>>

EntryHead(m, a) ==
    [used |-> TRUE, seq |-> m.seq + 1, id |-> m.id, ack |-> a, rxtx |-> m.rxtx,
     group |-> m.group, call |-> queue[m.slot].call, text |-> queue[m.slot].text]

StoreHead(t) ==
    /\ loc[t].pc = "head"
    /\ LET m == loc[t]
           a == IF t \in Senders THEN InitialAck ELSE -1
       IN  /\ s_seq' = m.seq + 1
           /\ SetEntry(m.slot, EntryHead(m, a))
           /\ budget' = [budget EXCEPT ![m.slot] = @ + Positive(a)]
           /\ due' = due \ {m.slot}
    /\ Goto(t, "body")
    /\ UNCHANGED <<retried, s_msgID, replyVars, tick, burst, histVars, counters>>

StoreBody(t) ==
    /\ loc[t].pc = "body"
    /\ LET i == loc[t].slot
       IN  SetEntry(i, [queue[i] EXCEPT !.call = loc[t].call, !.text = loc[t].text])
    /\ Goto(t, IF t \in Senders THEN "idle" ELSE "answer")
    /\ UNCHANGED <<due, budget, retried, s_seq, s_msgID, replyVars, tick, burst,
                   histVars, counters>>

(***************************************************************************)
(* handleIncomingAPRS                                                      *)
(***************************************************************************)
\* An "ack" or a "rej": a station answers a number it has heard, as often as
\* it likes (a repeated or a delayed acknowledgement).
ReceiveAck(t) ==
    /\ loc[t].pc = "idle" /\ received < MaxReceived
    /\ \E x \in sent, a \in {-2, -3} :
         Become(t, [Idle EXCEPT !.pc = "find", !.call = x[1], !.owed = x[2], !.ack = a])
    /\ received' = received + 1
    /\ UNCHANGED <<queueVars, s_msgID, replyVars, tick, burst, histVars, claims, bursts>>

\* A direct or a group message, numbered (id > 0) or not, that may carry a
\* free acknowledgement (owed > 0), which a group message never does.
ReceivedMessage(p, m, id, group, owed) ==
    [Idle EXCEPT !.pc = IF owed > 0 THEN "find" ELSE "file", !.call = p, !.text = m,
                 !.id = id, !.ack = -2, !.owed = owed, !.rxtx = TRUE, !.group = group]

ReceiveMessage(t) ==
    /\ loc[t].pc = "idle" /\ received < MaxReceived
    /\ \E p \in Peers, m \in Texts, id \in PeerNumbers, group \in BOOLEAN,
          owed \in {0} \cup {x[2] : x \in sent} :
         /\ owed > 0 => ~group /\ <<p, owed>> \in sent
         /\ Become(t, ReceivedMessage(p, m, id, group, owed))
         /\ heard' = heard \cup {<<p, id>>}
    /\ received' = received + 1
    /\ UNCHANGED <<queueVars, s_msgID, replyVars, tick, burst, sent, acked, claims, bursts>>

\* After an acknowledgement: done with an "ack" frame, on to the text of a message.
AckDone(t) ==
    /\ acked' = acked \cup {<<loc[t].call, loc[t].owed>>}
    /\ Goto(t, IF loc[t].rxtx THEN "file" ELSE "idle")

FindAcked(t) ==
    /\ loc[t].pc = "find"
    /\ LET i == Find(loc[t].call, loc[t].owed, FALSE) IN
       \/ /\ i = 0 /\ AckDone(t)
       \/ /\ i # 0 /\ UNCHANGED acked
          /\ Become(t, [loc[t] EXCEPT !.pc = "mark", !.slot = i])
    /\ UNCHANGED <<queueVars, s_msgID, replyVars, tick, burst, sent, heard, counters>>

MarkAcked(t) ==
    /\ loc[t].pc = "mark"
    /\ LET i == loc[t].slot IN SetEntry(i, [queue[i] EXCEPT !.ack = loc[t].ack])
    /\ AckDone(t)
    /\ UNCHANGED <<due, budget, retried, s_seq, s_msgID, replyVars, tick, burst, sent, heard, counters>>

\* The observer (the Winlink machine) may take the message; otherwise a copy
\* of one in the history is left out and anything else is stored.
File(t) ==
    /\ loc[t].pc = "file"
    /\ \/ Goto(t, "answer")                                     \* consumed
       \/ Goto(t, IF FindRepeat(loc[t]) = 0 THEN "pick" ELSE "answer")
    /\ UNCHANGED <<queueVars, s_msgID, replyVars, tick, burst, histVars, counters>>

\* A direct numbered message is acknowledged, whatever became of it, and its
\* number is remembered as owed: replyAckRemember picks a row, writes the
\* callsign, then the number.
Answer(t) ==
    /\ loc[t].pc = "answer"
    /\ Become(t, [loc[t] EXCEPT !.pc = IF ~loc[t].group /\ loc[t].id > 0
                                       THEN "owe_call" ELSE "idle",
                                !.row = ReplySlot(loc[t].call)])
    /\ UNCHANGED <<queueVars, s_msgID, replyVars, tick, burst, histVars, counters>>

OweCall(t) ==
    /\ loc[t].pc = "owe_call"
    /\ replyAck' = [replyAck EXCEPT ![loc[t].row] = [@ EXCEPT !.call = loc[t].call]]
    /\ Goto(t, "owe_number")
    /\ UNCHANGED <<queueVars, s_msgID, replySeq, tick, burst, histVars, counters>>

OweNumber(t) ==
    /\ loc[t].pc = "owe_number"
    /\ replyAck' = [replyAck EXCEPT ![loc[t].row] =
                       [@ EXCEPT !.mm = TwoDigits(loc[t].id), !.seq = replySeq + 1]]
    /\ replySeq' = replySeq + 1
    /\ Goto(t, "idle")
    /\ UNCHANGED <<queueVars, s_msgID, tick, burst, histVars, counters>>

(***************************************************************************)
(* sendAPRSMessageRetry: one pass of the 1 Hz tick over the slots.  The    *)
(* state is loaded by the test and written by the decrement; the compiler  *)
(* may keep the loaded value or read the field again.                      *)
(***************************************************************************)
RetryStart ==
    /\ tick.pc = "idle"
    /\ tick' = [tick EXCEPT !.pc = "check", !.i = 1]
    /\ UNCHANGED <<queueVars, s_msgID, replyVars, loc, burst, histVars, counters>>

\* Faulty variant: the last retry is never made.
RetryDueButLast(i) == queue[i].used /\ queue[i].ack > 1 /\ i \in due
RetryDue(i) == queue[i].used /\ queue[i].ack > 0 /\ i \in due
\* Faulty variant: the pass runs one slot past the end of the queue.
RetryNextPastEnd == IF tick.i = QueueSize + 1 THEN [tick EXCEPT !.pc = "idle"]
                    ELSE [tick EXCEPT !.pc = "check", !.i = @ + 1]
RetryNext == IF tick.i = QueueSize THEN [tick EXCEPT !.pc = "idle"]
             ELSE [tick EXCEPT !.pc = "check", !.i = @ + 1]

RetryCheck ==
    /\ tick.pc = "check"
    /\ tick' = IF RetryDue(tick.i)
               THEN [tick EXCEPT !.pc = "decrement", !.ack = queue[tick.i].ack]
               ELSE RetryNext
    /\ UNCHANGED <<queueVars, s_msgID, replyVars, loc, burst, histVars, counters>>

\* Faulty variant: the last retry is never used up.
RetryDecrementClamped ==
    /\ tick.pc = "decrement"
    /\ queue' = [queue EXCEPT ![tick.i].ack = IF tick.ack > 1 THEN tick.ack - 1 ELSE tick.ack]
    /\ due' = due \ {tick.i}
    /\ tick' = [tick EXCEPT !.pc = "transmit"]
    /\ UNCHANGED <<budget, retried, s_seq, s_msgID, replyVars, loc, burst, histVars, counters>>

RetryDecrement ==
    /\ tick.pc = "decrement"
    /\ \E old \in {tick.ack, queue[tick.i].ack} :
         /\ SetEntry(tick.i, [queue[tick.i] EXCEPT !.ack = old - 1])
         /\ due' = IF old - 1 > 0 THEN due \ {tick.i} ELSE due
    /\ tick' = [tick EXCEPT !.pc = "transmit"]
    /\ UNCHANGED <<budget, retried, s_seq, s_msgID, replyVars, loc, burst, histVars, counters>>

\* The frame is built from what the slot holds by now.
RetryTransmit ==
    /\ tick.pc = "transmit"
    /\ retried' = [retried EXCEPT ![tick.i] = @ + 1]
    /\ sent' = sent \cup {<<queue[tick.i].call, queue[tick.i].id>>}
    /\ tick' = RetryNext
    /\ UNCHANGED <<queue, due, budget, s_seq, s_msgID, replyVars, loc, burst,
                   acked, heard, counters>>

\* More than msg_interval has passed since the entry's last transmission.
TimePasses(i) ==
    /\ queue[i].used /\ queue[i].ack > 0 /\ i \notin due
    /\ due' = due \cup {i}
    /\ UNCHANGED <<queue, budget, retried, s_seq, s_msgID, replyVars, loc, tick,
                   burst, histVars, counters>>

(***************************************************************************)
(* message_send_pending_to: the answer to ?APRSM, at most BurstMax frames. *)
(***************************************************************************)
BurstStart ==
    /\ burst.call = NoCall /\ bursts < MaxBursts
    /\ \E p \in Peers : burst' = [call |-> p, i |-> 1, n |-> 0]
    /\ bursts' = bursts + 1
    /\ UNCHANGED <<queueVars, s_msgID, replyVars, loc, tick, histVars, claims, received>>

Pending(i) == queue[i].used /\ ~queue[i].rxtx /\ queue[i].ack > 0

BurstStep ==
    /\ burst.call # NoCall
    /\ LET i == burst.i
           hit == Pending(i) /\ queue[i].call = burst.call /\ burst.n < BurstMax
       IN  /\ sent' = IF hit THEN sent \cup {<<burst.call, queue[i].id>>} ELSE sent
           /\ burst' = IF i = QueueSize THEN [call |-> NoCall, i |-> 1, n |-> 0]
                       ELSE [burst EXCEPT !.i = i + 1, !.n = IF hit THEN @ + 1 ELSE @]
    /\ UNCHANGED <<queueVars, s_msgID, replyVars, loc, tick, acked, heard, counters>>

Store(t) == Pick(t) \/ Count(t) \/ StoreHead(t) \/ StoreBody(t)
Send(t) == Claim(t) \/ Transmit(t) \/ Store(t)
Receive(t) == \/ ReceiveAck(t) \/ ReceiveMessage(t) \/ FindAcked(t) \/ MarkAcked(t)
              \/ File(t) \/ Store(t) \/ Answer(t) \/ OweCall(t) \/ OweNumber(t)
Retry == RetryStart \/ RetryCheck \/ RetryDecrement \/ RetryTransmit
Burst == BurstStart \/ BurstStep

Next == \/ \E t \in Senders : Send(t)
        \/ \E t \in Receivers : Receive(t)
        \/ Retry \/ Burst
        \/ \E i \in Slots : TimePasses(i)

Spec == Init /\ [][Next]_vars
\* The tick runs every second and the clock advances.
FairSpec == Spec /\ WF_vars(Retry) /\ \A i \in Slots : WF_vars(TimePasses(i))

(***************************************************************************)
(* Properties                                                              *)
(***************************************************************************)
EntryType == [used : BOOLEAN, seq : Nat, id : Nat, ack : Int, rxtx : BOOLEAN,
              group : BOOLEAN, call : Peers \cup {NoCall}, text : Texts \cup {NoText}]
Pcs == {"idle", "transmit", "pick", "count", "head", "body", "find", "mark",
        "file", "answer", "owe_call", "owe_number"}
LocType == [pc : Pcs, call : Peers \cup {NoCall}, text : Texts \cup {NoText},
            id : Nat, ack : {-3, -2, 0}, owed : Nat, rxtx : BOOLEAN, group : BOOLEAN,
            slot : Slots, row : 1..ReplyStations, seq : Nat, over : Nat]

ReplyType == [call : Peers \cup {NoCall}, mm : Nat, seq : Nat]
TickType == [pc : {"idle", "check", "decrement", "transmit"}, i : Slots, ack : Int]

\* Type invariant of the module.
TypeOK ==
    /\ queue \in [Slots -> EntryType] /\ due \in SUBSET Slots
    /\ budget \in [Slots -> Nat] /\ retried \in [Slots -> Nat]
    /\ s_seq \in Nat /\ s_msgID \in Numbers
    /\ replyAck \in [1..ReplyStations -> ReplyType]
    /\ replySeq \in Nat
    /\ loc \in [Tasks -> LocType]
    /\ tick \in TickType
    /\ burst \in [call : Peers \cup {NoCall}, i : Slots, n : Nat]
    /\ sent \in SUBSET ((Peers \cup {NoCall}) \X Nat)
    /\ claims \in Nat /\ received \in Nat /\ bursts \in Nat

\* The retry timer never transmits more often than the sends paid for: however
\* stores, acknowledgements and the unlocked decrement of the tick interleave,
\* the retransmissions made from a slot stay within the retry counts stored in
\* it (sendAPRSMessageRetry against pkgMsgStore and handleIncomingAPRS).
RetryBudget == \A i \in Slots : retried[i] <= budget[i]

\* The message queue stays well formed, its retry timer inside its budget.
QueueSound == TypeOK /\ RetryBudget

\* An acknowledgement names one message: two outbound messages of the queue to
\* the same station never carry the same number, though numbers wrap at
\* MSG_ID_MAX and a sender may be overtaken by others before it files its own.
AckNamesOneMessage ==
    \A i, j \in Slots :
        /\ i # j /\ queue[i].used /\ queue[j].used
        /\ ~queue[i].rxtx /\ ~queue[j].rxtx /\ queue[i].call = queue[j].call
        => queue[i].id # queue[j].id

\* Every pending message is settled in the end: acknowledged, rejected,
\* exhausted or pushed out (the tick's decrement always makes progress).
EveryMessageSettles ==
    \A i \in Slots : (queue[i].used /\ queue[i].ack > 0) ~> ~(queue[i].used /\ queue[i].ack > 0)

\* What the ack branch of handleIncomingAPRS promises: a message that has been
\* acknowledged stops being retried, so no pending entry of the queue is one
\* whose acknowledgement was handled.
AckStopsRetry ==
    \A i \in Slots : Pending(i) => <<queue[i].call, queue[i].id>> \notin acked

\* pkgMsgStore gives every message a slot of its own: two tasks never write
\* the same slot at the same time.
SlotOfItsOwn ==
    \A t, u \in Tasks : /\ t # u /\ loc[t].pc \in {"count", "head", "body"}
                        /\ loc[u].pc \in {"count", "head", "body"}
                        => loc[t].slot # loc[u].slot

\* A received message is in the history once, not once per copy heard.
OneLinePerMessage ==
    \A i, j \in Slots : i # j /\ queue[i].used /\ queue[j].used /\ queue[i].rxtx /\ queue[j].rxtx
        => \/ queue[i].call # queue[j].call \/ queue[i].text # queue[j].text
           \/ queue[i].id # queue[j].id \/ queue[i].group # queue[j].group

\* The acknowledgement owed to a station is a number that station sent.
OwedWasHeard ==
    \A i \in 1..ReplyStations :
        replyAck[i].mm > 0 => <<replyAck[i].call, replyAck[i].mm>> \in heard

\* A message given up on was retransmitted msg_retry times: none is filed as
\* already settled while it has retries left.
RetriesBeforeGivingUp ==
    \A i \in Slots : queue[i].used /\ ~queue[i].rxtx
        /\ <<queue[i].call, queue[i].id>> \notin acked /\ queue[i].ack <= 0
        => retried[i] + (IF tick.pc = "transmit" /\ tick.i = i THEN 1 ELSE 0) >= MsgRetry
=============================================================================
