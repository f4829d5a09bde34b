--------------------------- MODULE Station_proofs --------------------------
(***************************************************************************)
(* Proofs about what the station keeps of its own: the message queue's     *)
(* types and the bound on its retransmissions (MessageQueue), for queues,  *)
(* number ranges, stations and task sets of any size; the settings through *)
(* saves, failures and boots (SettingsFiles), for any callsigns and number *)
(* of posts; and the session with the APRS-IS server that is to be on what *)
(* was saved (IsUplink), for any number of server slots, set of filters    *)
(* and number of saves, bring-ups and network changes.                     *)
(*                                                                         *)
(* NoLostRequest is inductive together with PromisedInv: what a page has   *)
(* promised is never newer than what it stored, so the attempt's copy,     *)
(* made under the lock, is current.  The live filter update writes into an *)
(* open session only (TalkInv).                                            *)
(***************************************************************************)
EXTENDS MessageQueue, SettingsFiles, IsUplink, WellFoundedInduction, TLAPS

(***************************************************************************)
(* The searches of the code pick the first slot of a table, or the slot    *)
(* with the lowest counter, and both exist.                                *)
(***************************************************************************)

\* A non-empty set of naturals has a least element.
LEMMA LeastElement ==
    ASSUME NEW T \in SUBSET Nat, T # {}
    PROVE  \E x \in T : \A y \in T : x <= y
<1>. DEFINE R == {p \in Nat \X Nat : p[1] < p[2]}
<1>1. IsWellFoundedOn(R, Nat)
      BY NatLessThanWellFounded, Zenon DEF OpToRel
<1>2. PICK x \in T : \A y \in T : ~(<<y, x>> \in R)
      <2>. HIDE DEF R
      <2>. QED BY <1>1, WFMin
<1>3. \A y \in T : ~(y < x)
      BY <1>2
<1>. QED BY <1>3

\* A table of counters has a row whose counter is lowest.
LEMMA LeastRow ==
    ASSUME NEW S, S # {}, NEW f, \A i \in S : f[i] \in Nat
    PROVE  \E i \in S : \A j \in S : f[i] <= f[j]
<1>. DEFINE T == {f[i] : i \in S}
<1>1. T \in SUBSET Nat /\ T # {}
      OBVIOUS
<1>2. PICK x \in T : \A y \in T : x <= y
      BY <1>1, LeastElement
<1>. QED BY <1>2

\* The first element of a non-empty set of slots is in the set.
LEMMA FirstInSet ==
    ASSUME NEW S \in SUBSET Nat, S # {}
    PROVE  First(S) \in S
BY LeastElement DEF First

\* The slots are naturals and there is a first one.
LEMMA SlotsType == Slots \in SUBSET Nat /\ Slots # {} /\ 1 \in Slots
BY QueueAssumption DEF Slots

\* A loop over the queue that has not reached the last slot stays in range.
LEMMA NextSlot == \A i \in Slots : i # QueueSize => i + 1 \in Slots
BY QueueAssumption DEF Slots

\* pkgMsgEvictSlot returns a slot of the queue.
LEMMA EvictSlotType ==
    ASSUME TypeOK
    PROVE  EvictSlot \in Slots
<1>. DEFINE free == {i \in Slots : ~queue[i].used}
            low == {i \in Slots : \A j \in Slots : queue[i].seq <= queue[j].seq}
            f == [i \in Slots |-> queue[i].seq]
<1>1. Slots \in SUBSET Nat /\ Slots # {}
      BY SlotsType
<1>2. \A i \in Slots : f[i] \in Nat
      BY DEF TypeOK, EntryType
<1>3. low # {}
      <2>1. \E i \in Slots : \A j \in Slots : f[i] <= f[j]
            <3>. HIDE DEF f
            <3>. QED BY <1>1, <1>2, LeastRow
      <2>. QED BY <2>1
<1>4. free # {} => First(free) \in Slots
      BY <1>1, FirstInSet
<1>5. First(low) \in Slots
      BY <1>1, <1>3, FirstInSet
<1>. QED BY <1>4, <1>5 DEF EvictSlot

\* replyAckRemember picks a row of its table.
LEMMA ReplySlotType ==
    ASSUME TypeOK, NEW c
    PROVE  ReplySlot(c) \in 1..ReplyStations
<1>. DEFINE rows == 1..ReplyStations
            mine == {i \in rows : replyAck[i].call \in {c, NoCall}}
            low == {i \in rows : \A j \in rows : replyAck[i].seq <= replyAck[j].seq}
            f == [i \in rows |-> replyAck[i].seq]
<1>1. rows \in SUBSET Nat /\ rows # {}
      <2>1. 1 \in rows
            BY ReplyAssumption
      <2>2. \A i \in rows : i \in Nat
            BY ReplyAssumption
      <2>. HIDE DEF rows
      <2>. QED BY <2>1, <2>2
<1>2. \A i \in rows : f[i] \in Nat
      BY DEF TypeOK, ReplyType
<1>3. low # {}
      <2>1. \E i \in rows : \A j \in rows : f[i] <= f[j]
            <3>. HIDE DEF f
            <3>. QED BY <1>1, <1>2, LeastRow
      <2>. QED BY <2>1
<1>4. mine # {} => First(mine) \in rows
      BY <1>1, FirstInSet
<1>5. First(low) \in rows
      BY <1>1, <1>3, FirstInSet
<1>. QED BY <1>4, <1>5 DEF ReplySlot

\* A claimed number is one of the range, also past the wrap.
LEMMA NextIdType ==
    ASSUME s_msgID \in Numbers
    PROVE  NextId \in Numbers /\ NextId \in Nat
BY IdAssumption DEF NextId, Numbers

\* A task's locals keep their types when its program counter moves on, alone
\* or with one of the other locals.
LEMMA LocMove ==
    ASSUME NEW r \in LocType, NEW p \in Pcs
    PROVE  [r EXCEPT !.pc = p] \in LocType
BY DEF LocType
\* A task may note any slot.
LEMMA LocSlot ==
    ASSUME NEW r \in LocType, NEW p \in Pcs, NEW i \in Slots
    PROVE  [r EXCEPT !.pc = p, !.slot = i] \in LocType
BY DEF LocType
\* A task may note any row of the Reply-ACK table.
LEMMA LocRow ==
    ASSUME NEW r \in LocType, NEW p \in Pcs, NEW i \in 1..ReplyStations
    PROVE  [r EXCEPT !.pc = p, !.row = i] \in LocType
BY DEF LocType
\* A task may note any insertion number.
LEMMA LocSeq ==
    ASSUME NEW r \in LocType, NEW p \in Pcs, NEW n \in Nat
    PROVE  [r EXCEPT !.pc = p, !.seq = n] \in LocType
BY DEF LocType
\* A task may count one more claim that overtook it.
LEMMA LocOver ==
    ASSUME NEW r \in LocType
    PROVE  [r EXCEPT !.over = @ + 1] \in LocType
BY DEF LocType

\* Replacing one task's locals keeps the type of all.
LEMMA LocsUpdate ==
    ASSUME loc \in [Tasks -> LocType], NEW t \in Tasks, NEW r \in LocType, Become(t, r)
    PROVE  loc' \in [Tasks -> LocType]
BY DEF Become

\* The same for an entry of the queue.
LEMMA EntryAck ==
    ASSUME NEW e \in EntryType, NEW a \in Int
    PROVE  [e EXCEPT !.ack = a] \in EntryType
BY DEF EntryType
\* Writing the body of an entry keeps its type.
LEMMA EntryBody ==
    ASSUME NEW e \in EntryType, NEW c \in Peers \cup {NoCall}, NEW x \in Texts \cup {NoText}
    PROVE  [e EXCEPT !.call = c, !.text = x] \in EntryType
BY DEF EntryType
\* The head a task writes is one of an entry.
LEMMA EntryHeadType ==
    ASSUME queue \in [Slots -> EntryType], NEW m, NEW a \in Int, m.slot \in Slots,
           m.seq \in Nat, m.id \in Nat, m.rxtx \in BOOLEAN, m.group \in BOOLEAN
    PROVE  EntryHead(m, a) \in EntryType
<1>1. queue[m.slot] \in EntryType
      OBVIOUS
<1>2. queue[m.slot].call \in Peers \cup {NoCall} /\ queue[m.slot].text \in Texts \cup {NoText}
      BY <1>1 DEF EntryType
<1>. QED BY <1>2 DEF EntryHead, EntryType
\* Replacing one entry keeps the type of the queue.
LEMMA QueueUpdate ==
    ASSUME queue \in [Slots -> EntryType], NEW i \in Slots, NEW e \in EntryType, SetEntry(i, e)
    PROVE  queue' \in [Slots -> EntryType]
BY DEF SetEntry
\* What is kept of a number is a number.
LEMMA TwoDigitsType ==
    ASSUME NEW n \in Nat
    PROVE  TwoDigits(n) \in Nat
BY DEF TwoDigits

\* The types hold at boot.
LEMMA InitType == Init => TypeOK
<1>. SUFFICES ASSUME Init
              PROVE  TypeOK
     OBVIOUS
<1>1. 1 \in 1..ReplyStations
      BY ReplyAssumption
<1>2. Idle \in LocType
      BY <1>1, SlotsType DEF Idle, LocType, Pcs
<1>3. NoEntry \in EntryType
      BY DEF NoEntry, EntryType
<1>4. 0 \in Numbers
      BY IdAssumption DEF Numbers
<1>. QED BY <1>2, <1>3, <1>4, SlotsType DEF Init, TypeOK, ReplyType, TickType

\* Every step keeps the types.
LEMMA NextType == TypeOK /\ [Next]_vars => TypeOK'
<1>. SUFFICES ASSUME TypeOK, [Next]_vars
              PROVE  TypeOK'
     OBVIOUS
<1>. USE DEF TypeOK, queueVars, replyVars, histVars, counters
<1>0. \A t \in Tasks : loc[t] \in LocType
      OBVIOUS
<1>i. Idle \in LocType
      <2>1. 1 \in 1..ReplyStations
            BY ReplyAssumption
      <2>. QED BY <2>1, SlotsType DEF Idle, LocType, Pcs
<1>1. ASSUME NEW t \in Senders, Claim(t)
      PROVE  TypeOK'
      <2>1. NextId \in Numbers /\ NextId \in Nat
            BY NextIdType
      <2>2. \A p \in Peers, m \in Payloads : NewMessage(p, m) \in LocType
            BY <1>i, <2>1, NamesAssumption DEF NewMessage, LocType, Pcs
      <2>3. \A u \in Tasks : [loc[u] EXCEPT !.over = @ + 1] \in LocType
            BY <1>0, LocOver
      <2>4. loc' \in [Tasks -> LocType]
            BY <1>1, <1>0, <2>2, <2>3 DEF Claim
      <2>5. /\ s_msgID' = NextId /\ claims' = claims + 1
            /\ UNCHANGED <<queueVars, replyVars, tick, burst, histVars, received, bursts>>
            BY <1>1 DEF Claim
      <2>. QED BY <2>1, <2>4, <2>5
<1>2. ASSUME NEW t \in Senders, Transmit(t)
      PROVE  TypeOK'
      <2>. t \in Tasks
           BY DEF Tasks
      <2>1. loc' \in [Tasks -> LocType]
            BY <1>2, <1>0, LocMove, LocsUpdate DEF Transmit, Goto, Pcs
      <2>2. <<loc[t].call, loc[t].id>> \in (Peers \cup {NoCall}) \X Nat
            BY <1>0 DEF LocType
      <2>. QED BY <1>2, <2>1, <2>2 DEF Transmit
<1>3. ASSUME NEW t \in Tasks, Pick(t)
      PROVE  TypeOK'
      <2>1. loc' \in [Tasks -> LocType]
            BY <1>3, <1>0, EvictSlotType, LocSlot, LocsUpdate DEF Pick, Pcs
      <2>. QED BY <1>3, <2>1 DEF Pick
<1>4. ASSUME NEW t \in Tasks, Count(t)
      PROVE  TypeOK'
      <2>1. loc' \in [Tasks -> LocType]
            BY <1>4, <1>0, LocSeq, LocsUpdate DEF Count, Pcs
      <2>. QED BY <1>4, <2>1 DEF Count
<1>5. ASSUME NEW t \in Tasks, StoreHead(t)
      PROVE  TypeOK'
      <2>. DEFINE m == loc[t]
                  a == IF t \in Senders THEN InitialAck ELSE -1
      <2>1. loc' \in [Tasks -> LocType]
            BY <1>5, <1>0, LocMove, LocsUpdate DEF StoreHead, Goto, Pcs
      <2>2. m.seq \in Nat /\ m.slot \in Slots /\ m.id \in Nat
            /\ m.rxtx \in BOOLEAN /\ m.group \in BOOLEAN
            BY <1>0 DEF LocType
      <2>3. a \in Int /\ Positive(a) \in Nat
            BY RetryAssumption DEF InitialAck, Int8, Positive
      <2>4. /\ SetEntry(m.slot, EntryHead(m, a)) /\ s_seq' = m.seq + 1
            /\ budget' = [budget EXCEPT ![m.slot] = @ + Positive(a)] /\ due' = due \ {m.slot}
            BY <1>5 DEF StoreHead
      <2>. HIDE DEF m, a
      <2>5. EntryHead(m, a) \in EntryType
            BY <2>2, <2>3, EntryHeadType
      <2>6. queue' \in [Slots -> EntryType]
            BY <2>2, <2>4, <2>5, QueueUpdate
      <2>7. due' \in SUBSET Slots /\ s_seq' \in Nat
            BY <2>2, <2>4
      <2>8. budget[m.slot] + Positive(a) \in Nat
            BY <2>2, <2>3
      <2>9. budget' \in [Slots -> Nat]
            BY <2>2, <2>4, <2>8
      <2>. QED BY <1>5, <2>1, <2>6, <2>7, <2>9 DEF StoreHead
<1>6. ASSUME NEW t \in Tasks, StoreBody(t)
      PROVE  TypeOK'
      <2>1. loc' \in [Tasks -> LocType]
            BY <1>6, <1>0, LocMove, LocsUpdate DEF StoreBody, Goto, Pcs
      <2>2. queue' \in [Slots -> EntryType]
            BY <1>6, <1>0, EntryBody, QueueUpdate DEF StoreBody, LocType
      <2>. QED BY <1>6, <2>1, <2>2 DEF StoreBody
<1>7. ASSUME NEW t \in Receivers, ReceiveAck(t)
      PROVE  TypeOK'
      <2>. t \in Tasks
           BY DEF Tasks
      <2>1. \A x \in sent, a \in {-2, -3} :
              [Idle EXCEPT !.pc = "find", !.call = x[1], !.owed = x[2], !.ack = a] \in LocType
            BY <1>i DEF LocType, Pcs
      <2>2. loc' \in [Tasks -> LocType]
            BY <1>7, <2>1, LocsUpdate DEF ReceiveAck
      <2>3. /\ received' = received + 1
            /\ UNCHANGED <<queueVars, s_msgID, replyVars, tick, burst, histVars, claims, bursts>>
            BY <1>7 DEF ReceiveAck
      <2>. QED BY <2>2, <2>3
<1>8. ASSUME NEW t \in Receivers, ReceiveMessage(t)
      PROVE  TypeOK'
      <2>. t \in Tasks
           BY DEF Tasks
      <2>1. \A n \in PeerNumbers : n \in Nat
            BY PeerAssumption
      <2>2. \A n \in {0} \cup {x[2] : x \in sent} : n \in Nat
            OBVIOUS
      <2>3. ASSUME NEW p \in Peers, NEW m \in Texts, NEW id \in PeerNumbers, NEW group \in BOOLEAN,
                   NEW owed \in {0} \cup {x[2] : x \in sent}
            PROVE  ReceivedMessage(p, m, id, group, owed) \in LocType
            BY ZenonT(30), <1>i, <2>1, <2>2 DEF ReceivedMessage, LocType, Pcs
      <2>4. loc' \in [Tasks -> LocType]
            BY <1>8, <2>3, LocsUpdate DEF ReceiveMessage
      <2>5. /\ received' = received + 1
            /\ UNCHANGED <<queueVars, s_msgID, replyVars, tick, burst, sent, acked, claims, bursts>>
            BY <1>8 DEF ReceiveMessage
      <2>. QED BY <2>4, <2>5
<1>9. ASSUME NEW t \in Tasks, FindAcked(t)
      PROVE  TypeOK'
      <2>1. ASSUME NEW i \in Slots
            PROVE  [loc[t] EXCEPT !.pc = "mark", !.slot = i] \in LocType
            BY <1>0, LocSlot DEF Pcs
      <2>2. Find(loc[t].call, loc[t].owed, FALSE) # 0
              => Find(loc[t].call, loc[t].owed, FALSE) \in Slots
            BY FirstInSet, SlotsType DEF Find, First
      <2>3. loc' \in [Tasks -> LocType]
            BY <1>9, <1>0, <2>1, <2>2, LocMove, LocsUpdate DEF FindAcked, AckDone, Goto, Pcs
      <2>. QED BY <1>9, <2>3 DEF FindAcked
<1>10. ASSUME NEW t \in Tasks, MarkAcked(t)
      PROVE  TypeOK'
      <2>1. loc' \in [Tasks -> LocType]
            BY <1>10, <1>0, LocMove, LocsUpdate DEF MarkAcked, AckDone, Goto, Pcs
      <2>2. queue' \in [Slots -> EntryType]
            <3>1. loc[t].slot \in Slots /\ loc[t].ack \in {-3, -2, 0}
                  BY <1>0 DEF LocType
            <3>2. queue[loc[t].slot] \in EntryType /\ loc[t].ack \in Int
                  BY <3>1
            <3>. QED BY <1>10, <3>1, <3>2, EntryAck, QueueUpdate DEF MarkAcked
      <2>. QED BY <1>10, <2>1, <2>2 DEF MarkAcked
<1>11. ASSUME NEW t \in Tasks, File(t)
      PROVE  TypeOK'
      <2>1. loc' \in [Tasks -> LocType]
            BY <1>11, <1>0, LocMove, LocsUpdate DEF File, Goto, Pcs
      <2>. QED BY <1>11, <2>1 DEF File
<1>12. ASSUME NEW t \in Tasks, Answer(t)
      PROVE  TypeOK'
      <2>1. loc' \in [Tasks -> LocType]
            BY <1>12, <1>0, ReplySlotType, LocRow, LocsUpdate DEF Answer, Pcs
      <2>. QED BY <1>12, <2>1 DEF Answer
<1>13. ASSUME NEW t \in Tasks, OweCall(t) \/ OweNumber(t)
      PROVE  TypeOK'
      <2>1. loc' \in [Tasks -> LocType]
            BY <1>13, <1>0, LocMove, LocsUpdate DEF OweCall, OweNumber, Goto, Pcs
      <2>2. loc[t].id \in Nat /\ loc[t].call \in Peers \cup {NoCall}
            BY <1>0 DEF LocType
      <2>3. TwoDigits(loc[t].id) \in Nat
            BY <2>2, TwoDigitsType
      <2>4. replyAck' \in [1..ReplyStations -> ReplyType]
            <3>1. loc[t].row \in 1..ReplyStations /\ replyAck[loc[t].row] \in ReplyType
                  BY <1>0 DEF LocType
            <3>2. CASE OweCall(t)
                  <4>1. [replyAck[loc[t].row] EXCEPT !.call = loc[t].call] \in ReplyType
                        BY <2>2, <3>1 DEF ReplyType
                  <4>. QED BY <3>1, <3>2, <4>1 DEF OweCall
            <3>3. CASE OweNumber(t)
                  <4>1. [replyAck[loc[t].row] EXCEPT !.mm = TwoDigits(loc[t].id),
                                                     !.seq = replySeq + 1] \in ReplyType
                    <5>1. replySeq + 1 \in Nat
                          OBVIOUS
                    <5>. HIDE DEF TypeOK
                    <5>. QED BY <2>3, <3>1, <5>1 DEF ReplyType
                  <4>. QED BY <3>1, <3>3, <4>1 DEF OweNumber
            <3>. QED BY <1>13, <3>2, <3>3
      <2>. QED BY <1>13, <2>1, <2>4 DEF OweCall, OweNumber
<1>14. ASSUME Retry
      PROVE  TypeOK'
      <2>1. CASE RetryStart
            BY <2>1, SlotsType DEF RetryStart, TickType
      <2>2. RetryNext \in TickType
            BY NextSlot DEF RetryNext, TickType
      <2>3. CASE RetryCheck
            <3>1. queue[tick.i].ack \in Int
                  BY DEF TickType, EntryType
            <3>2. tick' \in TickType
                  BY <2>2, <2>3, <3>1 DEF RetryCheck, TickType
            <3>. QED BY <2>3, <3>2 DEF RetryCheck
      <2>4. CASE RetryDecrement
            <3>1. PICK old \in {tick.ack, queue[tick.i].ack} :
                    /\ SetEntry(tick.i, [queue[tick.i] EXCEPT !.ack = old - 1])
                    /\ due' = IF old - 1 > 0 THEN due \ {tick.i} ELSE due
                  BY <2>4 DEF RetryDecrement
            <3>2. tick.i \in Slots /\ queue[tick.i] \in EntryType /\ old - 1 \in Int
                  BY DEF EntryType, TickType
            <3>3. queue' \in [Slots -> EntryType]
                  BY <3>1, <3>2, EntryAck, QueueUpdate
            <3>4. tick' \in TickType
                  BY <2>4 DEF RetryDecrement, TickType
            <3>. QED BY <2>4, <3>1, <3>3, <3>4 DEF RetryDecrement
      <2>5. CASE RetryTransmit
            <3>1. <<queue[tick.i].call, queue[tick.i].id>> \in (Peers \cup {NoCall}) \X Nat
                  BY DEF EntryType, TickType
            <3>2. tick.i \in Slots
                  BY DEF TickType
            <3>3. retried' \in [Slots -> Nat] /\ sent' \in SUBSET ((Peers \cup {NoCall}) \X Nat)
                  BY <2>5, <3>1, <3>2 DEF RetryTransmit
            <3>. QED BY <2>2, <2>5, <3>3 DEF RetryTransmit
      <2>. QED BY <1>14, <2>1, <2>3, <2>4, <2>5 DEF Retry
<1>15. ASSUME Burst
      PROVE  TypeOK'
      <2>1. CASE BurstStart
            BY <2>1, SlotsType DEF BurstStart
      <2>2. CASE BurstStep
            <3>1. <<burst.call, queue[burst.i].id>> \in (Peers \cup {NoCall}) \X Nat
                  BY DEF EntryType
            <3>2. burst' \in [call : Peers \cup {NoCall}, i : Slots, n : Nat]
                  <4>1. [call |-> NoCall, i |-> 1, n |-> 0] \in [call : Peers \cup {NoCall}, i : Slots, n : Nat]
                        BY SlotsType
                  <4>2. \A n \in Nat : burst.i # QueueSize =>
                          [burst EXCEPT !.i = burst.i + 1, !.n = n]
                             \in [call : Peers \cup {NoCall}, i : Slots, n : Nat]
                        BY NextSlot
                  <4>3. burst.n \in Nat /\ burst.n + 1 \in Nat
                        OBVIOUS
                  <4>. QED BY <2>2, <4>1, <4>2, <4>3 DEF BurstStep
            <3>3. sent' \in SUBSET ((Peers \cup {NoCall}) \X Nat)
                  BY <2>2, <3>1 DEF BurstStep
            <3>. QED BY <2>2, <3>2, <3>3 DEF BurstStep
      <2>. QED BY <1>15, <2>1, <2>2 DEF Burst
<1>16. ASSUME NEW i \in Slots, TimePasses(i)
      PROVE  TypeOK'
      BY <1>16 DEF TimePasses
<1>17. ASSUME UNCHANGED vars
      PROVE  TypeOK'
      BY <1>17 DEF vars
<1>. QED
  <2>. Senders \subseteq Tasks /\ Receivers \subseteq Tasks
       BY DEF Tasks
  <2>. QED BY <1>1, <1>2, <1>3, <1>4, <1>5, <1>6, <1>7, <1>8, <1>9, <1>10, <1>11, <1>12,
              <1>13, <1>14, <1>15, <1>16, <1>17 DEF Next, Send, Receive, Store

\* The module's state has its types in every reachable state.
THEOREM TypeCorrect == Spec => []TypeOK
<1>. QED BY InitType, NextType, PTL DEF Spec

(***************************************************************************)
(* The retry budget.  What a slot may still transmit is its ack count, and *)
(* what the tick holds in hand of it: the count it loaded before the       *)
(* decrement, or the one frame it has paid for after it.                   *)
(***************************************************************************)
At(p, i) == tick.pc = p /\ tick.i = i

BudgetInv ==
    \A i \in Slots :
        /\ retried[i] + Positive(queue[i].ack) <= budget[i]
        /\ At("decrement", i) => tick.ack >= 1 /\ retried[i] + tick.ack <= budget[i]
        /\ At("transmit", i) => retried[i] + Positive(queue[i].ack) + 1 <= budget[i]

IInv == TypeOK /\ BudgetInv

\* A step that leaves the entries' ack counts and the tick alone.
LEMMA BudgetFrame ==
    ASSUME BudgetInv, UNCHANGED <<tick, budget, retried>>,
           \A i \in Slots : queue'[i].ack = queue[i].ack
    PROVE  BudgetInv'
BY DEF BudgetInv, At

\* A step that settles one entry, or leaves it as it is.
LEMMA BudgetSettle ==
    ASSUME TypeOK, BudgetInv, UNCHANGED <<tick, budget, retried>>,
           NEW i \in Slots, NEW e, e.ack \in Int, e.ack <= 0, SetEntry(i, e)
    PROVE  BudgetInv'
<1>. SUFFICES ASSUME NEW j \in Slots
              PROVE  /\ retried[j] + Positive(queue'[j].ack) <= budget[j]
                     /\ At("decrement", j) => tick.ack >= 1 /\ retried[j] + tick.ack <= budget[j]
                     /\ At("transmit", j) => retried[j] + Positive(queue'[j].ack) + 1 <= budget[j]
     BY DEF BudgetInv, At
<1>1. CASE j # i
      BY <1>1 DEF BudgetInv, SetEntry, TypeOK
<1>2. CASE j = i
      <2>1. queue'[j].ack = e.ack
            BY <1>2 DEF SetEntry, TypeOK
      <2>2. Positive(queue'[j].ack) = 0
            BY <2>1 DEF Positive
      <2>3. retried[j] \in Nat /\ budget[j] \in Nat /\ queue[j].ack \in Int
            BY DEF TypeOK, EntryType
      <2>. QED BY <2>2, <2>3 DEF BudgetInv, Positive
<1>. QED BY <1>1, <1>2

\* Nothing has been retried at boot.
LEMMA InitBudget == Init => BudgetInv
BY SlotsType DEF Init, BudgetInv, At, NoEntry, Positive

\* Every step keeps the budget.
LEMMA NextBudget == IInv /\ [Next]_vars => BudgetInv'
<1>. SUFFICES ASSUME TypeOK, BudgetInv, [Next]_vars
              PROVE  BudgetInv'
     BY DEF IInv
<1>0. \A i \in Slots : retried[i] \in Nat /\ budget[i] \in Nat /\ queue[i] \in EntryType
                       /\ queue[i].ack \in Int
      BY DEF TypeOK, EntryType
<1>t. tick.i \in Slots /\ tick.ack \in Int
      BY DEF TypeOK, TickType
<1>1. ASSUME NEW t \in Tasks, StoreHead(t)
      PROVE  BudgetInv'
      <2>. DEFINE m == loc[t]
                  a == IF t \in Senders THEN InitialAck ELSE -1
      <2>1. /\ SetEntry(m.slot, EntryHead(m, a)) /\ UNCHANGED <<tick, retried>>
            /\ budget' = [budget EXCEPT ![m.slot] = @ + Positive(a)]
            BY <1>1 DEF StoreHead
      <2>2. m.slot \in Slots
            BY DEF TypeOK, LocType
      <2>3. a \in Int /\ Positive(a) \in Nat
            BY RetryAssumption DEF InitialAck, Int8, Positive
      <2>. HIDE DEF m, a
      <2>4. /\ queue'[m.slot].ack = a /\ budget'[m.slot] = budget[m.slot] + Positive(a)
            /\ \A i \in Slots \ {m.slot} : queue'[i] = queue[i] /\ budget'[i] = budget[i]
            BY <2>1, <2>2 DEF TypeOK, SetEntry, EntryHead
      <2>5. \A i \in Slots : retried[i] <= budget[i]
            BY <1>0 DEF BudgetInv, Positive
      <2>. QED
           <3>. SUFFICES ASSUME NEW i \in Slots
                         PROVE  /\ retried'[i] + Positive(queue'[i].ack) <= budget'[i]
                                /\ At("decrement", i)' => tick'.ack >= 1 /\ retried'[i] + tick'.ack <= budget'[i]
                                /\ At("transmit", i)' => retried'[i] + Positive(queue'[i].ack) + 1 <= budget'[i]
                BY DEF BudgetInv
           <3>1. CASE i # m.slot
                 BY <2>1, <2>4, <3>1 DEF BudgetInv, At
           <3>2. CASE i = m.slot
                 <4>1. At("transmit", i) => retried[i] + 1 <= budget[i]
                       BY <1>0 DEF BudgetInv, Positive
                 <4>2. At("decrement", i) => tick.ack >= 1 /\ retried[i] + tick.ack <= budget[i]
                       BY DEF BudgetInv
                 <4>. QED BY <1>0, <1>t, <2>1, <2>3, <2>4, <2>5, <3>2, <4>1, <4>2 DEF At
           <3>. QED BY <3>1, <3>2
<1>2. ASSUME NEW t \in Tasks, StoreBody(t)
      PROVE  BudgetInv'
      <2>1. loc[t].slot \in Slots
            BY DEF TypeOK, LocType
      <2>2. \A i \in Slots : queue'[i].ack = queue[i].ack
            BY <1>2, <2>1, <1>0 DEF StoreBody, SetEntry, TypeOK, EntryType
      <2>. QED BY <1>2, <2>2, BudgetFrame DEF StoreBody
<1>3. ASSUME NEW t \in Tasks, MarkAcked(t)
      PROVE  BudgetInv'
      <2>1. loc[t].slot \in Slots /\ loc[t].ack \in Int /\ loc[t].ack <= 0
            <3>1. loc[t].slot \in Slots /\ loc[t].ack \in {-3, -2, 0}
                  BY DEF TypeOK, LocType
            <3>. QED BY <3>1
      <2>. DEFINE e == [queue[loc[t].slot] EXCEPT !.ack = loc[t].ack]
      <2>2. e.ack = loc[t].ack
            BY <1>0, <2>1 DEF EntryType
      <2>3. SetEntry(loc[t].slot, e) /\ UNCHANGED <<tick, budget, retried>>
            BY <1>3 DEF MarkAcked
      <2>. HIDE DEF e
      <2>. QED BY <2>1, <2>2, <2>3, BudgetSettle
<1>4. CASE RetryCheck
      <2>. SUFFICES ASSUME NEW i \in Slots
                    PROVE  /\ retried'[i] + Positive(queue'[i].ack) <= budget'[i]
                           /\ At("decrement", i)' => tick'.ack >= 1 /\ retried'[i] + tick'.ack <= budget'[i]
                           /\ At("transmit", i)' => retried'[i] + Positive(queue'[i].ack) + 1 <= budget'[i]
           BY DEF BudgetInv
      <2>1. UNCHANGED <<queue, budget, retried>>
            BY <1>4 DEF RetryCheck, queueVars
      <2>2. CASE RetryDue(tick.i)
            <3>1. tick' = [tick EXCEPT !.pc = "decrement", !.ack = queue[tick.i].ack]
                  BY <1>4, <2>2 DEF RetryCheck
            <3>2. tick'.pc = "decrement" /\ tick'.i = tick.i /\ tick'.ack = queue[tick.i].ack
                  BY <3>1 DEF TypeOK, TickType
            <3>. QED BY <1>0, <1>t, <2>1, <2>2, <3>2 DEF RetryDue, BudgetInv, At, Positive
      <2>3. CASE ~RetryDue(tick.i)
            <3>1. tick'.pc \in {"idle", "check"}
                  BY <1>4, <2>3 DEF RetryCheck, RetryNext, TypeOK, TickType
            <3>. QED BY <2>1, <3>1 DEF BudgetInv, At
      <2>. QED BY <2>2, <2>3
<1>5. CASE RetryDecrement
      <2>1. PICK old \in {tick.ack, queue[tick.i].ack} :
              SetEntry(tick.i, [queue[tick.i] EXCEPT !.ack = old - 1])
            BY <1>5 DEF RetryDecrement
      <2>2. /\ tick.pc = "decrement" /\ tick'.pc = "transmit" /\ tick'.i = tick.i
            /\ UNCHANGED <<budget, retried>>
            BY <1>5 DEF RetryDecrement, TypeOK, TickType
      <2>3. old \in Int
            BY <1>0, <1>t
      <2>4. queue'[tick.i].ack = old - 1 /\ \A i \in Slots \ {tick.i} : queue'[i] = queue[i]
            BY <1>0, <1>t, <2>1 DEF SetEntry, TypeOK, EntryType
      <2>5. /\ retried[tick.i] + Positive(queue[tick.i].ack) <= budget[tick.i]
            /\ tick.ack >= 1 /\ retried[tick.i] + tick.ack <= budget[tick.i]
            BY <1>t, <2>2 DEF BudgetInv, At
      <2>6. retried[tick.i] + Positive(old - 1) + 1 <= budget[tick.i]
            <3>1. CASE old = tick.ack
                  BY <1>0, <1>t, <2>5, <3>1 DEF Positive
            <3>2. CASE old = queue[tick.i].ack
                  BY <1>0, <1>t, <2>5, <3>2 DEF Positive
            <3>. QED BY <3>1, <3>2
      <2>7. retried[tick.i] + Positive(old - 1) <= budget[tick.i]
            BY <1>0, <1>t, <2>3, <2>6 DEF Positive
      <2>. QED BY <1>t, <2>2, <2>4, <2>6, <2>7 DEF BudgetInv, At
<1>6. CASE RetryTransmit
      <2>1. /\ retried' = [retried EXCEPT ![tick.i] = @ + 1] /\ tick.pc = "transmit"
            /\ UNCHANGED <<queue, budget>> /\ tick' = RetryNext
            BY <1>6 DEF RetryTransmit
      <2>2. tick'.pc \in {"idle", "check"}
            BY <2>1 DEF RetryNext, TypeOK, TickType
      <2>3. retried[tick.i] + Positive(queue[tick.i].ack) + 1 <= budget[tick.i]
            BY <1>t, <2>1 DEF BudgetInv, At
      <2>4. Positive(queue[tick.i].ack) \in Nat
            BY <1>0, <1>t DEF Positive
      <2>5. /\ retried'[tick.i] = retried[tick.i] + 1
            /\ \A i \in Slots \ {tick.i} : retried'[i] = retried[i]
            BY <1>t, <2>1 DEF TypeOK
      <2>6. retried'[tick.i] + Positive(queue'[tick.i].ack) <= budget'[tick.i]
            BY <1>0, <1>t, <2>1, <2>3, <2>4, <2>5
      <2>7. \A i \in Slots \ {tick.i} : retried'[i] + Positive(queue'[i].ack) <= budget'[i]
            BY <2>1, <2>5 DEF BudgetInv
      <2>. QED BY <2>2, <2>6, <2>7 DEF BudgetInv, At
<1>7. CASE RetryStart
      <2>1. tick'.pc = "check" /\ UNCHANGED <<queue, budget, retried>>
            BY <1>7 DEF RetryStart, queueVars, TypeOK, TickType
      <2>. QED BY <2>1 DEF BudgetInv, At
<1>8. ASSUME NEW t \in Tasks,
             \/ Claim(t) \/ Transmit(t) \/ Pick(t) \/ Count(t) \/ ReceiveAck(t)
             \/ ReceiveMessage(t) \/ FindAcked(t) \/ File(t) \/ Answer(t) \/ OweCall(t)
             \/ OweNumber(t)
      PROVE  BudgetInv'
      <2>1. UNCHANGED <<queue, tick, budget, retried>>
            BY <1>8 DEF Claim, Transmit, Pick, Count, ReceiveAck, ReceiveMessage, FindAcked,
                        File, Answer, OweCall, OweNumber, queueVars
      <2>. QED BY <2>1, BudgetFrame
<1>9. ASSUME Burst \/ (\E i \in Slots : TimePasses(i)) \/ UNCHANGED vars
      PROVE  BudgetInv'
      <2>1. UNCHANGED <<queue, tick, budget, retried>>
            BY <1>9 DEF Burst, BurstStart, BurstStep, TimePasses, vars, queueVars
      <2>. QED BY <2>1, BudgetFrame
<1>. QED
  <2>. Senders \subseteq Tasks /\ Receivers \subseteq Tasks
       BY DEF Tasks
  <2>. QED BY <1>1, <1>2, <1>3, <1>4, <1>5, <1>6, <1>7, <1>8, <1>9
           DEF Next, Send, Receive, Store, Retry

\* The retry timer stays within what the sends paid for, for any queue size,
\* any retry count and any set of tasks.
THEOREM RetryBudgetHolds == Spec => []RetryBudget
<1>1. Init => IInv
      BY InitType, InitBudget DEF IInv
<1>2. IInv /\ [Next]_vars => IInv'
      BY NextType, NextBudget DEF IInv
<1>3. IInv => RetryBudget
      BY DEF IInv, BudgetInv, RetryBudget, Positive, TypeOK, EntryType
<1>. QED BY <1>1, <1>2, <1>3, PTL DEF Spec

\* What the run checks of the queue in one formula: its types, and a retry
\* timer that stays within its budget.
THEOREM QueueKept == Spec => []QueueSound
<1>. QED BY TypeCorrect, RetryBudgetHolds, PTL DEF QueueSound

(***************************************************************************)
(* The settings and their files: app_config.c, main.c and the pages.       *)
(***************************************************************************)

\* The settings of the three sections, and what may be in a section's file.
Fields == {"call", "igCall", "use", "inet2rf", "range", "monitor"}
Contents(name) ==
  CASE name = "station" -> [call : Calls]
    [] name = "igate" -> [igCall : Calls, use : BOOLEAN, inet2rf : BOOLEAN, range : BOOLEAN]
    [] OTHER -> [monitor : BOOLEAN]

Configured(config) ==
  /\ DOMAIN config = Fields
  /\ config.call \in Calls /\ config.igCall \in Calls
  /\ config.use \in BOOLEAN /\ config.inet2rf \in BOOLEAN
  /\ config.range \in BOOLEAN /\ config.monitor \in BOOLEAN

\* A file holds one section's settings, or nothing that can be read.
One(name) == \E c \in Contents(name) : disk[name] = {c}

FileType ==
  /\ Configured(ram)
  /\ DOMAIN disk = Names /\ \A name \in Names : disk[name] = {} \/ One(name)
  /\ stage \in {"boot", "retry", "save", "up"}
  /\ purpose \in {"page", "load", "reload", "format", "fallback"}
  /\ todo \subseteq Names /\ allWritten \in BOOLEAN
  /\ stale \subseteq Names /\ torn \in BOOLEAN
  /\ stage # "save" => todo = {}

\* The identity's mirror, in what is live and in what two files say.
Mirrors(config) == config.use => config.igCall = config.call
DiskMirrors ==
  \/ disk["station"] = {} /\ disk["igate"] = {}
  \/ \E c \in Contents("station"), g \in Contents("igate") :
        /\ disk["station"] = {c} /\ disk["igate"] = {g}
        /\ g.use => g.igCall = c.call

\* A file says what is live, or brings a monitor back that a page turned off.
Matches(name) ==
  \/ disk[name] = {Content(name, ram)}
  \/ name = "brandmeister" /\ disk[name] = {[monitor |-> TRUE]}

\* No worldwide feed past a closed gate at any time; the mirror agrees on the disk
\* before a boot and in memory after it; every section but those due to be
\* written matches, or its failure is remembered; and what a boot is about to
\* write was missing or not opened.
FilesInv ==
  /\ FileType
  /\ ~(ram.monitor /\ Blocked(ram))
  /\ stage \in {"boot", "retry"} /\ ~torn => DiskMirrors
  /\ stage \in {"save", "up"} =>
       /\ ~torn => Mirrors(ram)
       /\ \A name \in Names \ todo : name \in stale \/ Matches(name)
       /\ \A name \in (stale \cap Paired) \ todo : torn
  /\ stage = "save" /\ purpose \in {"load", "reload"} =>
       \A name \in todo : disk[name] = {} \/ name \in closed

LEMMA NamesAre == Names = {"station", "igate", "brandmeister"}
BY DEF Names, Order

\* The section written next is one of those due.
LEMMA NextIsDue ==
  ASSUME todo \subseteq Names, todo # {}
  PROVE  NextToSave \in todo
<1> DEFINE Leads(i) == Order[i] \in todo /\ \A j \in 1..(i - 1) : Order[j] \notin todo
<1>1. \E i \in 1..3 : Leads(i)
  <2>1. CASE Order[1] \in todo
    <3>1. Leads(1)
      BY <2>1
    <3> QED
      BY <3>1
  <2>2. CASE Order[1] \notin todo /\ Order[2] \in todo
    <3>1. Leads(2)
      BY <2>2
    <3> QED
      BY <3>1
  <2>3. CASE Order[1] \notin todo /\ Order[2] \notin todo
    <3>1. Order[3] \in todo
      BY <2>3, NamesAre DEF Order
    <3>2. Leads(3)
      BY <2>3, <3>1
    <3> QED
      BY <3>2
  <2> QED
    BY <2>1, <2>2, <2>3
<1> QED
  BY <1>1 DEF NextToSave

LEMMA FactoryIs ==
  /\ Configured(Factory) /\ ~(Factory.monitor /\ Blocked(Factory)) /\ Mirrors(Factory)
BY SettingsFilesAssumption DEF SettingsFilesAssumption, Factory, Configured, Fields, Blocked, Mirrors

\* The interlock touches the monitor alone, and only where the gate is open.
LEMMA InterlockedIs ==
  ASSUME NEW config, Configured(config)
  PROVE  LET locked == Interlocked(config) IN
         /\ Configured(locked) /\ ~(locked.monitor /\ Blocked(locked))
         /\ locked.call = config.call /\ locked.igCall = config.igCall
         /\ locked.use = config.use /\ locked.inet2rf = config.inet2rf
         /\ locked.range = config.range
         /\ locked.monitor => config.monitor
         /\ config.monitor => locked.monitor \/ Blocked(config)
BY DEF Configured, Fields, Interlocked, Blocked

LEMMA ContentIs ==
  ASSUME NEW config, Configured(config), NEW name \in Names
  PROVE  Content(name, config) \in Contents(name)
BY NamesAre DEF Configured, Content, Contents

\* What a reader leaves of a section's fields is what its file says.
LEMMA ReadSection ==
  ASSUME FileType, NEW config, Configured(config), NEW name \in Names, NEW readable,
         name \in readable => disk[name] # {}
  PROVE  LET read == Over(config, name, readable) IN
         /\ Configured(read)
         /\ name \in readable => disk[name] = {Content(name, read)}
         /\ name \notin readable => read = config
         /\ \A other \in Names \ {name} : Content(other, read) = Content(other, config)
<1>1. CASE name \notin readable
  BY <1>1 DEF Over
<1>2. CASE name \in readable
  <2>1. PICK c \in Contents(name) : disk[name] = {c}
    BY <1>2 DEF FileType, One
  <2> DEFINE read == Over(config, name, readable)
  <2>2. read = [f \in DOMAIN config |-> IF f \in DOMAIN c THEN c[f] ELSE config[f]]
    BY <1>2, <2>1 DEF Over
  <2>3. CASE name = "station"
    <3>1. c \in [call : Calls] /\ DOMAIN c = {"call"}
      BY <2>1, <2>3 DEF Contents
    <3>2. /\ DOMAIN read = Fields /\ read.call = c.call /\ read.igCall = config.igCall
          /\ read.use = config.use /\ read.inet2rf = config.inet2rf /\ read.range = config.range
          /\ read.monitor = config.monitor
      BY <2>2, <3>1 DEF Configured, Fields
    <3> HIDE DEF read
    <3>3. Content("station", read) = c
      BY <3>1, <3>2 DEF Content
    <3> QED
      BY <1>2, <2>1, <2>3, <3>1, <3>2, <3>3, NamesAre DEF Configured, Content, read
  <2>4. CASE name = "igate"
    <3>1. /\ c \in [igCall : Calls, use : BOOLEAN, inet2rf : BOOLEAN, range : BOOLEAN]
          /\ DOMAIN c = {"igCall", "use", "inet2rf", "range"}
      BY <2>1, <2>4 DEF Contents
    <3>2. /\ DOMAIN read = Fields /\ read.call = config.call /\ read.igCall = c.igCall
          /\ read.use = c.use /\ read.inet2rf = c.inet2rf /\ read.range = c.range
          /\ read.monitor = config.monitor
      BY <2>2, <3>1 DEF Configured, Fields
    <3> HIDE DEF read
    <3>3. Content("igate", read) = c
      BY <3>1, <3>2 DEF Content
    <3> QED
      BY <1>2, <2>1, <2>4, <3>1, <3>2, <3>3, NamesAre DEF Configured, Content, read
  <2>5. CASE name = "brandmeister"
    <3>1. c \in [monitor : BOOLEAN] /\ DOMAIN c = {"monitor"}
      BY <2>1, <2>5 DEF Contents
    <3>2. /\ DOMAIN read = Fields /\ read.call = config.call /\ read.igCall = config.igCall
          /\ read.use = config.use /\ read.inet2rf = config.inet2rf /\ read.range = config.range
          /\ read.monitor = c.monitor
      BY <2>2, <3>1 DEF Configured, Fields
    <3> HIDE DEF read
    <3>3. Content("brandmeister", read) = c
      BY <3>1, <3>2 DEF Content
    <3> QED
      BY <1>2, <2>1, <2>5, <3>1, <3>2, <3>3, NamesAre DEF Configured, Content, read
  <2> QED
    BY <2>3, <2>4, <2>5, NamesAre
<1> QED
  BY <1>1, <1>2

\* What a load assembles from good files is what they say, by both rules.
LEMMA AssembledIs ==
  ASSUME FileType, NEW readable \in SUBSET Names,
         \A name \in readable : disk[name] # {}
  PROVE  LET config == Assembled(readable) IN
         /\ Configured(config) /\ ~(config.monitor /\ Blocked(config))
         /\ \A name \in readable :
              \/ disk[name] = {Content(name, config)}
              \/ name = "brandmeister" /\ disk[name] = {[monitor |-> TRUE]}
         /\ readable \cap Paired = {} => Mirrors(config)
         /\ Paired \subseteq readable /\ DiskMirrors => Mirrors(config)
<1> DEFINE one == Over(Factory, "station", readable)
           two == Over(one, "igate", readable)
           three == Over(two, "brandmeister", readable)
           config == Interlocked(three)
<1>0. Assembled(readable) = config
  BY DEF Assembled, ReadInterlocked
<1>1. /\ Configured(one)
      /\ "station" \in readable => disk["station"] = {Content("station", one)}
      /\ "station" \notin readable => one = Factory
  BY ReadSection, FactoryIs, NamesAre
<1>2. /\ Configured(two)
      /\ "igate" \in readable => disk["igate"] = {Content("igate", two)}
      /\ "igate" \notin readable => two = one
      /\ Content("station", two) = Content("station", one)
  <2> HIDE DEF one
  <2> QED
    BY <1>1, ReadSection, NamesAre
<1>3. /\ Configured(three)
      /\ "brandmeister" \in readable => disk["brandmeister"] = {Content("brandmeister", three)}
      /\ Content("station", three) = Content("station", two)
      /\ Content("igate", three) = Content("igate", two)
  <2> HIDE DEF two
  <2> QED
    BY <1>2, ReadSection, NamesAre
<1> HIDE DEF one, two, three
<1>4. /\ Configured(config) /\ ~(config.monitor /\ Blocked(config))
      /\ config.call = three.call /\ config.igCall = three.igCall
      /\ config.use = three.use /\ config.inet2rf = three.inet2rf
      /\ config.range = three.range
      /\ config.monitor => three.monitor
      /\ config.monitor \in BOOLEAN /\ three.monitor \in BOOLEAN
  BY <1>3, InterlockedIs DEF Configured
<1> HIDE DEF config
<1>5. /\ Content("station", config) = Content("station", three)
      /\ Content("igate", config) = Content("igate", three)
  BY <1>4 DEF Content
<1>6. ASSUME NEW name \in readable
      PROVE  \/ disk[name] = {Content(name, config)}
             \/ name = "brandmeister" /\ disk[name] = {[monitor |-> TRUE]}
  <2>1. CASE name = "brandmeister"
    <3>1. disk[name] = {[monitor |-> three.monitor]}
      BY <1>3, <1>6, <2>1 DEF Content
    <3>2. Content(name, config) = [monitor |-> config.monitor]
      BY <2>1 DEF Content
    <3>3. three.monitor = TRUE \/ three.monitor = config.monitor
      BY <1>4
    <3> QED
      BY <2>1, <3>1, <3>2, <3>3
  <2>2. CASE name # "brandmeister"
    BY <1>1, <1>2, <1>3, <1>5, <1>6, <2>2, NamesAre
  <2> QED
    BY <2>1, <2>2
<1>7. /\ config.call = one.call
      /\ config.igCall = two.igCall /\ config.use = two.use
  BY <1>2, <1>3, <1>4 DEF Content
<1>8. readable \cap Paired = {} => Mirrors(config)
  <2> SUFFICES ASSUME "station" \notin readable, "igate" \notin readable PROVE Mirrors(config)
    BY DEF Paired
  <2> QED
    BY <1>1, <1>2, <1>7, FactoryIs DEF Mirrors
<1>9. ASSUME "station" \in readable, "igate" \in readable, DiskMirrors PROVE Mirrors(config)
  <2>1. disk["station"] = {[call |-> one.call]}
    BY <1>1, <1>9 DEF Content
  <2>2. disk["igate"] = {[igCall |-> two.igCall, use |-> two.use,
                          inet2rf |-> two.inet2rf, range |-> two.range]}
    BY <1>2, <1>9 DEF Content
  <2>3. two.use => two.igCall = one.call
    <3>1. PICK c \in Contents("station"), g \in Contents("igate") :
            /\ disk["station"] = {c} /\ disk["igate"] = {g}
            /\ g.use => g.igCall = c.call
      BY <1>9, <2>1 DEF DiskMirrors
    <3>2. c = [call |-> one.call]
      BY <2>1, <3>1
    <3>3. g = [igCall |-> two.igCall, use |-> two.use,
               inet2rf |-> two.inet2rf, range |-> two.range]
      BY <2>2, <3>1
    <3> QED
      BY <3>1, <3>2, <3>3
  <2> QED
    BY <1>7, <2>3 DEF Mirrors
<1> QED
  BY <1>0, <1>4, <1>6, <1>8, <1>9 DEF Paired

LEMMA FilesStart == FileInit => FilesInv
<1> SUFFICES ASSUME FileInit PROVE FilesInv
  OBVIOUS
<1>1. FileType
  BY FactoryIs DEF FileInit, FileType
<1>2. DiskMirrors
  BY NamesAre DEF FileInit, DiskMirrors
<1> QED
  BY <1>1, <1>2, FactoryIs DEF FileInit, FilesInv

\* A section is written, or its failure is remembered.
LEMMA SaveNextKeeps ==
  ASSUME FilesInv, NEW written \in BOOLEAN, SaveNext(written)
  PROVE  FilesInv'
<1>1. NextToSave \in todo /\ NextToSave \in Names
  BY NextIsDue DEF SaveNext, FilesInv, FileType
<1> DEFINE n == NextToSave
<1>2. /\ UNCHANGED <<ram, stage, purpose, closed>> /\ stage = "save"
      /\ todo' = todo \ {n}
      /\ disk' = IF written THEN [disk EXCEPT ![n] = {Content(n, ram)}] ELSE disk
      /\ stale' = IF written THEN stale \ {n} ELSE stale \cup {n}
      /\ torn' = (torn \/ (~written /\ n \in Paired))
      /\ allWritten' \in BOOLEAN
  BY DEF SaveNext, FilesInv, FileType
<1> HIDE DEF n
<1>3. /\ DOMAIN disk' = Names
      /\ \A name \in Names \ {n} : disk'[name] = disk[name]
      /\ written => disk'[n] = {Content(n, ram)}
      /\ ~written => disk'[n] = disk[n]
  BY <1>1, <1>2 DEF FilesInv, FileType, n
<1>4. FileType'
  <2>1. ASSUME NEW name \in Names PROVE disk'[name] = {} \/ One(name)'
    <3>1. CASE disk'[name] = disk[name]
      BY <3>1 DEF FilesInv, FileType, One
    <3>2. CASE name = n /\ written
      BY <1>3, <3>2, ContentIs DEF FilesInv, FileType, One
    <3> QED
      BY <1>3, <3>1, <3>2
  <2> QED
    BY <1>1, <1>2, <1>3, <2>1 DEF FilesInv, FileType, n
<1>5. \A name \in Names \ todo' : name \in stale' \/ Matches(name)'
  BY <1>2, <1>3 DEF FilesInv, Matches
<1>6. \A name \in (stale' \cap Paired) \ todo' : torn'
  BY <1>2 DEF FilesInv
<1>7. purpose' \in {"load", "reload"} => \A name \in todo' : disk'[name] = {} \/ name \in closed'
  BY <1>2, <1>3 DEF FilesInv, FileType
<1> QED
  BY <1>2, <1>4, <1>5, <1>6, <1>7 DEF FilesInv, Mirrors, Blocked

\* Two files that match what is live say the same of the mirror.
LEMMA MatchMirrors ==
  ASSUME FileType, Mirrors(ram), Matches("station"), Matches("igate")
  PROVE  DiskMirrors
<1> DEFINE c == Content("station", ram)
           g == Content("igate", ram)
<1>1. c \in Contents("station") /\ g \in Contents("igate")
  BY ContentIs, NamesAre DEF FileType
<1>2. g.use => g.igCall = c.call
  BY DEF Content, Mirrors
<1>3. disk["station"] = {c} /\ disk["igate"] = {g}
  BY DEF Matches
<1> QED
  BY <1>1, <1>2, <1>3 DEF DiskMirrors

LEMMA SaveDoneKeeps ==
  ASSUME FilesInv, SaveDone
  PROVE  FilesInv'
<1>1. stage = "save" /\ todo = {} /\ UNCHANGED <<disk, closed, stale, torn>>
  BY DEF SaveDone
<1>2. CASE stage' = "retry" /\ UNCHANGED <<ram, purpose, todo, allWritten>>
  <2>1. ~torn => DiskMirrors
    <3> SUFFICES ASSUME ~torn PROVE DiskMirrors
      OBVIOUS
    <3>1. Matches("station") /\ Matches("igate")
      BY <1>1, NamesAre DEF FilesInv, Paired
    <3> QED
      BY <1>1, <3>1, MatchMirrors DEF FilesInv
  <2> QED
    BY <1>1, <1>2, <2>1 DEF FilesInv, FileType, One, DiskMirrors, Blocked, Configured
<1>3. CASE ram' = Factory /\ StartSave(Names, "fallback")
  BY <1>1, <1>3, FactoryIs DEF FilesInv, FileType, One, StartSave, Mirrors, Blocked, Configured
<1>4. CASE stage' = "up" /\ UNCHANGED <<ram, purpose, todo, allWritten>>
  BY <1>1, <1>4 DEF FilesInv, FileType, One, Mirrors, Matches, Blocked, Configured
<1> QED
  BY <1>2, <1>3, <1>4 DEF SaveDone

\* A load makes of the files what they say, or starts the next attempt.
LEMMA LoadKeeps ==
  ASSUME FilesInv, NEW noMemory \in SUBSET Names, NEW unopened \in SUBSET Names,
         Load(noMemory, unopened)
  PROVE  FilesInv'
<1> DEFINE present  == {name \in Names : disk[name] # {}}
           readable == present \ (noMemory \cup unopened)
           rewrite  == ToRewrite(readable, noMemory)
           config   == Assembled(readable)
<1>1. /\ stage \in {"boot", "retry"} /\ closed' = unopened /\ stale' = {} /\ UNCHANGED disk
      /\ noMemory \subseteq present /\ unopened \subseteq present \ noMemory
      /\ torn' = (torn \/ (rewrite \cap Paired) \notin {{}, Paired})
  BY DEF Load
<1>2. /\ readable \subseteq Names /\ rewrite \subseteq Names
      /\ \A name \in readable : disk[name] # {}
      /\ \A name \in rewrite : name \notin readable /\ (disk[name] = {} \/ name \in unopened)
  BY DEF ToRewrite
<1> HIDE DEF readable, rewrite, present
<1>3. /\ Configured(config) /\ ~(config.monitor /\ Blocked(config))
      /\ \A name \in readable :
           \/ disk[name] = {Content(name, config)}
           \/ name = "brandmeister" /\ disk[name] = {[monitor |-> TRUE]}
      /\ readable \cap Paired = {} => Mirrors(config)
      /\ Paired \subseteq readable /\ DiskMirrors => Mirrors(config)
  BY <1>2, AssembledIs DEF FilesInv
<1> HIDE DEF config
<1>4. ~torn => DiskMirrors
  BY <1>1 DEF FilesInv
<1>5. CASE /\ readable \cup rewrite = Names /\ ram' = config
           /\ StartSave(rewrite, IF stage = "boot" THEN "load" ELSE "reload")
  <2>1. ~torn' => Mirrors(config)
    <3> SUFFICES ASSUME ~torn' PROVE Mirrors(config)
      OBVIOUS
    <3>1. DiskMirrors /\ (rewrite \cap Paired = {} \/ rewrite \cap Paired = Paired)
      BY <1>1, <1>4
    <3>2. CASE rewrite \cap Paired = {}
      <4>1. Paired \subseteq readable
        BY <1>5, <3>2, NamesAre DEF Paired
      <4> QED
        BY <1>3, <3>1, <4>1
    <3>3. CASE rewrite \cap Paired = Paired
      <4>1. readable \cap Paired = {}
        BY <1>2, <3>3
      <4> QED
        BY <1>3, <4>1
    <3> QED
      BY <3>1, <3>2, <3>3
  <2>2. \A name \in Names \ rewrite : Matches(name)'
    BY <1>1, <1>3, <1>5 DEF Matches
  <2>3. \A name \in rewrite : disk'[name] = {} \/ name \in closed'
    BY <1>1, <1>2
  <2>4. FileType'
    BY <1>1, <1>2, <1>3, <1>5 DEF FilesInv, FileType, One, StartSave
  <2>5. stage' = "save" /\ todo' = rewrite
    BY <1>5 DEF StartSave
  <2> QED
    BY <1>1, <1>3, <1>5, <2>1, <2>2, <2>3, <2>4, <2>5 DEF FilesInv
<1>6. CASE ram' = config /\ stage' = "retry" /\ UNCHANGED <<purpose, todo, allWritten>>
  <2>1. FileType'
    BY <1>1, <1>3, <1>6 DEF FilesInv, FileType, One
  <2>2. ~torn' => DiskMirrors'
    BY <1>1, <1>4 DEF DiskMirrors
  <2> QED
    BY <1>1, <1>3, <1>6, <2>1, <2>2 DEF FilesInv
<1>7. CASE ram' = Factory /\ StartSave(Names, "fallback")
  BY <1>1, <1>7, FactoryIs DEF FilesInv, FileType, One, StartSave
<1> QED
  BY <1>5, <1>6, <1>7 DEF Load, present, readable, rewrite, config

\* The operator posts a page: every section it changes is written, but for the
\* monitor that the IGate page may turn off.
LEMMA RequestKeeps ==
  ASSUME FilesInv, NEW config, NEW sections \in SUBSET Names, NEW for \in {"page", "format"},
         Request(config, sections, for), UNCHANGED <<closed, stale>>,
         Configured(config), ~(config.monitor /\ Blocked(config)), ~torn' => Mirrors(config),
         DOMAIN disk' = Names,
         \A name \in Names : disk'[name] = disk[name] \/ (name \in sections /\ disk'[name] = {}),
         \/ torn' = torn
         \/ torn' = FALSE /\ Paired \subseteq sections,
         \A name \in Names \ sections :
            \/ Content(name, config) = Content(name, ram)
            \/ name = "brandmeister" /\ Content(name, ram) = [monitor |-> TRUE]
  PROVE  FilesInv'
<1>1. stage' = "save" /\ todo' = sections /\ purpose' = for /\ allWritten' = TRUE /\ ram' = config
  BY DEF Request, StartSave
<1>2. stage = "up" /\ todo = {}
  BY DEF Request, FilesInv, FileType
<1>3. FileType'
  BY <1>1 DEF FilesInv, FileType, One
<1>4. \A name \in Names \ sections : name \in stale' \/ Matches(name)'
  <2> SUFFICES ASSUME NEW name \in Names \ sections, name \notin stale PROVE Matches(name)'
    OBVIOUS
  <2>1. Matches(name) /\ disk'[name] = disk[name]
    BY <1>2 DEF FilesInv
  <2> QED
    BY <1>1, <2>1 DEF Matches
<1>5. \A name \in (stale' \cap Paired) \ sections : torn'
  BY <1>2 DEF FilesInv
<1> QED
  BY <1>1, <1>3, <1>4, <1>5 DEF FilesInv

LEMMA PostsKeep ==
  ASSUME FilesInv,
         \/ \E call \in Calls : PostStation(call)
         \/ \E use, inet2rf, range \in BOOLEAN, call \in Calls : PostIgate(use, call, inet2rf, range)
         \/ \E monitor \in BOOLEAN : PostBm(monitor)
         \/ FactoryReset
         \/ Format
  PROVE  FilesInv'
<1>0. Configured(ram) /\ ~(ram.monitor /\ Blocked(ram)) /\ DOMAIN disk = Names
  BY DEF FilesInv, FileType
<1>1. ASSUME NEW call \in Calls, PostStation(call) PROVE FilesInv'
  <2> DEFINE config == Mirrored(call)
  <2>1. /\ Configured(config) /\ Mirrors(config)
        /\ config.inet2rf = ram.inet2rf /\ config.range = ram.range /\ config.monitor = ram.monitor
    BY <1>0, <1>1 DEF Mirrored, Mirrors, Configured, Fields
  <2>2. /\ Request(config, Paired, "page")
        /\ torn' = FALSE /\ UNCHANGED <<disk, unread, closed, stale>>
    BY <1>1 DEF PostStation, StationSections
  <2> HIDE DEF config
  <2>3. Content("brandmeister", config) = Content("brandmeister", ram)
    BY <2>1 DEF Content
  <2>4. ~(config.monitor /\ Blocked(config))
    BY <1>0, <2>1 DEF Blocked
  <2>5. Paired \in SUBSET Names /\ \A name \in Names \ Paired : name = "brandmeister"
    BY NamesAre DEF Paired
  <2> QED
    BY <1>0, <2>1, <2>2, <2>3, <2>4, <2>5, RequestKeeps
<1>2. ASSUME NEW use \in BOOLEAN, NEW inet2rf \in BOOLEAN, NEW range \in BOOLEAN, NEW call \in Calls,
             PostIgate(use, call, inet2rf, range)
      PROVE  FilesInv'
  <2> DEFINE posted == [ram EXCEPT !.use = use, !.inet2rf = inet2rf, !.range = range,
                                   !.igCall = IF use THEN ram.call ELSE call]
             config == Interlocked(posted)
  <2>1. /\ Configured(posted) /\ posted.call = ram.call /\ posted.monitor = ram.monitor
        /\ Mirrors(posted)
    BY <1>0 DEF Configured, Fields, Mirrors
  <2>2. /\ Request(config, {"igate"}, "page")
        /\ UNCHANGED <<disk, unread, closed, stale, torn>>
    BY <1>2 DEF PostIgate
  <2> HIDE DEF posted
  <2>3. /\ Configured(config) /\ ~(config.monitor /\ Blocked(config))
        /\ config.call = posted.call /\ config.igCall = posted.igCall /\ config.use = posted.use
        /\ config.monitor => posted.monitor
    BY <2>1, InterlockedIs
  <2> HIDE DEF config
  <2>4. Mirrors(config)
    BY <2>1, <2>3 DEF Mirrors
  <2>5. Content("station", config) = Content("station", ram)
    BY <2>1, <2>3 DEF Content
  <2>6. \/ Content("brandmeister", config) = Content("brandmeister", ram)
        \/ Content("brandmeister", ram) = [monitor |-> TRUE]
    <3>1. config.monitor = ram.monitor \/ ram.monitor = TRUE
      BY <1>0, <2>1, <2>3 DEF Configured
    <3> QED
      BY <3>1 DEF Content
  <2>7. \A name \in Names \ {"igate"} :
          \/ Content(name, config) = Content(name, ram)
          \/ name = "brandmeister" /\ Content(name, ram) = [monitor |-> TRUE]
    BY <2>5, <2>6, NamesAre
  <2>8. {"igate"} \in SUBSET Names
    BY NamesAre
  <2> QED
    BY <1>0, <2>2, <2>3, <2>4, <2>7, <2>8, RequestKeeps
<1>3. ASSUME NEW monitor \in BOOLEAN, PostBm(monitor) PROVE FilesInv'
  <2> DEFINE posted == [ram EXCEPT !.monitor = monitor]
             config == Interlocked(posted)
  <2>1. /\ Configured(posted) /\ posted.call = ram.call /\ posted.igCall = ram.igCall
        /\ posted.use = ram.use /\ posted.inet2rf = ram.inet2rf /\ posted.range = ram.range
    BY <1>0 DEF Configured, Fields
  <2>2. /\ Request(config, {"brandmeister"}, "page")
        /\ UNCHANGED <<disk, unread, closed, stale, torn>>
    BY <1>3 DEF PostBm
  <2> HIDE DEF posted
  <2>3. /\ Configured(config) /\ ~(config.monitor /\ Blocked(config))
        /\ config.call = posted.call /\ config.igCall = posted.igCall /\ config.use = posted.use
        /\ config.inet2rf = posted.inet2rf /\ config.range = posted.range
    BY <2>1, InterlockedIs
  <2> HIDE DEF config
  <2>4. ~torn => Mirrors(config)
    BY <2>1, <2>2, <2>3 DEF Mirrors, FilesInv, Request
  <2>5. \A name \in Names \ {"brandmeister"} : Content(name, config) = Content(name, ram)
    BY <2>1, <2>3, NamesAre DEF Content
  <2>6. {"brandmeister"} \in SUBSET Names
    BY NamesAre
  <2> QED
    BY <1>0, <2>2, <2>3, <2>4, <2>5, <2>6, RequestKeeps
<1>4. ASSUME FactoryReset PROVE FilesInv'
  <2>1. /\ Request(Factory, Names, "page")
        /\ torn' = FALSE /\ UNCHANGED <<disk, closed, stale>>
    BY <1>4 DEF FactoryReset
  <2> QED
    BY <1>0, <2>1, FactoryIs, NamesAre, RequestKeeps DEF Paired
<1>5. ASSUME Format PROVE FilesInv'
  <2>1. /\ Request(Factory, Names, "format") /\ torn' = FALSE
        /\ disk' = [name \in Names |-> {}] /\ UNCHANGED <<closed, stale>>
    BY <1>5 DEF Format
  <2> QED
    BY <2>1, FactoryIs, NamesAre, RequestKeeps DEF Paired
<1> QED
  BY <1>1, <1>2, <1>3, <1>4, <1>5

LEMMA ReplaceKeeps ==
  ASSUME FilesInv, NEW name \in Names, NEW content \in Foreign(name), Replace(name, content)
  PROVE  FilesInv'
<1>1. content = {} \/ \E c \in Contents(name) : content = {c}
  <2>1. CASE name = "station"
    <3>1. content = {} \/ \E call \in Calls : content = {[call |-> call]}
      BY <2>1 DEF Foreign
    <3>2. \A call \in Calls : [call |-> call] \in Contents(name)
      BY <2>1 DEF Contents
    <3> QED
      BY <3>1, <3>2
  <2>2. CASE name = "igate"
    <3> DEFINE file(c, u) == [igCall |-> c, use |-> u, inet2rf |-> TRUE, range |-> FALSE]
    <3>1. content = {} \/ \E call \in Calls, use \in BOOLEAN : content = {file(call, use)}
      BY <2>2 DEF Foreign
    <3>2. \A call \in Calls, use \in BOOLEAN : file(call, use) \in Contents(name)
      BY <2>2 DEF Contents
    <3> HIDE DEF file
    <3> QED
      BY <3>1, <3>2
  <2>3. CASE name = "brandmeister"
    <3>1. content \in {{}, {[monitor |-> TRUE]}}
      BY <2>3 DEF Foreign
    <3>2. [monitor |-> TRUE] \in Contents(name)
      BY <2>3 DEF Contents
    <3> QED
      BY <3>1, <3>2
  <2> QED
    BY <2>1, <2>2, <2>3, NamesAre
<1>2. /\ stage = "up" /\ UNCHANGED <<ram, stage, purpose, todo, allWritten, closed>>
      /\ disk' = [disk EXCEPT ![name] = content]
      /\ stale' = stale \cup {name} /\ torn' = (torn \/ name \in Paired)
  BY DEF Replace, save
<1>3. /\ DOMAIN disk' = Names /\ disk'[name] = content
      /\ \A other \in Names \ {name} : disk'[other] = disk[other]
  BY <1>2 DEF FilesInv, FileType
<1>4. FileType'
  BY <1>1, <1>2, <1>3 DEF FilesInv, FileType, One, Configured
<1>5. \A other \in Names \ todo' : other \in stale' \/ Matches(other)'
  BY <1>2, <1>3 DEF FilesInv, Matches
<1> QED
  BY <1>2, <1>4, <1>5 DEF FilesInv, Mirrors, Blocked

LEMMA CrashKeeps ==
  ASSUME FilesInv, Crash
  PROVE  FilesInv'
<1>1. /\ stage # "boot" /\ stage' = "boot" /\ purpose' = "load" /\ todo' = {}
      /\ allWritten' = TRUE /\ torn' = (torn \/ todo \cap Paired # {})
      /\ UNCHANGED <<ram, disk, closed, stale>>
  BY DEF Crash
<1>2. FileType'
  BY <1>1 DEF FilesInv, FileType, One, Configured
<1>3. ~torn' => DiskMirrors
  <2> SUFFICES ASSUME ~torn, todo \cap Paired = {} PROVE DiskMirrors
    BY <1>1
  <2>1. CASE stage = "retry"
    BY <2>1 DEF FilesInv
  <2>2. CASE stage # "retry"
    <3>1. Matches("station") /\ Matches("igate") /\ Mirrors(ram)
      BY <1>1, <2>2, NamesAre DEF FilesInv, FileType, Paired
    <3> QED
      BY <3>1, MatchMirrors DEF FilesInv
  <2> QED
    BY <2>1, <2>2
<1> QED
  BY <1>1, <1>2, <1>3 DEF FilesInv, DiskMirrors, Blocked

LEMMA FilesStep == FilesInv /\ [FileNext]_fileVars => FilesInv'
<1> SUFFICES ASSUME FilesInv, [FileNext]_fileVars PROVE FilesInv'
  OBVIOUS
<1>1. CASE UNCHANGED fileVars
  BY <1>1 DEF fileVars, save, FilesInv, FileType, One, DiskMirrors, Matches, Mirrors, Blocked, Configured
<1> QED
  BY <1>1, LoadKeeps, SaveNextKeeps, SaveDoneKeeps, PostsKeep, ReplaceKeeps, CrashKeeps DEF FileNext

\* While the station runs, the sections agree with each other and every file with
\* what is live, whatever was posted, failed, cut or replaced before
\* (app_config.c:1598-1610, 2022-2093), for any callsigns and number of posts.
THEOREM FilesKept == FileSpec => []FilesSound
<1>1. FilesInv => FilesSound
  <2> SUFFICES ASSUME FilesInv PROVE FilesSound
    OBVIOUS
  <2>1. SettingsAgree
    BY DEF FilesInv, SettingsAgree, Mirrors
  <2>2. FilesMatch
    BY DEF FilesInv, FileType, FilesMatch, Matches
  <2> QED
    BY <2>1, <2>2 DEF FilesSound
<1> QED
  BY <1>1, FilesStart, FilesStep, PTL DEF FileSpec

\* Booting replaces no file that was read or that there was no memory to read
\* (app_config.c:2061-2070).
THEOREM BootKeepsGoodFiles == FileSpec => GoodFileKept
<1> DEFINE Kept == \A name \in Names :
                     /\ stage = "save" /\ purpose \in {"load", "reload"}
                     /\ disk[name] # {} /\ disk'[name] # disk[name]
                     => name \in closed
<1>1. FilesInv /\ [FileNext]_fileVars => Kept
  <2> SUFFICES ASSUME FilesInv, [FileNext]_fileVars, NEW name \in Names,
                      stage = "save", purpose \in {"load", "reload"},
                      disk[name] # {}, disk'[name] # disk[name]
               PROVE  name \in closed
    OBVIOUS
  <2>1. PICK written \in BOOLEAN : SaveNext(written)
    BY DEF FileNext, Load, SaveDone, PostStation, PostIgate, PostBm, FactoryReset, Format, Request,
           Replace, Crash, fileVars
  <2>2. NextToSave \in todo
    BY <2>1, NextIsDue DEF SaveNext, FilesInv, FileType
  <2>3. name = NextToSave
    BY <2>1 DEF SaveNext, FilesInv, FileType
  <2> QED
    BY <2>2, <2>3 DEF FilesInv
<1>2. FilesInv /\ [FileNext]_fileVars => [Kept]_fileVars
  BY <1>1
<1> QED
  BY <1>2, FilesStart, FilesStep, PTL DEF FileSpec, GoodFileKept

----------------------------------------------------------------------------
(* The session with the server                                             *)

Sessions == [slot : ServerSlots, identity : Nat, filter : Filters] \cup {NoSession}
Talking  == {"silence", "request", "honour", "drop", "update", "clear", "push", "recv"}
TalkInv == /\ pc \in Talking => session # NoSession
           /\ pc \notin Talking \cup {"top"} => session = NoSession
PromisedInv == promised <= identity

DataType ==
  /\ enabled \subseteq ServerSlots /\ identity \in Nat /\ filter \in Filters /\ promised \in Nat
  /\ web \in {None, "reconnect", "update"}
  /\ pc \in Steps /\ idx \in ServerSlots /\ slot \in ServerSlots /\ login \in Logins
  /\ session \in Sessions /\ heavy \in {"free", "igate", "telegram"}
  /\ saves \in Nat /\ toggles \in Nat /\ defers \in Nat

FlagType ==
  /\ reconnect \in BOOLEAN /\ update \in BOOLEAN /\ needed \in BOOLEAN
  /\ online \in BOOLEAN /\ quiet \in BOOLEAN /\ lost \in BOOLEAN

SessionInv == DataType /\ FlagType /\ TalkInv /\ HeavyGivenBack /\ PromisedInv /\ NoLostRequest

-----------------------------------------------------------------------------
(* The rotation *)

\* Within two turns the remainder is one subtraction away.
LEMMA TwoTurns ==
    ASSUME NEW n \in Nat, n < 2 * N
    PROVE  n % N = IF n < N THEN n ELSE n - N
BY SlotsAssumption

\* advanceServer() selects a slot.
LEMMA Rotation == idx \in ServerSlots /\ AdvanceServer => idx' \in ServerSlots
<1> SUFFICES ASSUME idx \in ServerSlots, AdvanceServer PROVE idx' \in ServerSlots
  OBVIOUS
<1> USE SlotsAssumption DEF ServerSlots
<1>1. ASSUME NEW k \in 1 .. N PROVE (idx + k) % N \in 0 .. N - 1
  OBVIOUS
<1> QED
  BY <1>1 DEF AdvanceServer

\* It keeps the current slot only when no other is enabled.
LEMMA Progress ==
  ASSUME idx \in ServerSlots, enabled \subseteq ServerSlots, AdvanceServer, idx' = idx
  PROVE  enabled \subseteq {idx}
<1> USE SlotsAssumption DEF ServerSlots
<1>1. CASE enabled = {}
  BY <1>1
<1>2. ASSUME NEW k \in 1 .. N, \A j \in 1 .. k - 1 : (idx + j) % N \notin enabled,
             idx' = (idx + k) % N
      PROVE  enabled \subseteq {idx}
  <2>1. k = N
    <3>1. idx + k \in Nat /\ idx + k < 2 * N
      OBVIOUS
    <3> QED
      BY <3>1, <1>2, TwoTurns
  <2>2. ASSUME NEW s \in ServerSlots, s # idx PROVE s \notin enabled
    <3> DEFINE j == IF s > idx THEN s - idx ELSE s - idx + N
    <3>1. j \in 1 .. k - 1 /\ idx + j \in Nat /\ idx + j < 2 * N
      BY <2>1, <2>2
    <3>2. (idx + j) % N = s
      BY <3>1, <2>2, TwoTurns
    <3> QED
      BY <3>1, <3>2, <1>2
  <2> QED
    BY <2>2
<1> QED
  BY <1>1, <1>2 DEF AdvanceServer

-----------------------------------------------------------------------------
(* The invariant *)

\* Every step keeps the types of the settings, the task and the session.
LEMMA NextData == DataType /\ TalkInv /\ [IsNext]_isVars => DataType'
<1> SUFFICES ASSUME DataType, TalkInv, [IsNext]_isVars PROVE DataType'
  OBVIOUS
<1> USE DEF DataType, Steps, None, isVars, settings, flags, world, attempt, link, bounds, Go
<1>1. CASE Save
  BY <1>1 DEF Save
<1>2. CASE SaveStation
  BY <1>2 DEF SaveStation
<1>3. CASE Announce
  BY <1>3 DEF Announce
<1>4. CASE Toggle
  BY <1>4 DEF Toggle
<1>5. CASE Telegram
  BY <1>5 DEF Telegram
<1>6. CASE Silence
  BY <1>6 DEF Silence
<1>7. CASE LinkLost
  BY <1>7 DEF LinkLost
<1>8. CASE Top
  BY <1>8 DEF Top, CloseSocket, Sessions
<1>9. CASE HeapLow
  BY <1>9 DEF HeapLow
<1>10. CASE TryHeavyOp
  BY <1>10 DEF TryHeavyOp
<1>11. CASE CopyServer
  <2>1. slot' \in ServerSlots
    BY <1>11, SlotsAssumption DEF CopyServer, CurrentServer, ServerSlots
  <2> QED
    BY <2>1, <1>11 DEF CopyServer
<1>12. CASE CopyLogin
  BY <1>12 DEF CopyLogin, Logins
<1>13. CASE ConnectFails
  <2>1. idx' \in ServerSlots
    BY <1>13, Rotation DEF ConnectFails
  <2> QED
    BY <2>1, <1>13 DEF ConnectFails, ReleaseHeavy
<1>14. CASE Connects
  BY <1>14 DEF Connects
<1>15. CASE LoginFails
  <2>1. idx' \in ServerSlots
    BY <1>15, Rotation DEF LoginFails
  <2> QED
    BY <2>1, <1>15 DEF LoginFails, ReleaseHeavy
<1>16. CASE LogsIn
  <2>1. session' \in Sessions
    BY <1>16 DEF LogsIn, Sessions, Logins
  <2> QED
    BY <2>1, <1>16 DEF LogsIn
<1>17. CASE CheckSilence
  <2>1. idx' \in ServerSlots
    BY <1>17, Rotation DEF CheckSilence, EndSession, LeaveServer
  <2>2. session' \in Sessions
    BY <1>17 DEF CheckSilence, EndSession, CloseSocket, Sessions
  <2> QED
    BY <2>1, <2>2, <1>17 DEF CheckSilence
<1>18. CASE CheckReconnect
  BY <1>18 DEF CheckReconnect
<1>19. CASE ClearRequests
  BY <1>19 DEF ClearRequests
<1>20. CASE Drop
  BY <1>20 DEF Drop, CloseSocket, Sessions
<1>21. CASE CheckUpdate
  BY <1>21 DEF CheckUpdate
<1>22. CASE ClearUpdate
  BY <1>22 DEF ClearUpdate
<1>23. CASE PushFilter
  <2>1. session' \in Sessions
    <3>1. CASE UNCHANGED session
      BY <3>1
    <3>2. CASE filter # "" /\ session' = [session EXCEPT !.filter = filter]
      <4>1. session \in [slot : ServerSlots, identity : Nat, filter : Filters]
        BY <1>23 DEF PushFilter, TalkInv, Sessions, Talking
      <4>2. session' \in [slot : ServerSlots, identity : Nat, filter : Filters]
        BY <3>2, <4>1
      <4> QED
        BY <4>2 DEF Sessions
    <3> QED
      BY <3>1, <3>2, <1>23 DEF PushFilter
  <2> QED
    BY <2>1, <1>23 DEF PushFilter
<1>24. CASE Recv
  <2>1. idx' \in ServerSlots
    BY <1>24, Rotation DEF Recv, EndSession, LeaveServer
  <2>2. session' \in Sessions
    BY <1>24 DEF Recv, EndSession, CloseSocket, Sessions
  <2> QED
    BY <2>1, <2>2, <1>24 DEF Recv
<1>25. CASE UNCHANGED isVars
  BY <1>25
<1> QED
  BY <1>1, <1>2, <1>3, <1>4, <1>5, <1>6, <1>7, <1>8, <1>9, <1>10, <1>11, <1>12, <1>13, <1>14, <1>15, <1>16, <1>17, <1>18, <1>19, <1>20, <1>21, <1>22, <1>23, <1>24, <1>25 DEF IsNext, Dial, Loop

\* Every step keeps the flags Boolean.
LEMMA NextFlags == FlagType /\ [IsNext]_isVars => FlagType'
<1> SUFFICES ASSUME FlagType, [IsNext]_isVars PROVE FlagType'
  OBVIOUS
<1> USE DEF FlagType, isVars, settings, flags, world, attempt, link, bounds, Go
<1>1. CASE Save
  BY <1>1, Zenon DEF Save
<1>2. CASE SaveStation
  BY <1>2, Zenon DEF SaveStation
<1>3. CASE Announce
  BY <1>3, Zenon DEF Announce
<1>4. CASE Toggle
  BY <1>4, Zenon DEF Toggle
<1>5. CASE Telegram
  BY <1>5, Zenon DEF Telegram
<1>6. CASE Silence
  BY <1>6, Zenon DEF Silence
<1>7. CASE LinkLost
  BY <1>7, Zenon DEF LinkLost
<1>8. CASE Top
  BY <1>8, Zenon DEF Top, CloseSocket, EndSession, RequestKept, TooSilent
<1>9. CASE HeapLow
  BY <1>9, Zenon DEF HeapLow
<1>10. CASE TryHeavyOp
  BY <1>10, Zenon DEF TryHeavyOp
<1>11. CASE CopyServer
  BY <1>11, Zenon DEF CopyServer
<1>12. CASE CopyLogin
  BY <1>12, Zenon DEF CopyLogin
<1>13. CASE ConnectFails
  BY <1>13, Zenon DEF ConnectFails
<1>14. CASE Connects
  BY <1>14, Zenon DEF Connects
<1>15. CASE LoginFails
  BY <1>15, Zenon DEF LoginFails
<1>16. CASE LogsIn
  BY <1>16, Zenon DEF LogsIn, CloseSocket, EndSession, RequestKept, TooSilent
<1>17. CASE CheckSilence
  BY <1>17, Zenon DEF CheckSilence, CloseSocket, EndSession, RequestKept, TooSilent
<1>18. CASE CheckReconnect
  BY <1>18, Zenon DEF CheckReconnect
<1>19. CASE ClearRequests
  BY <1>19, Zenon DEF ClearRequests
<1>20. CASE Drop
  BY <1>20, Zenon DEF Drop, CloseSocket, EndSession, RequestKept, TooSilent
<1>21. CASE CheckUpdate
  BY <1>21, Zenon DEF CheckUpdate
<1>22. CASE ClearUpdate
  BY <1>22, Zenon DEF ClearUpdate
<1>23. CASE PushFilter
  BY <1>23, Zenon DEF PushFilter
<1>24. CASE Recv
  BY <1>24, Zenon DEF Recv, CloseSocket, EndSession, RequestKept, TooSilent
<1>25. CASE UNCHANGED isVars
  BY <1>25, Zenon
<1> QED
  BY <1>1, <1>2, <1>3, <1>4, <1>5, <1>6, <1>7, <1>8, <1>9, <1>10, <1>11, <1>12, <1>13, <1>14, <1>15, <1>16, <1>17, <1>18, <1>19, <1>20, <1>21, <1>22, <1>23, <1>24, <1>25 DEF IsNext, Dial, Loop

\* Every step keeps the copies of an attempt and the session in step.
LEMMA NextTalk == DataType /\ TalkInv /\ [IsNext]_isVars => TalkInv'
<1> SUFFICES ASSUME DataType, TalkInv, [IsNext]_isVars PROVE TalkInv'
  OBVIOUS
<1> USE DEF TalkInv, DataType, Steps, Talking, isVars, settings, flags, world, attempt, link, bounds, Go
<1>1. CASE Save
  BY <1>1 DEF Save
<1>2. CASE SaveStation
  BY <1>2 DEF SaveStation
<1>3. CASE Announce
  BY <1>3 DEF Announce
<1>4. CASE Toggle
  BY <1>4 DEF Toggle
<1>5. CASE Telegram
  BY <1>5 DEF Telegram
<1>6. CASE Silence
  BY <1>6 DEF Silence
<1>7. CASE LinkLost
  BY <1>7 DEF LinkLost
<1>8. CASE Top
  BY <1>8 DEF Top, CloseSocket
<1>9. CASE HeapLow
  BY <1>9 DEF HeapLow
<1>10. CASE TryHeavyOp
  BY <1>10 DEF TryHeavyOp
<1>11. CASE CopyServer
  BY <1>11 DEF CopyServer
<1>12. CASE CopyLogin
  BY <1>12 DEF CopyLogin
<1>13. CASE ConnectFails
  BY <1>13 DEF ConnectFails
<1>14. CASE Connects
  BY <1>14 DEF Connects
<1>15. CASE LoginFails
  BY <1>15 DEF LoginFails
<1>16. CASE LogsIn
  <2>1. session'.slot = slot /\ slot # N
    BY <1>16, SlotsAssumption DEF LogsIn, ServerSlots
  <2>2. NoSession.slot = N
    BY DEF NoSession
  <2> QED
    BY <2>1, <2>2, <1>16 DEF LogsIn
<1>17. CASE CheckSilence
  BY <1>17 DEF CheckSilence, TooSilent, EndSession, LeaveServer, AdvanceServer, CloseSocket
<1>18. CASE CheckReconnect
  BY <1>18 DEF CheckReconnect
<1>19. CASE ClearRequests
  BY <1>19 DEF ClearRequests
<1>20. CASE Drop
  BY <1>20 DEF Drop, CloseSocket
<1>21. CASE CheckUpdate
  BY <1>21 DEF CheckUpdate
<1>22. CASE ClearUpdate
  BY <1>22 DEF ClearUpdate
<1>23. CASE PushFilter
  <2>1. session # NoSession /\ pc = "push"
    BY <1>23 DEF PushFilter
  <2>2. session \in [slot : ServerSlots, identity : Nat, filter : Filters]
    BY <2>1 DEF Sessions
  <2>3. session'.slot = session.slot
    BY <2>2, <1>23 DEF PushFilter
  <2>5. session.slot # N
    BY <2>2, SlotsAssumption DEF ServerSlots
  <2>4. NoSession.slot = N
    BY DEF NoSession
  <2> QED
    BY <2>3, <2>4, <2>5, <1>23 DEF PushFilter
<1>24. CASE Recv
  BY <1>24 DEF Recv, EndSession, LeaveServer, AdvanceServer, CloseSocket
<1>25. CASE UNCHANGED isVars
  BY <1>25
<1> QED
  BY <1>1, <1>2, <1>3, <1>4, <1>5, <1>6, <1>7, <1>8, <1>9, <1>10, <1>11, <1>12, <1>13, <1>14, <1>15, <1>16, <1>17, <1>18, <1>19, <1>20, <1>21, <1>22, <1>23, <1>24, <1>25 DEF IsNext, Dial, Loop

\* No exit of an attempt keeps the heavy-operation lock.
LEMMA NextHeavy == HeavyGivenBack /\ [IsNext]_isVars => HeavyGivenBack'
<1> SUFFICES ASSUME HeavyGivenBack, [IsNext]_isVars PROVE HeavyGivenBack'
  OBVIOUS
<1> USE DEF HeavyGivenBack, isVars, settings, flags, world, attempt, link, bounds, Go
<1>1. CASE Save
  BY <1>1 DEF Save
<1>2. CASE SaveStation
  BY <1>2 DEF SaveStation
<1>3. CASE Announce
  BY <1>3 DEF Announce
<1>4. CASE Toggle
  BY <1>4 DEF Toggle
<1>5. CASE Telegram
  BY <1>5 DEF Telegram
<1>6. CASE Silence
  BY <1>6 DEF Silence
<1>7. CASE LinkLost
  BY <1>7 DEF LinkLost
<1>8. CASE Top
  BY <1>8 DEF Top
<1>9. CASE HeapLow
  BY <1>9 DEF HeapLow
<1>10. CASE TryHeavyOp
  BY <1>10 DEF TryHeavyOp
<1>11. CASE CopyServer
  BY <1>11 DEF CopyServer
<1>12. CASE CopyLogin
  BY <1>12 DEF CopyLogin
<1>13. CASE ConnectFails
  BY <1>13 DEF ConnectFails, ReleaseHeavy, AdvanceServer
<1>14. CASE Connects
  BY <1>14 DEF Connects
<1>15. CASE LoginFails
  BY <1>15 DEF LoginFails
<1>16. CASE LogsIn
  BY <1>16 DEF LogsIn
<1>17. CASE CheckSilence
  BY <1>17 DEF CheckSilence
<1>18. CASE CheckReconnect
  BY <1>18 DEF CheckReconnect
<1>19. CASE ClearRequests
  BY <1>19 DEF ClearRequests
<1>20. CASE Drop
  BY <1>20 DEF Drop
<1>21. CASE CheckUpdate
  BY <1>21 DEF CheckUpdate
<1>22. CASE ClearUpdate
  BY <1>22 DEF ClearUpdate
<1>23. CASE PushFilter
  BY <1>23 DEF PushFilter
<1>24. CASE Recv
  BY <1>24 DEF Recv
<1>25. CASE UNCHANGED isVars
  BY <1>25
<1> QED
  BY <1>1, <1>2, <1>3, <1>4, <1>5, <1>6, <1>7, <1>8, <1>9, <1>10, <1>11, <1>12, <1>13, <1>14, <1>15, <1>16, <1>17, <1>18, <1>19, <1>20, <1>21, <1>22, <1>23, <1>24, <1>25 DEF IsNext, Dial, Loop

\* No session is ahead of the settings: identities only grow.
LEMMA NextPromised == DataType /\ PromisedInv /\ [IsNext]_isVars => PromisedInv'
<1> SUFFICES ASSUME DataType, PromisedInv, [IsNext]_isVars PROVE PromisedInv'
  OBVIOUS
<1> USE DEF PromisedInv, DataType, isVars, settings, flags, world, attempt, link, bounds, Go
<1>1. CASE Save
  BY <1>1 DEF Save
<1>2. CASE SaveStation
  BY <1>2 DEF SaveStation
<1>3. CASE Announce
  BY <1>3 DEF Announce
<1>4. CASE Toggle
  BY <1>4 DEF Toggle
<1>5. CASE Telegram
  BY <1>5 DEF Telegram
<1>6. CASE Silence
  BY <1>6 DEF Silence
<1>7. CASE LinkLost
  BY <1>7 DEF LinkLost
<1>8. CASE Top
  BY <1>8 DEF Top
<1>9. CASE HeapLow
  BY <1>9 DEF HeapLow
<1>10. CASE TryHeavyOp
  BY <1>10 DEF TryHeavyOp
<1>11. CASE CopyServer
  BY <1>11 DEF CopyServer
<1>12. CASE CopyLogin
  BY <1>12 DEF CopyLogin
<1>13. CASE ConnectFails
  BY <1>13 DEF ConnectFails
<1>14. CASE Connects
  BY <1>14 DEF Connects
<1>15. CASE LoginFails
  BY <1>15 DEF LoginFails
<1>16. CASE LogsIn
  BY <1>16 DEF LogsIn
<1>17. CASE CheckSilence
  BY <1>17 DEF CheckSilence
<1>18. CASE CheckReconnect
  BY <1>18 DEF CheckReconnect
<1>19. CASE ClearRequests
  BY <1>19 DEF ClearRequests
<1>20. CASE Drop
  BY <1>20 DEF Drop
<1>21. CASE CheckUpdate
  BY <1>21 DEF CheckUpdate
<1>22. CASE ClearUpdate
  BY <1>22 DEF ClearUpdate
<1>23. CASE PushFilter
  BY <1>23 DEF PushFilter
<1>24. CASE Recv
  BY <1>24 DEF Recv
<1>25. CASE UNCHANGED isVars
  BY <1>25
<1> QED
  BY <1>1, <1>2, <1>3, <1>4, <1>5, <1>6, <1>7, <1>8, <1>9, <1>10, <1>11, <1>12, <1>13, <1>14, <1>15, <1>16, <1>17, <1>18, <1>19, <1>20, <1>21, <1>22, <1>23, <1>24, <1>25 DEF IsNext, Dial, Loop

\* Every step keeps a request alive until a session of the new identity.
LEMMA NextRequest == DataType /\ TalkInv /\ PromisedInv /\ NoLostRequest /\ [IsNext]_isVars => NoLostRequest'
<1> SUFFICES ASSUME DataType, TalkInv, PromisedInv, NoLostRequest, [IsNext]_isVars PROVE NoLostRequest'
  OBVIOUS
<1> USE DEF NoLostRequest, PromisedInv, DataType, Steps, None, isVars, settings, flags, world, attempt, link, bounds, Go
<1>1. CASE Save
  BY <1>1 DEF Save
<1>2. CASE SaveStation
  BY <1>2 DEF SaveStation
<1>3. CASE Announce
  BY <1>3 DEF Announce
<1>4. CASE Toggle
  BY <1>4 DEF Toggle
<1>5. CASE Telegram
  BY <1>5 DEF Telegram
<1>6. CASE Silence
  BY <1>6 DEF Silence
<1>7. CASE LinkLost
  BY <1>7 DEF LinkLost
<1>8. CASE Top
  BY <1>8 DEF Top, CloseSocket
<1>9. CASE HeapLow
  BY <1>9 DEF HeapLow
<1>10. CASE TryHeavyOp
  BY <1>10 DEF TryHeavyOp
<1>11. CASE CopyServer
  BY <1>11 DEF CopyServer
<1>12. CASE CopyLogin
  BY <1>12 DEF CopyLogin
<1>13. CASE ConnectFails
  BY <1>13 DEF ConnectFails
<1>14. CASE Connects
  BY <1>14 DEF Connects
<1>15. CASE LoginFails
  BY <1>15 DEF LoginFails
<1>16. CASE LogsIn
  BY <1>16 DEF LogsIn, RequestKept
<1>17. CASE CheckSilence
  BY <1>17 DEF CheckSilence, TooSilent, EndSession, LeaveServer, AdvanceServer, CloseSocket
<1>18. CASE CheckReconnect
  BY <1>18 DEF CheckReconnect
<1>19. CASE ClearRequests
  BY <1>19 DEF ClearRequests
<1>20. CASE Drop
  BY <1>20 DEF Drop, CloseSocket
<1>21. CASE CheckUpdate
  BY <1>21 DEF CheckUpdate
<1>22. CASE ClearUpdate
  BY <1>22 DEF ClearUpdate
<1>23. CASE PushFilter
  <2>1. pc = "push" /\ session # NoSession
    BY <1>23 DEF PushFilter, TalkInv, Talking
  <2>2. session \in [slot : ServerSlots, identity : Nat, filter : Filters]
    BY <2>1 DEF Sessions
  <2>3. session'.identity = session.identity
    BY <2>2, <1>23 DEF PushFilter
  <2> QED
    BY <2>1, <2>3, <1>23 DEF PushFilter
<1>24. CASE Recv
  BY <1>24 DEF Recv, EndSession, LeaveServer, AdvanceServer, CloseSocket
<1>25. CASE UNCHANGED isVars
  BY <1>25
<1> QED
  BY <1>1, <1>2, <1>3, <1>4, <1>5, <1>6, <1>7, <1>8, <1>9, <1>10, <1>11, <1>12, <1>13, <1>14, <1>15, <1>16, <1>17, <1>18, <1>19, <1>20, <1>21, <1>22, <1>23, <1>24, <1>25 DEF IsNext, Dial, Loop

\* The inductive invariant holds at boot.
LEMMA InitInv == IsInit => SessionInv
<1> SUFFICES ASSUME IsInit PROVE SessionInv
  OBVIOUS
<1>0. /\ enabled \in SUBSET ServerSlots /\ identity = 0 /\ filter \in Filters /\ promised = 0
      /\ web = None /\ pc = "top" /\ idx = 0 /\ slot = 0
      /\ login = [identity |-> 0, filter |-> ""] /\ session = NoSession /\ heavy = "free"
      /\ saves = 0 /\ toggles = 0 /\ defers = 0
  BY Zenon DEF IsInit
<1>1. DataType
  <2>1. login \in Logins
    BY <1>0, FiltersAssumption DEF Logins
  <2>2. idx \in ServerSlots /\ slot \in ServerSlots
    <3>1. 0 \in ServerSlots
      BY SlotsAssumption DEF ServerSlots
    <3> QED
      BY <1>0, <3>1, Zenon
  <2>3. session \in Sessions /\ enabled \subseteq ServerSlots
    BY <1>0 DEF Sessions
  <2> QED
    BY <1>0, <2>1, <2>2, <2>3 DEF DataType, Steps
<1>2. FlagType
  BY Zenon DEF IsInit, FlagType
<1>3. TalkInv
  BY <1>0 DEF TalkInv, Talking
<1>4. HeavyGivenBack /\ PromisedInv
  <2>1. 0 <= 0
    OBVIOUS
  <2>2. promised <= identity
    BY <1>0, <2>1, Zenon
  <2>3. heavy # "igate"
    BY <1>0, Zenon
  <2> QED
    BY <2>2, <2>3 DEF HeavyGivenBack, PromisedInv
<1>5. NoLostRequest
  BY <1>0 DEF NoLostRequest
<1> QED
  BY <1>1, <1>2, <1>3, <1>4, <1>5 DEF SessionInv

\* Every step keeps the inductive invariant.
LEMMA NextInv == SessionInv /\ [IsNext]_isVars => SessionInv'
  BY NextData, NextFlags, NextTalk, NextHeavy, NextPromised, NextRequest DEF SessionInv

\* The inductive invariant holds throughout.
LEMMA Invariance == IsSpec => []SessionInv
  BY InitInv, NextInv, PTL DEF IsSpec

\* The session machine keeps its types; the selection stays inside the table.
THEOREM SessionTypes == IsSpec => []IsTypeOK
<1>1. SessionInv => IsTypeOK
  BY Zenon DEF SessionInv, DataType, FlagType, IsTypeOK, Sessions
<1> QED
  BY <1>1, Invariance, PTL

\* The heavy-operation lock is held between its acquisition and the end of the
\* connect only: none of the attempt's exits keeps it.
THEOREM HeavyReturned == IsSpec => []HeavyGivenBack
<1>1. SessionInv => HeavyGivenBack
  BY DEF SessionInv
<1> QED
  BY <1>1, Invariance, PTL

\* No order of the save, the copies, the two accesses to the flag and the login
\* leaves a session on an identity the IGate page has replaced, unless its
\* drop is already decided.
THEOREM NoRequestLost == IsSpec => []NoLostRequest
<1>1. SessionInv => NoLostRequest
  BY DEF SessionInv
<1> QED
  BY <1>1, Invariance, PTL

\* A server that ends a session is left for another enabled slot, if there is
\* one, for every number of slots and every set of enabled ones.
THEOREM ServerLeftBehind == IsSpec => LeftBehind
<1>1. SessionInv /\ [IsNext]_isVars =>
        [session # NoSession /\ session' = NoSession /\ pc \in {"silence", "recv"}
           => idx' # idx \/ enabled \subseteq {idx}]_isVars
  <2> SUFFICES ASSUME SessionInv, [IsNext]_isVars, session # NoSession, session' = NoSession,
                      pc \in {"silence", "recv"}
               PROVE  idx' # idx \/ enabled \subseteq {idx}
    OBVIOUS
  <2>1. AdvanceServer
    <3>1. CheckSilence \/ Recv
      BY DEF IsNext, Dial, Loop, Go, isVars, link, settings, Save, SaveStation, Announce, Toggle,
        Telegram, Silence, LinkLost, Top, HeapLow, TryHeavyOp, CopyServer, CopyLogin,
        ConnectFails, Connects, LoginFails, LogsIn, CheckReconnect, ClearRequests, Drop,
        CheckUpdate, ClearUpdate, PushFilter
    <3> QED
      BY <3>1 DEF CheckSilence, Recv, EndSession, LeaveServer, link
  <2> QED
    BY <2>1, Progress DEF SessionInv, DataType
<1> QED
  BY <1>1, Invariance, PTL DEF IsSpec, LeftBehind

\* What the run checks of a session's lock and requests in one formula.
THEOREM UplinkStaysKept == IsSpec => []UplinkKept
<1> QED
  BY SessionTypes, HeavyReturned, NoRequestLost, PTL DEF UplinkKept
=============================================================================
