--------------------------- MODULE TxChain_proofs ---------------------------
(***************************************************************************)
(* Proofs about the transmit chain, for any set of producers and any ring. *)
(* The argument is the inductive invariant IInv: who may touch what while  *)
(* the other parties are where they are.                                   *)
(***************************************************************************)
EXTENDS TxChain, DutyCycle, Integers, FiniteSetTheorems, WellFoundedInduction, TLAPS

Aside   == {"top", "held", "leave"}                 \* the service task outside its work
HoldsIt == {"idling", "abandon", "abort", "lock", "reset", "release"}

\* The hold handshake: once the rebuild has seen the acknowledgement, even a
\* stale one, the service task cannot get past the head of its loop.
HoldInv ==
  /\ holdReq = (rb # "idle")
  /\ held => svc \in {"held", "leave"}
  /\ rb \in HoldsIt => svc \in Aside

\* The TX lock has one holder, and a producer that has found room keeps it.
LockInv ==
  /\ \A p \in Producers : writer[p] # "idle" => lock = p
  /\ rb = "reset" => lock = "rebuild"
  /\ \A p \in Producers : writer[p] = "publish" => ~Full

\* Who runs, who may still run, and what the line shows.
KeyInv ==
  /\ active => ptt /\ clock /\ stage = "transmitting"
  /\ active => isr \in {"out", "in", "retire", "pending", "clear"}
  /\ ptt => active \/ svc = "start" \/ isr = "pin"
  /\ isr = "clear" /\ active => stopPending
  /\ clock => active \/ stopPending
  /\ isr # "out" => stage = "transmitting"
  /\ svc = "poll" /\ seen # "transmitting" => stage # "transmitting"
  /\ svc = "gate" => stage # "transmitting"
  /\ svc \in {"ptt", "start"} => isr = "out" /\ ~active /\ stage = "transmitting"
  /\ svc = "start" => ptt
  /\ svc = "abort" => ~active /\ ~clock
  /\ rb \in {"abort", "lock", "reset"} => ~active /\ ~clock

\* The frame on the air is the one at the tail, until it is retired.
FrameInv ==
  /\ aired <= 1
  /\ stage = "waiting" => ~Empty
  /\ svc = "ptt" => ~Empty /\ phase = "preamble"
  /\ phase \in {"preamble", "data", "footer"} => ~Empty /\ (svc # "ptt" => aired = 0)
  /\ isr = "retire" => phase = "footer"
  /\ phase = "tail" \/ isr \in {"pending", "clear"} => aired = 1
  /\ svc = "ptt" => isr = "out"

\* From a key-down to the next key-up the service task sleeps once with the
\* line low, and forgets when the last key-up began.
GapInv ==
  /\ gap = "begun" => svc = "top"
  /\ svc \in {"gate", "ptt"} => gap = "done"
  /\ gap = "none" => stage = "transmitting" \/ justDown \/ holdoff \/ svc = "timeout"
  /\ isr = "off" /\ gap = "none" => justDown \/ svc = "timeout"
  /\ active \/ svc = "start" => gap = "none"
  /\ svc = "ptt" => ~clock /\ ~stopPending
  /\ keyedAt # 0 => gap = "none" /\ keyedAt = keyUps

IInv == TypeInv /\ HoldInv /\ LockInv /\ KeyInv /\ NoOrphanKeyUp /\ FrameInv /\ GapInv

-----------------------------------------------------------------------------
(* The ring indices *)

\* The next index is one of the ring.
LEMMA RingNextInRing == \A i \in Ring : RingNext(i) \in Ring
  BY SlotsAssumption DEF Ring, RingNext

\* With two slots or more the next index is another one.
LEMMA RingNextMoves == \A i \in Ring : RingNext(i) # i
  BY SlotsAssumption DEF Ring, RingNext

\* No two indices have the same successor.
LEMMA RingNextInjective == \A i, j \in Ring : RingNext(i) = RingNext(j) => i = j
  BY SlotsAssumption DEF Ring, RingNext

-----------------------------------------------------------------------------
(* Types *)

\* The types hold at boot.
LEMMA InitType == Init => TypeInv
<1> SUFFICES ASSUME Init PROVE TypeInv
  OBVIOUS
<1>1. DataType
  BY SlotsAssumption, MissAssumption, RebuildAssumption
  DEF Init, DataType, Ring, SvcSteps, IsrSteps, RbSteps, Stages, Phases
<1>2. FlagType
  BY Zenon DEF Init, FlagType
<1> QED
  BY <1>1, <1>2 DEF TypeInv

\* Every step keeps the types of ring, stages and program counters.
LEMMA NextData == DataType /\ [Next]_vars => DataType'
<1> SUFFICES ASSUME DataType, [Next]_vars PROVE DataType'
  OBVIOUS
<1> USE SlotsAssumption, MissAssumption, RebuildAssumption, RingNextInRing
<1> USE DEF DataType, SvcSteps, IsrSteps, RbSteps, Stages, Phases, ring, offer, phy, gates, access, chain, history
<1>1. ASSUME NEW p \in Producers, TakeTxLock(p) PROVE DataType'
  BY <1>1 DEF TakeTxLock, LockFree
<1>2. ASSUME NEW p \in Producers, FillSlot(p) PROVE DataType'
  <2>1. offered' = offered + 1 /\ offered' \in Nat
    BY <1>2 DEF FillSlot
  <2>2. CASE Full
    BY <1>2, <2>1, <2>2 DEF FillSlot
  <2>3. CASE ~Full
    <3>1. cell' \in [Ring -> Nat]
      BY <1>2, <2>1, <2>3 DEF FillSlot
    <3>2. writer' \in [Producers -> {"idle", "encode", "publish"}]
      BY <1>2, <2>3 DEF FillSlot
    <3>3. UNCHANGED <<head, tail, lock, stage, phase, isr, svc, seen, busy, misses, keyedAt,
                      rb, rebuilds, history>>
      BY <1>2, <2>3, Zenon DEF FillSlot
    <3> QED
      BY <2>1, <3>1, <3>2, <3>3
  <2> QED
    BY <2>2, <2>3
<1>3. ASSUME NEW p \in Producers, PublishSlot(p) PROVE DataType'
  BY <1>3 DEF PublishSlot
<1>4. CASE IsrEnter
  BY <1>4 DEF IsrEnter
<1>5. CASE GetTxBit
  BY <1>5 DEF GetTxBit, AfterFrame, Empty
<1>6. CASE Retire
  BY <1>6 DEF Retire, AfterFrame
<1>7. CASE IsrStop
  BY <1>7 DEF IsrStop, KeyDown
<1>8. CASE SvcTop
  BY <1>8 DEF SvcTop, ServiceTx
<1>9. CASE SvcLeaveHold
  BY <1>9 DEF SvcLeaveHold, LoopHead
<1>10. CASE SvcSnapshot
  BY <1>10 DEF SvcSnapshot
<1>11. CASE SvcPoll
  <2>1. svc' \in SvcSteps
    BY <1>11, Zenon DEF SvcPoll
  <2>2. UNCHANGED <<ring, offer, stage, phase, isr, seen, busy, misses, keyedAt, rb, rebuilds,
                    history>>
    BY <1>11, Zenon DEF SvcPoll
  <2> QED
    BY <2>1, <2>2
<1>12. CASE SvcGate
  <2>1. /\ stage' \in Stages /\ phase' \in Phases /\ svc' \in SvcSteps
        /\ busy' \in {"no", "counting", "over"}
    BY <1>12 DEF SvcGate, KeyUp, WaitSlot
  <2>2. misses' \in {0, misses} \/ (misses + 1 < MissMax /\ misses' = misses + 1)
    BY <1>12, Zenon DEF SvcGate, KeyUp, WaitSlot
  <2>3. misses' \in 0 .. MissMax
    BY <2>2
  <2>4. UNCHANGED <<ring, offer, isr, seen, keyedAt, chain, history>>
    BY <1>12, Zenon DEF SvcGate
  <2> QED
    BY <2>1, <2>3, <2>4
<1>13. CASE SvcKeyLine
  BY <1>13 DEF SvcKeyLine
<1>14. CASE SvcStart
  BY <1>14 DEF SvcStart
<1>15. CASE SvcTimeout
  BY <1>15 DEF SvcTimeout, Forgotten
<1>16. CASE SvcRelease
  <2>1. /\ cell' = cell /\ head' = head /\ tail' \in {tail, head}
        /\ stage' \in {stage, "off"} /\ phase' \in {phase, "idle"}
        /\ busy' \in {busy, "no"} /\ misses' \in {misses, 0}
    BY <1>16, Zenon DEF SvcRelease, ServiceTx, StopModulator, AbortTransmit, BackToIdle
  <2>2. UNCHANGED <<offer, isr, seen, chain, history>> /\ keyedAt' \in {keyedAt, 0}
    BY <1>16, Zenon DEF SvcRelease
  <2>3. svc' \in SvcSteps
    BY <1>16, Zenon DEF SvcRelease
  <2> QED
    BY <2>1, <2>2, <2>3
<1>17. CASE RbRequest
  BY <1>17 DEF RbRequest
<1>18. CASE RbHeld
  BY <1>18 DEF RbHeld
<1>19. CASE RbWaitIdle
  <2>1. /\ cell' = cell /\ head' = head /\ tail' \in {tail, head}
        /\ stage' \in {stage, "off"} /\ phase' \in {phase, "idle"}
        /\ busy' \in {busy, "no"} /\ misses' \in {misses, 0}
    BY <1>19, Zenon DEF RbWaitIdle, ServiceTx, StopModulator, AbortTransmit, BackToIdle
  <2>2. UNCHANGED <<offer, isr, svc, seen, keyedAt, rebuilds, history>>
    BY <1>19, Zenon DEF RbWaitIdle
  <2>3. rb' \in RbSteps
    BY <1>19, Zenon DEF RbWaitIdle
  <2> QED
    BY <2>1, <2>2, <2>3
<1>20. CASE RbLock
  BY <1>20 DEF RbLock, LockFree
<1>21. CASE RbReset
  <2>1. /\ cell' = cell /\ head' = 0 /\ tail' = 0 /\ stage' = "off" /\ phase' = "idle"
        /\ busy' = "no" /\ misses' = 0 /\ keyedAt' = 0 /\ lock' = "none" /\ rb' = "release"
    BY <1>21, Zenon DEF RbReset, BackToIdle
  <2>2. UNCHANGED <<writer, offered, isr, svc, seen, rebuilds, history>>
    BY <1>21, Zenon DEF RbReset
  <2>3. 0 \in Ring
    BY DEF Ring
  <2> QED
    BY <2>1, <2>2, <2>3
<1>22. CASE RbRelease
  BY <1>22 DEF RbRelease
<1>23. CASE QuietElapses
  BY <1>23 DEF QuietElapses
<1>24. CASE UnkeyElapses
  BY <1>24 DEF UnkeyElapses
<1>25. CASE BusyElapses
  BY <1>25 DEF BusyElapses
<1>26. CASE UNCHANGED vars
  BY <1>26 DEF vars
<1> QED
  BY <1>1, <1>2, <1>3, <1>4, <1>5, <1>6, <1>7, <1>8, <1>9, <1>10, <1>11, <1>12, <1>13, <1>14, <1>15, <1>16, <1>17, <1>18, <1>19, <1>20, <1>21, <1>22, <1>23, <1>24, <1>25, <1>26 DEF Next, Produce, Interrupt, Service, Rebuild

\* Every step keeps the flags Boolean.
LEMMA NextFlag == FlagType /\ [Next]_vars => FlagType'
<1> SUFFICES ASSUME FlagType, [Next]_vars PROVE FlagType'
  OBVIOUS
<1> USE DEF FlagType, ring, offer, phy, gates, access, chain, history
<1>1. ASSUME NEW p \in Producers, TakeTxLock(p) PROVE FlagType'
  BY <1>1, Zenon DEF TakeTxLock, LockFree
<1>2. ASSUME NEW p \in Producers, FillSlot(p) PROVE FlagType'
  BY <1>2, Zenon DEF FillSlot, Full
<1>3. ASSUME NEW p \in Producers, PublishSlot(p) PROVE FlagType'
  BY <1>3, Zenon DEF PublishSlot
<1>4. CASE IsrEnter
  BY <1>4, Zenon DEF IsrEnter
<1>5. CASE GetTxBit
  BY <1>5, Zenon DEF GetTxBit, AfterFrame, Empty
<1>6. CASE Retire
  BY <1>6, Zenon DEF Retire, AfterFrame
<1>7. CASE IsrStop
  BY <1>7, Zenon DEF IsrStop, KeyDown
<1>8. CASE SvcTop
  BY <1>8, Zenon DEF SvcTop, ServiceTx
<1>9. CASE SvcLeaveHold
  BY <1>9, ZenonT(30) DEF SvcLeaveHold, LoopHead
<1>10. CASE SvcSnapshot
  BY <1>10, Zenon DEF SvcSnapshot
<1>11. CASE SvcPoll
  BY <1>11, Zenon DEF SvcPoll, JustUnkeyed
<1>12. CASE SvcGate
  BY <1>12, ZenonT(30) DEF SvcGate, KeyUp, WaitSlot, WaitedEnough, Empty
<1>13. CASE SvcKeyLine
  BY <1>13, Zenon DEF SvcKeyLine
<1>14. CASE SvcStart
  BY <1>14, Zenon DEF SvcStart
<1>15. CASE SvcTimeout
  BY <1>15, Zenon DEF SvcTimeout, Forgotten
<1>16. CASE SvcRelease
  BY <1>16, Zenon DEF SvcRelease, StopModulator, AbortTransmit, BackToIdle, IsrSettled
<1>17. CASE RbRequest
  BY <1>17, Zenon DEF RbRequest
<1>18. CASE RbHeld
  BY <1>18, Zenon DEF RbHeld
<1>19. CASE RbWaitIdle
  BY <1>19, Zenon DEF RbWaitIdle, ServiceTx, StopModulator, AbortTransmit, BackToIdle, IsrSettled
<1>20. CASE RbLock
  BY <1>20, Zenon DEF RbLock, LockFree
<1>21. CASE RbReset
  BY <1>21, Zenon DEF RbReset, BackToIdle, IsrSettled
<1>22. CASE RbRelease
  BY <1>22, Zenon DEF RbRelease
<1>23. CASE QuietElapses
  BY <1>23, Zenon DEF QuietElapses
<1>24. CASE UnkeyElapses
  BY <1>24, Zenon DEF UnkeyElapses
<1>25. CASE BusyElapses
  BY <1>25, Zenon DEF BusyElapses
<1>26. CASE UNCHANGED vars
  BY <1>26, Zenon DEF vars
<1> QED
  BY <1>1, <1>2, <1>3, <1>4, <1>5, <1>6, <1>7, <1>8, <1>9, <1>10, <1>11, <1>12, <1>13, <1>14, <1>15, <1>16, <1>17, <1>18, <1>19, <1>20, <1>21, <1>22, <1>23, <1>24, <1>25, <1>26 DEF Next, Produce, Interrupt, Service, Rebuild

\* Every step keeps the types.
LEMMA NextType == TypeInv /\ [Next]_vars => TypeInv'
  BY NextData, NextFlag DEF TypeInv

-----------------------------------------------------------------------------
(* The hold handshake *)

\* Every step keeps the hand-shake between rebuild and service task.
LEMMA NextHold == TypeInv /\ HoldInv /\ [Next]_vars => HoldInv'
<1> SUFFICES ASSUME TypeInv, HoldInv, [Next]_vars PROVE HoldInv'
  OBVIOUS
<1> USE DEF HoldInv, HoldsIt, Aside, vars, ring, offer, phy, gates, access, chain, history
<1>1. ASSUME NEW p \in Producers, TakeTxLock(p) PROVE HoldInv'
  BY <1>1 DEF TakeTxLock
<1>2. ASSUME NEW p \in Producers, FillSlot(p) PROVE HoldInv'
  BY <1>2 DEF FillSlot
<1>3. ASSUME NEW p \in Producers, PublishSlot(p) PROVE HoldInv'
  BY <1>3 DEF PublishSlot
<1>4. CASE IsrEnter
  BY <1>4 DEF IsrEnter
<1>5. CASE GetTxBit
  BY <1>5 DEF GetTxBit
<1>6. CASE Retire
  BY <1>6 DEF Retire
<1>7. CASE IsrStop
  BY <1>7 DEF IsrStop
<1>8. CASE SvcTop
  BY <1>8 DEF SvcTop, ServiceTx
<1>9. CASE SvcLeaveHold
  BY <1>9 DEF SvcLeaveHold, LoopHead
<1>10. CASE SvcSnapshot
  BY <1>10 DEF SvcSnapshot
<1>11. CASE SvcPoll
  BY <1>11 DEF SvcPoll
<1>12. CASE SvcGate
  BY <1>12 DEF SvcGate, KeyUp, WaitSlot, Empty
<1>13. CASE SvcKeyLine
  BY <1>13 DEF SvcKeyLine
<1>14. CASE SvcStart
  BY <1>14 DEF SvcStart
<1>15. CASE SvcTimeout
  BY <1>15 DEF SvcTimeout
<1>16. CASE SvcRelease
  BY <1>16 DEF SvcRelease, StopModulator, AbortTransmit, BackToIdle, IsrSettled
<1>17. CASE RbRequest
  BY <1>17 DEF RbRequest
<1>18. CASE RbHeld
  BY <1>18 DEF RbHeld
<1>19. CASE RbWaitIdle
  BY <1>19 DEF RbWaitIdle, ServiceTx, StopModulator, AbortTransmit, BackToIdle, IsrSettled
<1>20. CASE RbLock
  BY <1>20 DEF RbLock
<1>21. CASE RbReset
  BY <1>21 DEF RbReset
<1>22. CASE RbRelease
  BY <1>22 DEF RbRelease
<1>23. CASE QuietElapses \/ UnkeyElapses \/ BusyElapses
  BY <1>23 DEF QuietElapses, UnkeyElapses, BusyElapses
<1>24. CASE UNCHANGED vars
  BY <1>24
<1> QED
  BY <1>1, <1>2, <1>3, <1>4, <1>5, <1>6, <1>7, <1>8, <1>9, <1>10, <1>11, <1>12, <1>13, <1>14, <1>15, <1>16, <1>17, <1>18, <1>19, <1>20, <1>21, <1>22, <1>23, <1>24 DEF Next, Produce, Interrupt, Service, Rebuild

-----------------------------------------------------------------------------
(* The TX lock *)

\* Every step keeps the TX lock with the one who took it.
LEMMA NextLock == TypeInv /\ LockInv /\ FrameInv /\ [Next]_vars => LockInv'
<1> SUFFICES ASSUME TypeInv, LockInv, FrameInv, [Next]_vars PROVE LockInv'
  OBVIOUS
<1> USE DEF LockInv, Full, vars, ring, offer, phy, gates, access, chain, history
<1>1. ASSUME NEW p \in Producers, TakeTxLock(p) PROVE LockInv'
  BY <1>1, NamesAssumption DEF TakeTxLock, LockFree
<1>2. ASSUME NEW p \in Producers, FillSlot(p) PROVE LockInv'
  <2>1. writer \in [Producers -> {"idle", "encode", "publish"}]
    BY DEF TypeInv, DataType
  <2>2. UNCHANGED <<head, tail, rb>>
    BY <1>2 DEF FillSlot
  <2>3. CASE Full
    BY <1>2, <2>1, <2>2, <2>3, NamesAssumption DEF FillSlot
  <2>4. CASE ~Full
    <3>1. /\ writer' = [writer EXCEPT ![p] = "publish"] /\ lock' = lock
          /\ writer[p] = "encode"
      BY <1>2, <2>4 DEF FillSlot
    <3> QED
      BY <2>1, <2>2, <2>4, <3>1, NamesAssumption
  <2> QED
    BY <2>3, <2>4
<1>3. ASSUME NEW p \in Producers, PublishSlot(p) PROVE LockInv'
  <2>1. writer \in [Producers -> {"idle", "encode", "publish"}]
    BY DEF TypeInv, DataType
  <2>2. \A q \in Producers : q # p => writer[q] = "idle"
    BY <1>3, <2>1, NamesAssumption DEF PublishSlot
  <2>3. \A q \in Producers : writer'[q] = "idle"
    BY <1>3, <2>1, <2>2 DEF PublishSlot
  <2>4. rb' # "reset"
    BY <1>3, NamesAssumption DEF PublishSlot
  <2> QED
    BY <2>3, <2>4
<1>4. CASE IsrEnter
  BY <1>4 DEF IsrEnter
<1>5. CASE GetTxBit
  BY <1>5 DEF GetTxBit
<1>6. CASE Retire
  BY <1>6, RingNextInjective DEF Retire, AfterFrame, FrameInv, Empty, TypeInv, DataType
<1>7. CASE IsrStop
  BY <1>7 DEF IsrStop
<1>8. CASE SvcTop
  BY <1>8 DEF SvcTop
<1>9. CASE SvcLeaveHold
  BY <1>9 DEF SvcLeaveHold
<1>10. CASE SvcSnapshot
  BY <1>10 DEF SvcSnapshot
<1>11. CASE SvcPoll
  BY <1>11 DEF SvcPoll
<1>12. CASE SvcGate
  BY <1>12 DEF SvcGate
<1>13. CASE SvcKeyLine
  BY <1>13 DEF SvcKeyLine
<1>14. CASE SvcStart
  BY <1>14 DEF SvcStart
<1>15. CASE SvcTimeout
  BY <1>15 DEF SvcTimeout
<1>16. CASE SvcRelease
  BY <1>16, RingNextMoves DEF SvcRelease, StopModulator, AbortTransmit, TypeInv, DataType
<1>17. CASE RbRequest
  BY <1>17 DEF RbRequest
<1>18. CASE RbHeld
  BY <1>18 DEF RbHeld
<1>19. CASE RbWaitIdle
  BY <1>19, RingNextMoves DEF RbWaitIdle, ServiceTx, StopModulator, AbortTransmit, TypeInv, DataType
<1>20. CASE RbLock
  BY <1>20, NamesAssumption DEF RbLock, LockFree
<1>21. CASE RbReset
  BY <1>21, NamesAssumption DEF RbReset, TypeInv, DataType
<1>22. CASE RbRelease
  BY <1>22 DEF RbRelease
<1>23. CASE QuietElapses \/ UnkeyElapses \/ BusyElapses
  BY <1>23 DEF QuietElapses, UnkeyElapses, BusyElapses
<1>24. CASE UNCHANGED vars
  BY <1>24
<1> QED
  BY <1>1, <1>2, <1>3, <1>4, <1>5, <1>6, <1>7, <1>8, <1>9, <1>10, <1>11, <1>12, <1>13, <1>14, <1>15, <1>16, <1>17, <1>18, <1>19, <1>20, <1>21, <1>22, <1>23, <1>24 DEF Next, Produce, Interrupt, Service, Rebuild

-----------------------------------------------------------------------------
(* Keying *)

\* Every step keeps line, modulator and stage in step.
LEMMA NextKey == TypeInv /\ HoldInv /\ KeyInv /\ NoOrphanKeyUp /\ [Next]_vars => (KeyInv /\ NoOrphanKeyUp)'
<1> SUFFICES ASSUME TypeInv, HoldInv, KeyInv, NoOrphanKeyUp, [Next]_vars PROVE (KeyInv /\ NoOrphanKeyUp)'
  OBVIOUS
<1> USE DEF HoldInv, HoldsIt, Aside, KeyInv, NoOrphanKeyUp, vars, ring, offer, phy, gates, access, chain, history
<1>1. ASSUME NEW p \in Producers, TakeTxLock(p) PROVE (KeyInv /\ NoOrphanKeyUp)'
  BY <1>1 DEF TakeTxLock
<1>2. ASSUME NEW p \in Producers, FillSlot(p) PROVE (KeyInv /\ NoOrphanKeyUp)'
  BY <1>2 DEF FillSlot
<1>3. ASSUME NEW p \in Producers, PublishSlot(p) PROVE (KeyInv /\ NoOrphanKeyUp)'
  BY <1>3 DEF PublishSlot
<1>4. CASE IsrEnter
  BY <1>4 DEF IsrEnter
<1>5. CASE GetTxBit
  BY <1>5 DEF GetTxBit, AfterFrame, Empty
<1>6. CASE Retire
  BY <1>6 DEF Retire, AfterFrame
<1>7. CASE IsrStop
  BY <1>7 DEF IsrStop, KeyDown
<1>8. CASE SvcTop
  BY <1>8 DEF SvcTop, ServiceTx
<1>9. CASE SvcLeaveHold
  BY <1>9 DEF SvcLeaveHold, LoopHead
<1>10. CASE SvcSnapshot
  BY <1>10 DEF SvcSnapshot
<1>11. CASE SvcPoll
  BY <1>11 DEF SvcPoll, JustUnkeyed
<1>12. CASE SvcGate
  BY <1>12 DEF SvcGate, KeyUp, WaitSlot, Empty
<1>13. CASE SvcKeyLine
  BY <1>13 DEF SvcKeyLine
<1>14. CASE SvcStart
  BY <1>14 DEF SvcStart
<1>15. CASE SvcTimeout
  BY <1>15 DEF SvcTimeout, Forgotten
<1>16. CASE SvcRelease
  <2>1. CASE svc = "release"
    BY <1>16, <2>1 DEF SvcRelease, StopModulator
  <2>2. CASE svc = "abort"
    BY <1>16, <2>2 DEF SvcRelease, AbortTransmit, BackToIdle, IsrSettled
  <2> QED
    BY <1>16, <2>1, <2>2 DEF SvcRelease
<1>17. CASE RbRequest
  BY <1>17 DEF RbRequest
<1>18. CASE RbHeld
  BY <1>18 DEF RbHeld
<1>19. CASE RbWaitIdle
  <2>1. CASE rb = "idling"
    BY <1>19, <2>1 DEF RbWaitIdle, ServiceTx
  <2>2. CASE rb = "abandon"
    BY <1>19, <2>2 DEF RbWaitIdle, StopModulator
  <2>3. CASE rb = "abort"
    BY <1>19, <2>3 DEF RbWaitIdle, AbortTransmit, BackToIdle, IsrSettled
  <2> QED
    BY <1>19, <2>1, <2>2, <2>3 DEF RbWaitIdle
<1>20. CASE RbLock
  BY <1>20 DEF RbLock, LockFree
<1>21. CASE RbReset
  BY <1>21 DEF RbReset, BackToIdle, IsrSettled
<1>22. CASE RbRelease
  BY <1>22 DEF RbRelease
<1>23. CASE QuietElapses \/ UnkeyElapses \/ BusyElapses
  BY <1>23 DEF QuietElapses, UnkeyElapses, BusyElapses
<1>24. CASE UNCHANGED vars
  BY <1>24
<1> QED
  BY <1>1, <1>2, <1>3, <1>4, <1>5, <1>6, <1>7, <1>8, <1>9, <1>10, <1>11, <1>12, <1>13, <1>14, <1>15, <1>16, <1>17, <1>18, <1>19, <1>20, <1>21, <1>22, <1>23, <1>24 DEF Next, Produce, Interrupt, Service, Rebuild

-----------------------------------------------------------------------------
(* The frame on the air *)

\* Every step keeps at most one frame to a key-up.
LEMMA NextFrame == TypeInv /\ LockInv /\ HoldInv /\ KeyInv /\ FrameInv /\ [Next]_vars => FrameInv'
<1> SUFFICES ASSUME TypeInv, LockInv, HoldInv, KeyInv, FrameInv, [Next]_vars PROVE FrameInv'
  OBVIOUS
<1> USE DEF FrameInv, KeyInv, LockInv, HoldInv, HoldsIt, Aside, Empty, Full, vars, ring, offer, phy, gates, access, chain, history
<1>1. ASSUME NEW p \in Producers, TakeTxLock(p) PROVE FrameInv'
  BY <1>1 DEF TakeTxLock
<1>2. ASSUME NEW p \in Producers, FillSlot(p) PROVE FrameInv'
  BY <1>2 DEF FillSlot
<1>3. ASSUME NEW p \in Producers, PublishSlot(p) PROVE FrameInv'
  BY <1>3 DEF PublishSlot
<1>4. CASE IsrEnter
  BY <1>4 DEF IsrEnter
<1>5. CASE GetTxBit
  BY <1>5 DEF GetTxBit, AfterFrame, Empty
<1>6. CASE Retire
  BY <1>6 DEF Retire, AfterFrame
<1>7. CASE IsrStop
  BY <1>7 DEF IsrStop, KeyDown
<1>8. CASE SvcTop
  BY <1>8 DEF SvcTop, ServiceTx
<1>9. CASE SvcLeaveHold
  BY <1>9 DEF SvcLeaveHold, LoopHead
<1>10. CASE SvcSnapshot
  BY <1>10 DEF SvcSnapshot
<1>11. CASE SvcPoll
  BY <1>11 DEF SvcPoll, JustUnkeyed
<1>12. CASE SvcGate
  BY <1>12 DEF SvcGate, KeyUp, WaitSlot, Empty
<1>13. CASE SvcKeyLine
  BY <1>13 DEF SvcKeyLine
<1>14. CASE SvcStart
  BY <1>14 DEF SvcStart
<1>15. CASE SvcTimeout
  BY <1>15 DEF SvcTimeout, Forgotten
<1>16. CASE SvcRelease
  BY <1>16 DEF SvcRelease, StopModulator, AbortTransmit, BackToIdle, IsrSettled
<1>17. CASE RbRequest
  BY <1>17 DEF RbRequest
<1>18. CASE RbHeld
  BY <1>18 DEF RbHeld
<1>19. CASE RbWaitIdle
  BY <1>19 DEF RbWaitIdle, ServiceTx, StopModulator, AbortTransmit, BackToIdle, IsrSettled
<1>20. CASE RbLock
  BY <1>20 DEF RbLock, LockFree
<1>21. CASE RbReset
  BY <1>21 DEF RbReset, BackToIdle, IsrSettled
<1>22. CASE RbRelease
  BY <1>22 DEF RbRelease
<1>23. CASE QuietElapses \/ UnkeyElapses \/ BusyElapses
  BY <1>23 DEF QuietElapses, UnkeyElapses, BusyElapses
<1>24. CASE UNCHANGED vars
  BY <1>24
<1> QED
  BY <1>1, <1>2, <1>3, <1>4, <1>5, <1>6, <1>7, <1>8, <1>9, <1>10, <1>11, <1>12, <1>13, <1>14, <1>15, <1>16, <1>17, <1>18, <1>19, <1>20, <1>21, <1>22, <1>23, <1>24 DEF Next, Produce, Interrupt, Service, Rebuild

-----------------------------------------------------------------------------
(* The gap between two key-ups *)

\* Every step keeps the gap between two key-ups accounted for.
LEMMA NextGap == TypeInv /\ HoldInv /\ KeyInv /\ NoOrphanKeyUp /\ GapInv /\ [Next]_vars => GapInv'
<1> SUFFICES ASSUME TypeInv, HoldInv, KeyInv, NoOrphanKeyUp, GapInv, [Next]_vars PROVE GapInv'
  OBVIOUS
<1> USE DEF GapInv, KeyInv, NoOrphanKeyUp, HoldInv, HoldsIt, Aside, vars, ring, offer, phy, gates, access, chain, history
<1>1. ASSUME NEW p \in Producers, TakeTxLock(p) PROVE GapInv'
  BY <1>1 DEF TakeTxLock
<1>2. ASSUME NEW p \in Producers, FillSlot(p) PROVE GapInv'
  BY <1>2 DEF FillSlot
<1>3. ASSUME NEW p \in Producers, PublishSlot(p) PROVE GapInv'
  BY <1>3 DEF PublishSlot
<1>4. CASE IsrEnter
  BY <1>4 DEF IsrEnter
<1>5. CASE GetTxBit
  BY <1>5 DEF GetTxBit, AfterFrame, Empty
<1>6. CASE Retire
  BY <1>6 DEF Retire, AfterFrame
<1>7. CASE IsrStop
  BY <1>7 DEF IsrStop, KeyDown
<1>8. CASE SvcTop
  BY <1>8 DEF SvcTop, ServiceTx
<1>9. CASE SvcLeaveHold
  BY <1>9 DEF SvcLeaveHold, LoopHead
<1>10. CASE SvcSnapshot
  BY <1>10 DEF SvcSnapshot
<1>11. CASE SvcPoll
  <2>1. CASE JustUnkeyed
    BY <1>11, <2>1 DEF SvcPoll
  <2>2. CASE ~JustUnkeyed
    <3>1. ~justDown /\ ~holdoff /\ UNCHANGED gates /\ svc' \in {"timeout", "gate"}
          /\ (svc' = "gate" => seen # "transmitting")
      BY <1>11, <2>2, Zenon DEF SvcPoll, JustUnkeyed
    <3> QED
      BY <1>11, <3>1 DEF SvcPoll, TypeInv, DataType
  <2> QED
    BY <2>1, <2>2
<1>12. CASE SvcGate
  BY <1>12 DEF SvcGate, KeyUp, WaitSlot, Empty
<1>13. CASE SvcKeyLine
  BY <1>13 DEF SvcKeyLine
<1>14. CASE SvcStart
  BY <1>14 DEF SvcStart
<1>15. CASE SvcTimeout
  BY <1>15 DEF SvcTimeout, Forgotten
<1>16. CASE SvcRelease
  <2>1. CASE svc = "release"
    BY <1>16, <2>1 DEF SvcRelease, StopModulator
  <2>2. CASE svc = "abort"
    BY <1>16, <2>2 DEF SvcRelease, AbortTransmit, BackToIdle, IsrSettled
  <2> QED
    BY <1>16, <2>1, <2>2 DEF SvcRelease
<1>17. CASE RbRequest
  BY <1>17 DEF RbRequest
<1>18. CASE RbHeld
  BY <1>18 DEF RbHeld
<1>19. CASE RbWaitIdle
  <2>1. CASE rb = "idling"
    BY <1>19, <2>1 DEF RbWaitIdle, ServiceTx
  <2>2. CASE rb = "abandon"
    BY <1>19, <2>2 DEF RbWaitIdle, StopModulator
  <2>3. CASE rb = "abort"
    BY <1>19, <2>3 DEF RbWaitIdle, AbortTransmit, BackToIdle, IsrSettled
  <2> QED
    BY <1>19, <2>1, <2>2, <2>3 DEF RbWaitIdle
<1>20. CASE RbLock
  BY <1>20 DEF RbLock, LockFree
<1>21. CASE RbReset
  BY <1>21 DEF RbReset, BackToIdle, IsrSettled
<1>22. CASE RbRelease
  BY <1>22 DEF RbRelease
<1>23. CASE QuietElapses \/ UnkeyElapses \/ BusyElapses
  BY <1>23 DEF QuietElapses, UnkeyElapses, BusyElapses
<1>24. CASE UNCHANGED vars
  BY <1>24
<1> QED
  BY <1>1, <1>2, <1>3, <1>4, <1>5, <1>6, <1>7, <1>8, <1>9, <1>10, <1>11, <1>12, <1>13, <1>14, <1>15, <1>16, <1>17, <1>18, <1>19, <1>20, <1>21, <1>22, <1>23, <1>24 DEF Next, Produce, Interrupt, Service, Rebuild

-----------------------------------------------------------------------------
(* Theorems *)

\* The inductive invariant holds at boot.
LEMMA InitInv == Init => IInv
<1> SUFFICES ASSUME Init PROVE IInv
  OBVIOUS
<1>1. TypeInv
  BY InitType
<1>2. HoldInv
  BY DEF Init, HoldInv, HoldsIt
<1>3. LockInv
  BY DEF Init, LockInv
<1>4. KeyInv /\ NoOrphanKeyUp
  BY DEF Init, KeyInv, NoOrphanKeyUp
<1>5. FrameInv
  BY DEF Init, FrameInv
<1>6. GapInv
  BY DEF Init, GapInv
<1> QED
  BY <1>1, <1>2, <1>3, <1>4, <1>5, <1>6 DEF IInv

\* Every step keeps the inductive invariant.
LEMMA NextInv == IInv /\ [Next]_vars => IInv'
  BY NextType, NextHold, NextLock, NextKey, NextFrame, NextGap DEF IInv

\* The inductive invariant holds throughout.
LEMMA Invariance == Spec => []IInv
  BY InitInv, NextInv, PTL DEF Spec

\* The chain keeps its types, and the ring indices stay inside the ring, for
\* every ring size and any set of producers.
THEOREM TypeCorrect == Spec => []TypeInv
<1>1. IInv => TypeInv
  BY DEF IInv
<1> QED
  BY <1>1, Invariance, PTL

\* The PTT line and the modulator are in step through every interleaving of the
\* interrupt's key-down, the deferred teardown, the time-out and a rebuild.
THEOREM LineInStep == Spec => []PttFollowsModulator
<1>1. IInv => PttFollowsModulator
  BY DEF IInv, KeyInv, PttFollowsModulator
<1> QED
  BY <1>1, Invariance, PTL

\* A key-up never outlives the modulator that would end it.
THEOREM KeyUpEnds == Spec => []NoOrphanKeyUp
<1>1. IInv => NoOrphanKeyUp
  BY DEF IInv
<1> QED
  BY <1>1, Invariance, PTL

\* Every frame has a key-up of its own.
THEOREM OneFrameEach == Spec => []OneFramePerKeyUp
<1>1. IInv => OneFramePerKeyUp
  BY DEF IInv, FrameInv, OneFramePerKeyUp
<1> QED
  BY <1>1, Invariance, PTL

\* The time-out measures the key-up it may release.
THEOREM TimeoutIsOfThisKeyUp == Spec => []TimeoutMeasuresThisKeyUp
<1>1. IInv => TimeoutMeasuresThisKeyUp
  BY DEF IInv, GapInv, TimeoutMeasuresThisKeyUp
<1> QED
  BY <1>1, Invariance, PTL

\* The rings are reset with every other party at rest.
THEOREM RebuildIsAlone == Spec => ResetAlone
<1>1. IInv /\ [Next]_vars => [rb = "reset" /\ rb' # "reset" => Resting]_vars
  <2> SUFFICES ASSUME IInv, [Next]_vars, rb = "reset", rb' # "reset" PROVE Resting
    OBVIOUS
  <2>1. RbReset
    BY DEF Next, Produce, Interrupt, Service, Rebuild, TakeTxLock, FillSlot, PublishSlot,
      IsrEnter, GetTxBit, Retire, IsrStop, SvcTop, SvcLeaveHold, SvcSnapshot, SvcPoll, SvcGate,
      SvcKeyLine, SvcStart, SvcTimeout, SvcRelease, RbRequest, RbHeld, RbWaitIdle, RbLock,
      RbRelease, QuietElapses, UnkeyElapses, BusyElapses, chain, vars
  <2>2. isr = "out"
    BY <2>1 DEF RbReset, IsrSettled
  <2>3. ~active /\ ~clock /\ svc \in {"top", "held", "leave"}
    BY DEF IInv, KeyInv, HoldInv, HoldsIt, Aside
  <2>4. \A p \in Producers : writer[p] = "idle"
    BY NamesAssumption DEF IInv, LockInv
  <2> QED
    BY <2>2, <2>3, <2>4 DEF Resting
<1> QED
  BY <1>1, Invariance, PTL DEF Spec, ResetAlone

\* Between two key-ups the line is low over a whole service tick.
THEOREM GapKept == Spec => UnkeyGap
<1>1. IInv /\ [Next]_vars => [~ptt /\ ptt' => gap = "done" /\ ~clock /\ ~stopPending]_vars
  <2> SUFFICES ASSUME IInv, [Next]_vars, ~ptt, ptt' PROVE gap = "done" /\ ~clock /\ ~stopPending
    OBVIOUS
  <2>1. SvcKeyLine
    BY DEF Next, Produce, Interrupt, Service, Rebuild, TakeTxLock, FillSlot, PublishSlot,
      IsrEnter, GetTxBit, Retire, IsrStop, SvcTop, SvcLeaveHold, SvcSnapshot, SvcPoll, SvcGate,
      SvcStart, SvcTimeout, SvcRelease, RbRequest, RbHeld, RbWaitIdle, RbLock, RbReset,
      RbRelease, QuietElapses, UnkeyElapses, BusyElapses, phy, vars, ServiceTx, StopModulator,
      AbortTransmit
  <2> QED
    BY <2>1 DEF SvcKeyLine, IInv, GapInv
<1> QED
  BY <1>1, Invariance, PTL DEF Spec, UnkeyGap

\* What the run checks of a key-up in one formula: line, modulator, interrupt
\* and state machine agree, and the time-out measures this key-up.
THEOREM KeyUpKept == Spec => []KeyUpSound
<1> QED
  BY TypeCorrect, LineInStep, KeyUpEnds, OneFrameEach, TimeoutIsOfThisKeyUp, PTL DEF KeyUpSound

-----------------------------------------------------------------------------
(* The ring as the queue it stands for *)

\* An index past the end of the ring goes round once.
LEMMA RingWraps ==
  \A a \in 0 .. 2 * Slots - 1 : a % Slots = IF a < Slots THEN a ELSE a - Slots
<1> SUFFICES ASSUME NEW a \in 0 .. 2 * Slots - 1
             PROVE  a % Slots = IF a < Slots THEN a ELSE a - Slots
  OBVIOUS
<1>1. Slots \in Nat /\ Slots > 1
  BY SlotsAssumption
<1>2. CASE a < Slots
  BY <1>1, <1>2
<1>3. CASE a >= Slots
  <2>1. PICK b \in 0 .. Slots - 1 : a = b + Slots
    <3>1. a - Slots \in 0 .. Slots - 1 /\ a = (a - Slots) + Slots
      BY <1>1, <1>3
    <3> QED
      BY <3>1
  <2>2. b % Slots = b
    BY <1>1, <2>1
  <2>3. (b + Slots) % Slots = b
    BY <1>1, <2>1, <2>2
  <2> QED
    BY <1>1, <1>3, <2>1, <2>3
<1> QED
  BY <1>1, <1>2, <1>3

\* Where the i-th waiting frame lies.
Lies(i) == IF tail + i - 1 < Slots THEN tail + i - 1 ELSE tail + i - 1 - Slots

Laid ==
  /\ FramesPending = IF tail <= head THEN head - tail ELSE head + Slots - tail
  /\ FramesPending \in 0 .. Slots - 1
  /\ Waiting \in Seq(Nat) /\ Len(Waiting) = FramesPending
  /\ \A i \in 1 .. FramesPending : Lies(i) \in Ring /\ Waiting[i] = cell[Lies(i)]

\* The queue is what lies in the ring from the tail on.
LEMMA WaitingIs == DataType => Laid
<1> SUFFICES ASSUME DataType PROVE Laid
  OBVIOUS
<1>1. /\ head \in 0 .. Slots - 1 /\ tail \in 0 .. Slots - 1 /\ Slots \in Nat /\ Slots > 1
      /\ cell \in [Ring -> Nat]
  BY SlotsAssumption DEF DataType, Ring
<1>2. FramesPending = IF tail <= head THEN head - tail ELSE head + Slots - tail
  <2>1. head + Slots - tail \in 0 .. 2 * Slots - 1
    BY <1>1
  <2> QED
    BY <1>1, <2>1, RingWraps DEF FramesPending
<1>3. FramesPending \in 0 .. Slots - 1
  BY <1>1, <1>2
<1>4. \A i \in 1 .. FramesPending : (tail + i - 1) % Slots = Lies(i) /\ Lies(i) \in Ring
  <2> TAKE i \in 1 .. FramesPending
  <2>1. tail + i - 1 \in 0 .. 2 * Slots - 1
    <3>1. FramesPending \in Nat /\ FramesPending <= Slots - 1
      BY <1>1, <1>3
    <3> QED
      BY <1>1, <3>1
  <2>2. PICK a \in 0 .. 2 * Slots - 1 : a = tail + i - 1
    BY <2>1
  <2>3. (tail + i - 1) % Slots = IF a < Slots THEN a ELSE a - Slots
    BY <2>2, RingWraps
  <2>4. Lies(i) = IF a < Slots THEN a ELSE a - Slots
    BY <1>1, <2>2 DEF Lies
  <2>5. (IF a < Slots THEN a ELSE a - Slots) \in Ring
    BY <1>1, <2>2 DEF Ring
  <2> QED
    BY <2>3, <2>4, <2>5
<1>5. Waiting = [i \in 1 .. FramesPending |-> cell[Lies(i)]]
  BY <1>4 DEF Waiting
<1>6. \A i \in 1 .. FramesPending : cell[Lies(i)] \in Nat
  BY <1>1, <1>4
<1>7. FramesPending \in Nat
  BY <1>1, <1>3
<1> HIDE DEF FramesPending
<1>8. Waiting \in Seq(Nat) /\ Len(Waiting) = FramesPending
  BY <1>5, <1>6, <1>7
<1> QED
  BY <1>2, <1>3, <1>4, <1>5, <1>8 DEF Laid

LEMMA WaitingNext == DataType' => Laid'
BY WaitingIs, PTL

\* A sequence is what another one begins with.
LEMMA BeginsWith ==
  ASSUME NEW s \in Seq(Nat), NEW t \in Seq(Nat), Len(s) <= Len(t),
         \A i \in 1 .. Len(s) : t[i] = s[i]
  PROVE  SubSeq(t, 1, Len(s)) = s
OBVIOUS

\* A frame that is published is the last of the queue.
LEMMA PublishAccepts ==
  ASSUME NEW p \in Producers, DataType, DataType', ~Full, PublishSlot(p)
  PROVE  Fifo!Accept
<1>1. /\ head \in 0 .. Slots - 1 /\ tail \in 0 .. Slots - 1 /\ Slots \in Nat /\ Slots > 1
      /\ head' \in 0 .. Slots - 1 /\ tail' = tail /\ cell' = cell /\ sent' = sent
  BY SlotsAssumption DEF DataType, Ring, PublishSlot, history
<1>2. head' # tail /\ head' = IF head + 1 = Slots THEN 0 ELSE head + 1
  <2>1. head' = (head + 1) % Slots
    BY DEF PublishSlot, RingNext
  <2>2. PICK a \in 0 .. 2 * Slots - 1 : a = head + 1
    BY <1>1
  <2>3. head' = IF a < Slots THEN a ELSE a - Slots
    BY <2>1, <2>2, RingWraps
  <2>4. head' # tail
    BY DEF Full, PublishSlot
  <2> QED
    BY <1>1, <2>2, <2>3, <2>4
<1>3. Laid /\ Laid'
  BY WaitingIs, WaitingNext
<1>4. /\ FramesPending \in 0 .. Slots - 1 /\ Len(Waiting) = FramesPending
      /\ Waiting \in Seq(Nat) /\ Waiting' \in Seq(Nat) /\ Len(Waiting') = FramesPending'
      /\ \A i \in 1 .. FramesPending : Waiting[i] = cell[Lies(i)]
      /\ \A i \in 1 .. FramesPending' : Waiting'[i] = cell'[Lies(i)']
  BY <1>3 DEF Laid
<1>5. FramesPending' = FramesPending + 1
  <2>1. /\ FramesPending = IF tail <= head THEN head - tail ELSE head + Slots - tail
        /\ FramesPending' = IF tail' <= head' THEN head' - tail' ELSE head' + Slots - tail'
    BY <1>3 DEF Laid
  <2> HIDE DEF FramesPending
  <2> QED
    BY <1>1, <1>2, <2>1
<1>6. \A i \in 1 .. FramesPending : Waiting'[i] = Waiting[i]
  <2> TAKE i \in 1 .. FramesPending
  <2>1. i \in 1 .. FramesPending'
    BY <1>4, <1>5
  <2>2. Lies(i)' = Lies(i)
    BY <1>1 DEF Lies
  <2>3. Waiting'[i] = cell'[Lies(i)']
    BY <1>4, <2>1
  <2> QED
    BY <1>1, <1>4, <2>2, <2>3
<1> HIDE DEF Waiting, FramesPending
<1>7. SubSeq(Waiting', 1, Len(Waiting)) = Waiting
  BY <1>4, <1>5, <1>6, BeginsWith
<1> QED
  BY <1>1, <1>4, <1>5, <1>7 DEF Fifo!Accept

\* Sequences that agree everywhere are the same.
LEMMA Alike ==
  ASSUME NEW s \in Seq(Nat), NEW t \in Seq(Nat), Len(s) = Len(t),
         \A i \in 1 .. Len(t) : t[i] = s[i]
  PROVE  t = s
<1>1. s \in [1 .. Len(t) -> Nat] /\ t \in [1 .. Len(t) -> Nat]
  OBVIOUS
<1> QED
  BY <1>1

\* A sequence without its first element.
LEMMA Behind ==
  ASSUME NEW s \in Seq(Nat), NEW t \in Seq(Nat), Len(s) = Len(t) + 1,
         \A i \in 1 .. Len(t) : t[i] = s[i + 1]
  PROVE  s # <<>> /\ Head(s) = s[1] /\ t = Tail(s)
<1>1. s # <<>> /\ Head(s) = s[1] /\ Tail(s) \in Seq(Nat) /\ Len(Tail(s)) = Len(t)
  OBVIOUS
<1>2. \A i \in 1 .. Len(t) : t[i] = Tail(s)[i]
  OBVIOUS
<1> QED
  BY <1>1, <1>2, Alike

\* The frame that is retired is the first of the queue.
LEMMA RetireSends ==
  ASSUME DataType, DataType', ~Empty, Retire
  PROVE  Fifo!Send
<1>1. /\ head \in 0 .. Slots - 1 /\ tail \in 0 .. Slots - 1 /\ Slots \in Nat /\ Slots > 1
      /\ tail' \in 0 .. Slots - 1 /\ head' = head /\ cell' = cell
      /\ sent' = Append(sent, cell[tail])
  BY SlotsAssumption DEF DataType, Ring, Retire
<1>2. head # tail /\ tail' = IF tail + 1 = Slots THEN 0 ELSE tail + 1
  <2>1. tail' = (tail + 1) % Slots
    BY DEF Retire, RingNext
  <2>2. PICK a \in 0 .. 2 * Slots - 1 : a = tail + 1
    BY <1>1
  <2>3. tail' = IF a < Slots THEN a ELSE a - Slots
    BY <2>1, <2>2, RingWraps
  <2> QED
    BY <1>1, <2>2, <2>3 DEF Empty
<1>3. Laid /\ Laid'
  BY WaitingIs, WaitingNext
<1>4. PICK n \in 0 .. Slots - 1, m \in 0 .. Slots - 1 : n = FramesPending /\ m = FramesPending'
  <2>1. FramesPending \in 0 .. Slots - 1 /\ FramesPending' \in 0 .. Slots - 1
    BY <1>3 DEF Laid
  <2> QED
    BY <2>1
<1>5. /\ Len(Waiting) = n /\ Waiting \in Seq(Nat)
      /\ Len(Waiting') = m /\ Waiting' \in Seq(Nat)
      /\ \A i \in 1 .. n : Waiting[i] = cell[Lies(i)]
      /\ \A i \in 1 .. m : Waiting'[i] = cell[Lies(i)']
  BY <1>1, <1>3, <1>4 DEF Laid
<1>6. n = m + 1
  <2>1. /\ n = IF tail <= head THEN head - tail ELSE head + Slots - tail
        /\ m = IF tail' <= head' THEN head' - tail' ELSE head' + Slots - tail'
    BY <1>3, <1>4 DEF Laid
  <2> QED
    BY <1>1, <1>2, <2>1
<1>b. n \in Nat /\ m \in Nat
  BY SlotsAssumption, <1>4
<1>7. \A i \in 1 .. m : Waiting'[i] = Waiting[i + 1]
  <2> TAKE i \in 1 .. m
  <2>1. i + 1 \in 1 .. n
    BY <1>b, <1>6
  <2>2. Lies(i)' = Lies(i + 1)
    <3>1. i \in Nat /\ i > 0
      BY <1>1, <1>4
    <3> QED
      BY <1>1, <1>2, <3>1 DEF Lies
  <2> QED
    BY <1>5, <2>1, <2>2
<1>a. Waiting[1] = cell[tail]
  <2>1. 1 \in 1 .. n
    BY <1>b, <1>6
  <2>2. Lies(1) = tail
    BY <1>1 DEF Lies
  <2> QED
    BY <1>5, <2>1, <2>2
<1> HIDE DEF Waiting, FramesPending
<1>8. Waiting # <<>> /\ Head(Waiting) = Waiting[1] /\ Waiting' = Tail(Waiting)
  BY <1>5, <1>6, <1>7, Behind
<1> QED
  BY <1>1, <1>a, <1>8 DEF Fifo!Send

\* A slot that is filled is outside the queue.
LEMMA FillIsOutside ==
  ASSUME NEW p \in Producers, DataType, DataType', FillSlot(p)
  PROVE  UNCHANGED <<Waiting, sent>>
<1>1. /\ head \in 0 .. Slots - 1 /\ tail \in 0 .. Slots - 1 /\ Slots \in Nat /\ Slots > 1
      /\ head' = head /\ tail' = tail /\ sent' = sent /\ cell \in [Ring -> Nat]
      /\ \A i \in Ring : i # head => cell'[i] = cell[i]
  BY SlotsAssumption DEF DataType, Ring, FillSlot, history
<1>2. Laid /\ Laid'
  BY WaitingIs, WaitingNext
<1>3. FramesPending = IF tail <= head THEN head - tail ELSE head + Slots - tail
  BY <1>2 DEF Laid
<1>4. FramesPending' = FramesPending
  BY <1>1 DEF FramesPending
<1>5. \A i \in 1 .. FramesPending : Lies(i) # head /\ Lies(i) \in Ring
  <2> TAKE i \in 1 .. FramesPending
  <2>1. Lies(i) # head
    <3> HIDE DEF FramesPending
    <3> QED
      BY <1>1, <1>3 DEF Lies
  <2> QED
    BY <1>2, <2>1 DEF Laid
<1>6. /\ Len(Waiting) = FramesPending /\ Len(Waiting') = FramesPending'
      /\ Waiting \in Seq(Nat) /\ Waiting' \in Seq(Nat)
      /\ \A i \in 1 .. FramesPending : Waiting[i] = cell[Lies(i)]
      /\ \A i \in 1 .. FramesPending' : Waiting'[i] = cell'[Lies(i)']
  BY <1>2 DEF Laid
<1>7. \A i \in 1 .. FramesPending : Waiting'[i] = Waiting[i]
  <2> TAKE i \in 1 .. FramesPending
  <2>1. Lies(i)' = Lies(i)
    BY <1>1 DEF Lies
  <2>2. Waiting'[i] = cell'[Lies(i)']
    BY <1>4, <1>6
  <2> QED
    BY <1>1, <1>5, <1>6, <2>1, <2>2
<1> HIDE DEF Waiting, FramesPending
<1>8. Waiting' = Waiting
  BY <1>4, <1>6, <1>7, Alike
<1> QED
  BY <1>1, <1>8

\* With head and tail together nothing waits.
LEMMA EmptyIsNothing ==
  ASSUME DataType', head' = tail'
  PROVE  Waiting' = <<>>
<1>1. Laid' /\ tail' \in Nat
  BY SMTT(20), WaitingNext, SlotsAssumption DEF DataType, Ring
<1>2. FramesPending' = 0 /\ Waiting' \in Seq(Nat) /\ Len(Waiting') = FramesPending'
  <2>1. /\ FramesPending' = IF tail' <= head' THEN head' - tail' ELSE head' + Slots - tail'
        /\ Waiting' \in Seq(Nat) /\ Len(Waiting') = FramesPending'
    BY <1>1 DEF Laid
  <2>2. PICK n : n = FramesPending'
    OBVIOUS
  <2>3. n = 0
    <3>1. n = IF tail' <= head' THEN head' - tail' ELSE head' + Slots - tail'
      BY <2>1, <2>2
    <3>2. PICK t \in Nat : t = tail' /\ t = head'
      BY <1>1
    <3>3. n = IF t <= t THEN t - t ELSE t + Slots - t
      BY <3>1, <3>2
    <3> QED
      BY <3>3
  <2> QED
    BY <2>1, <2>2, <2>3
<1> HIDE DEF Waiting, FramesPending
<1> QED
  BY <1>2

LEMMA StepIsFifo == IInv /\ [Next]_vars => [Fifo!Next]_<<Waiting, sent>>
<1> SUFFICES ASSUME IInv, [Next]_vars PROVE [Fifo!Next]_<<Waiting, sent>>
  OBVIOUS
<1>1. DataType /\ DataType' /\ LockInv /\ FrameInv
  BY NextType DEF IInv, TypeInv
<1> USE DEF vars, ring, offer, phy, gates, access, chain, history
<1>2. ASSUME UNCHANGED <<cell, head, tail, sent>> PROVE UNCHANGED <<Waiting, sent>>
  BY <1>2 DEF Waiting, FramesPending
<1>3. ASSUME NEW p \in Producers, TakeTxLock(p) PROVE UNCHANGED <<Waiting, sent>>
  BY <1>2, <1>3 DEF TakeTxLock
<1>4. ASSUME NEW p \in Producers, FillSlot(p) PROVE UNCHANGED <<Waiting, sent>>
  BY <1>1, <1>4, FillIsOutside
<1>5. ASSUME NEW p \in Producers, PublishSlot(p) PROVE Fifo!Accept
  <2>1. ~Full
    BY <1>1, <1>5 DEF LockInv, PublishSlot
  <2> QED
    BY <1>1, <1>5, <2>1, PublishAccepts
<1>6. CASE Retire
  <2>1. ~Empty
    BY <1>1, <1>6 DEF Retire, FrameInv
  <2> QED
    BY <1>1, <1>6, <2>1, RetireSends DEF Fifo!Next
<1>7. ASSUME AbortTransmit, UNCHANGED sent PROVE Fifo!DiscardAll
  <2>1. head' = tail'
    BY <1>7 DEF AbortTransmit
  <2> QED
    BY <1>1, <1>7, <2>1, EmptyIsNothing DEF Fifo!DiscardAll
<1>8. CASE SvcRelease
  <2>1. CASE svc = "release"
    BY <1>2, <1>8, <2>1 DEF SvcRelease
  <2>2. CASE svc # "release"
    BY <1>7, <1>8, <2>2 DEF SvcRelease, Fifo!Next
  <2> QED
    BY <2>1, <2>2
<1>9. CASE RbWaitIdle
  <2>1. CASE rb # "abort"
    BY <1>2, <1>9, <2>1 DEF RbWaitIdle
  <2>2. CASE rb = "abort"
    BY <1>7, <1>9, <2>2 DEF RbWaitIdle, Fifo!Next
  <2> QED
    BY <2>1, <2>2
<1>10. CASE RbReset
  <2>1. head' = tail' /\ sent' = sent
    BY <1>10 DEF RbReset
  <2> QED
    BY <1>1, <2>1, EmptyIsNothing DEF Fifo!DiscardAll, Fifo!Next
<1>11. CASE IsrEnter \/ GetTxBit \/ IsrStop
  BY <1>2, <1>11 DEF IsrEnter, GetTxBit, IsrStop
<1>12. CASE SvcTop \/ SvcLeaveHold \/ SvcSnapshot \/ SvcPoll
  BY <1>2, <1>12 DEF SvcTop, SvcLeaveHold, SvcSnapshot, SvcPoll
<1>13. CASE SvcGate \/ SvcKeyLine \/ SvcStart \/ SvcTimeout
  BY <1>2, <1>13 DEF SvcGate, SvcKeyLine, SvcStart, SvcTimeout
<1>14. CASE RbRequest \/ RbHeld \/ RbLock \/ RbRelease
  BY <1>2, <1>14 DEF RbRequest, RbHeld, RbLock, RbRelease
<1>15. CASE QuietElapses \/ UnkeyElapses \/ BusyElapses
  BY <1>2, <1>15 DEF QuietElapses, UnkeyElapses, BusyElapses
<1>16. CASE UNCHANGED vars
  BY <1>2, <1>16
<1> QED
  BY <1>3, <1>4, <1>5, <1>6, <1>8, <1>9, <1>10, <1>11, <1>12, <1>13, <1>14, <1>15, <1>16
     DEF Next, Produce, Interrupt, Service, Rebuild, Fifo!Next

\* The ring with its four parties implements the queue of TxQueue: frames leave in
\* the order they were accepted, each at most once, and are lost only when all that
\* wait are thrown away (ax25.c's txFrame[], txRetireFrame(), Ax25TransmitAbort()).
THEOREM RingRefinesQueue == Spec => RingIsQueue
<1>1. Init => Fifo!Init
  <2> SUFFICES ASSUME Init PROVE Waiting = <<>> /\ sent = <<>>
    BY DEF Fifo!Init
  <2>1. DataType /\ head = tail /\ tail \in Nat
    BY InitType, SlotsAssumption DEF Init, TypeInv
  <2>2. FramesPending = 0 /\ Waiting \in Seq(Nat) /\ Len(Waiting) = FramesPending
    BY <2>1, WaitingIs DEF Laid
  <2> HIDE DEF Waiting, FramesPending
  <2>3. Waiting = <<>>
    BY <2>2
  <2> QED
    BY <2>3 DEF Init
<1> QED
  BY <1>1, StepIsFifo, Invariance, PTL DEF Spec, RingIsQueue, Fifo!Spec

-----------------------------------------------------------------------------
(* The duty-cycle limiter *)

\* A non-empty set of naturals has a least element.
LEMMA LeastOne ==
  ASSUME NEW S \in SUBSET Nat, S # {}
  PROVE  \E m \in S : \A j \in S : m <= j
<1> DEFINE R == {p \in Nat \X Nat : p[1] < p[2]}
<1>1. IsWellFoundedOn(R, Nat)
  BY NatLessThanWellFounded, Zenon DEF OpToRel
<1>2. PICK x \in S : \A y \in S : ~(<<y, x>> \in R)
  <2> HIDE DEF R
  <2> QED
    BY <1>1, WFMin
<1>3. \A y \in S : ~(y < x)
  BY <1>2
<1> QED
  BY <1>3

-----------------------------------------------------------------------------
(* Sums, one summand after the other *)

Sums(p, g, n) == p = [t \in 0 .. n |-> IF t = 0 THEN 0 ELSE p[t - 1] + g[t]]

LEMMA SumsThere ==
  ASSUME NEW n \in Nat, NEW g \in [1 .. n -> Nat]
  PROVE  \E p \in [0 .. n -> Nat] : Sums(p, g, n)
<1> DEFINE part(m) == \E p \in [0 .. m -> Nat] : Sums(p, g, m)
           bad == {m \in 0 .. n : ~part(m)}
<1>0. SUFFICES ASSUME bad # {} PROVE FALSE
  <2>1. n \in 0 .. n
    OBVIOUS
  <2>2. bad = {} => part(n)
    <3> HIDE DEF part
    <3> QED
      BY <2>1
  <2> HIDE DEF bad
  <2> QED
    BY <2>2
<1>1. PICK m \in bad : \A j \in bad : m <= j
  <2>1. bad \in SUBSET Nat
    OBVIOUS
  <2> QED
    BY <1>0, <2>1, LeastOne
<1>2. m # 0
  <2> DEFINE p == [t \in 0 .. 0 |-> 0]
  <2>1. p = [t \in 0 .. 0 |-> IF t = 0 THEN 0 ELSE p[t - 1] + g[t]] /\ p \in [0 .. 0 -> Nat]
    OBVIOUS
  <2>2. part(0)
    BY <2>1 DEF Sums
  <2> QED
    BY <1>1, <2>2
<1>3. m - 1 \in 0 .. n /\ m - 1 \notin bad
  <2> HIDE DEF part
  <2>1. m \in 0 .. n /\ m - 1 \in 0 .. n /\ ~(m <= m - 1)
    BY <1>1, <1>2
  <2> HIDE DEF bad
  <2> QED
    BY <1>1, <2>1
<1>4. PICK p \in [0 .. m - 1 -> Nat] : Sums(p, g, m - 1)
  BY <1>3
<1> DEFINE q == [t \in 0 .. m |-> IF t = m THEN p[m - 1] + g[m] ELSE p[t]]
<1>5. q \in [0 .. m -> Nat]
  <2>1. p[m - 1] \in Nat /\ g[m] \in Nat
    BY <1>1, <1>2, <1>3
  <2>2. \A t \in 0 .. m : t # m => p[t] \in Nat
    BY <1>1, <1>3
  <2> QED
    BY <2>1, <2>2
<1>6. \A t \in 0 .. m : q[t] = IF t = 0 THEN 0 ELSE q[t - 1] + g[t]
  <2>1. ASSUME NEW t \in 0 .. m - 1 PROVE q[t] = IF t = 0 THEN 0 ELSE q[t - 1] + g[t]
    <3>1. p[t] = IF t = 0 THEN 0 ELSE p[t - 1] + g[t]
      BY <1>4 DEF Sums
    <3>2. q[t] = p[t] /\ (t # 0 => q[t - 1] = p[t - 1])
      BY <1>3
    <3> HIDE DEF q
    <3> QED
      BY <3>1, <3>2
  <2>2. q[m] = q[m - 1] + g[m]
    <3>1. m \in 0 .. m /\ m - 1 \in 0 .. m /\ m - 1 # m
      BY <1>1, <1>3
    <3> QED
      BY <3>1
  <2>3. ASSUME NEW t \in 0 .. m PROVE t = m \/ t \in 0 .. m - 1
    BY <1>1
  <2> HIDE DEF q
  <2> QED
    BY <1>2, <2>1, <2>2, <2>3
<1>7. q = [t \in 0 .. m |-> q[t]]
  OBVIOUS
<1>8. Sums(q, g, m)
  <2> HIDE DEF q
  <2> QED
    BY <1>6, <1>7 DEF Sums
<1> QED
  BY <1>1, <1>5, <1>8

\* What a sum is, step by step.
LEMMA SumsStep ==
  ASSUME NEW n \in Nat, NEW g \in [1 .. n -> Nat], NEW p, Sums(p, g, n)
  PROVE  p[0] = 0 /\ \A t \in 1 .. n : p[t] = p[t - 1] + g[t]
<1> QED
  BY DEF Sums

\* There is one such function only.
LEMMA SumsAgree ==
  ASSUME NEW n \in Nat, NEW g \in [1 .. n -> Nat], NEW p, NEW q, Sums(p, g, n), Sums(q, g, n)
  PROVE  p = q
<1> DEFINE bad == {t \in 0 .. n : p[t] # q[t]}
<1>1. bad = {}
  <2> SUFFICES ASSUME bad # {} PROVE FALSE
    OBVIOUS
  <2>1. bad \in SUBSET Nat
    OBVIOUS
  <2>2. PICK m \in bad : \A j \in bad : m <= j
    BY <2>1, LeastOne
  <2>3. m # 0
    BY <2>2, SumsStep
  <2>4. m - 1 \in 0 .. n /\ m - 1 \notin bad /\ m \in 1 .. n
    BY <2>2, <2>3
  <2>5. p[m] = p[m - 1] + g[m] /\ q[m] = q[m - 1] + g[m]
    BY <2>4, SumsStep
  <2> QED
    BY <2>2, <2>4, <2>5
<1>2. p = [t \in 0 .. n |-> p[t]] /\ q = [t \in 0 .. n |-> q[t]]
  BY DEF Sums
<1>3. \A t \in 0 .. n : p[t] = q[t]
  BY <1>1
<1> QED
  BY <1>2, <1>3

-----------------------------------------------------------------------------
(* The airtime charged up to a time *)

SumsOf(h) == CHOOSE p \in [0 .. MaxTime -> Nat] : Sums(p, h, MaxTime)

\* The place of a time among those the clock shows.
Clamp(x) == IF x < 0 THEN 0 ELSE IF x > MaxTime THEN MaxTime ELSE x
UpTo(h, x) == SumsOf(h)[Clamp(x)]

LEMMA SumsOfThem ==
  ASSUME NEW h \in [Times -> Nat]
  PROVE  /\ SumsOf(h) \in [0 .. MaxTime -> Nat] /\ SumsOf(h)[0] = 0
         /\ \A t \in Times : SumsOf(h)[t] = SumsOf(h)[t - 1] + h[t]
         /\ Sums(SumsOf(h), h, MaxTime)
<1>1. MaxTime \in Nat /\ h \in [1 .. MaxTime -> Nat]
  BY BoundsAssumption DEF Times
<1>2. \E p \in [0 .. MaxTime -> Nat] : Sums(p, h, MaxTime)
  BY <1>1, SumsThere
<1>3. SumsOf(h) \in [0 .. MaxTime -> Nat] /\ Sums(SumsOf(h), h, MaxTime)
  BY <1>2 DEF SumsOf
<1> QED
  BY <1>1, <1>3, SumsStep DEF Times

LEMMA ClampIs ==
  ASSUME NEW x \in Int PROVE Clamp(x) \in 0 .. MaxTime
<1> QED
  BY BoundsAssumption DEF Clamp

LEMMA UpToType ==
  ASSUME NEW h \in [Times -> Nat], NEW x \in Int PROVE UpTo(h, x) \in Nat
<1> QED
  BY SumsOfThem, ClampIs DEF UpTo

\* More has been charged since an earlier time, and where less was charged
\* at each time less was between two.
LEMMA UpToGrows ==
  ASSUME NEW h \in [Times -> Nat], NEW g \in [Times -> Nat], \A t \in Times : h[t] <= g[t],
         NEW x \in Int, NEW y \in Int, x <= y
  PROVE  0 <= UpTo(h, y) - UpTo(h, x) /\ UpTo(h, y) - UpTo(h, x) <= UpTo(g, y) - UpTo(g, x)
<1> DEFINE p == SumsOf(h)
           q == SumsOf(g)
           a == Clamp(x)
           bad == {t \in 0 .. MaxTime : a <= t /\ ~(0 <= p[t] - p[a] /\ p[t] - p[a] <= q[t] - q[a])}
<1>1. a \in 0 .. MaxTime /\ Clamp(y) \in 0 .. MaxTime /\ a <= Clamp(y) /\ MaxTime \in Nat
  BY ClampIs, BoundsAssumption DEF Clamp
<1>2. p \in [0 .. MaxTime -> Nat] /\ q \in [0 .. MaxTime -> Nat]
  BY SumsOfThem
<1>3. \A t \in 1 .. MaxTime : p[t] = p[t - 1] + h[t] /\ q[t] = q[t - 1] + g[t]
  BY SumsOfThem DEF Times
<1> HIDE DEF p, q, a
<1>4. bad = {}
  <2> SUFFICES ASSUME bad # {} PROVE FALSE
    OBVIOUS
  <2>1. bad \in SUBSET Nat
    OBVIOUS
  <2>2. PICK m \in bad : \A j \in bad : m <= j
    BY <2>1, LeastOne
  <2>3. p[a] \in Nat /\ q[a] \in Nat /\ p[m] \in Nat /\ q[m] \in Nat
    BY <1>1, <1>2, <2>2
  <2>4. m # a
    BY <2>2, <2>3
  <2>5. m - 1 \in 0 .. MaxTime /\ m - 1 \notin bad /\ m \in 1 .. MaxTime /\ a <= m - 1
    BY <1>1, <2>2, <2>4
  <2>6. 0 <= p[m - 1] - p[a] /\ p[m - 1] - p[a] <= q[m - 1] - q[a]
    BY <2>5
  <2>7. p[m] = p[m - 1] + h[m] /\ q[m] = q[m - 1] + g[m]
    BY <1>3, <2>5
  <2>8. h[m] \in Nat /\ g[m] \in Nat /\ h[m] <= g[m] /\ p[m - 1] \in Nat /\ q[m - 1] \in Nat
    BY <1>2, <2>5 DEF Times
  <2>9. 0 <= p[m] - p[a] /\ p[m] - p[a] <= q[m] - q[a]
    BY <2>3, <2>6, <2>7, <2>8
  <2> QED
    BY <2>2, <2>9
<1>5. 0 <= p[Clamp(y)] - p[a] /\ p[Clamp(y)] - p[a] <= q[Clamp(y)] - q[a]
  BY <1>1, <1>4
<1> QED
  BY <1>5 DEF UpTo, p, q, a

\* What a charge adds.
AndCharged(h, n, ms) == [h EXCEPT ![n] = @ + ms]

LEMMA UpToCharged ==
  ASSUME NEW h \in [Times -> Nat], NEW n \in Times, NEW ms \in Nat, NEW g, g = AndCharged(h, n, ms),
         NEW x \in Int
  PROVE  g \in [Times -> Nat] /\ UpTo(g, x) = UpTo(h, x) + (IF x >= n THEN ms ELSE 0)
<1> DEFINE p == SumsOf(h)
           q == SumsOf(g)
           bad == {t \in 0 .. MaxTime : q[t] # p[t] + (IF t >= n THEN ms ELSE 0)}
<1>0. g = [h EXCEPT ![n] = @ + ms]
  BY DEF AndCharged
<1>1. g \in [Times -> Nat]
  BY <1>0 DEF Times
<1>2. p \in [0 .. MaxTime -> Nat] /\ q \in [0 .. MaxTime -> Nat] /\ p[0] = 0 /\ q[0] = 0
  BY <1>1, SumsOfThem
<1>3. \A t \in 1 .. MaxTime : p[t] = p[t - 1] + h[t] /\ q[t] = q[t - 1] + g[t]
  BY <1>1, SumsOfThem DEF Times
<1>4. \A t \in 1 .. MaxTime : h[t] \in Nat /\ g[t] = h[t] + (IF t = n THEN ms ELSE 0)
  BY <1>0 DEF Times
<1>5. MaxTime \in Nat /\ n \in 1 .. MaxTime
  BY BoundsAssumption DEF Times
<1> HIDE DEF p, q
<1>6. bad = {}
  <2> SUFFICES ASSUME bad # {} PROVE FALSE
    OBVIOUS
  <2>1. bad \in SUBSET Nat
    OBVIOUS
  <2>2. PICK m \in bad : \A j \in bad : m <= j
    BY <2>1, LeastOne
  <2>3. m # 0
    BY <1>2, <1>5, <2>2
  <2>4. m - 1 \in 0 .. MaxTime /\ m - 1 \notin bad /\ m \in 1 .. MaxTime
    BY <1>5, <2>2, <2>3
  <2>5. q[m - 1] = p[m - 1] + (IF m - 1 >= n THEN ms ELSE 0)
    BY <2>4
  <2>6. q[m] = q[m - 1] + g[m] /\ p[m] = p[m - 1] + h[m] /\ g[m] = h[m] + (IF m = n THEN ms ELSE 0)
    BY <1>3, <1>4, <2>4
  <2>7. h[m] \in Nat /\ p[m - 1] \in Nat
    BY <1>2, <1>4, <2>4
  <2>8. q[m] = p[m] + (IF m >= n THEN ms ELSE 0)
    BY <1>5, <2>4, <2>5, <2>6, <2>7
  <2> QED
    BY <2>2, <2>8
<1>7. Clamp(x) \in 0 .. MaxTime /\ (Clamp(x) >= n <=> x >= n)
  BY <1>5, ClampIs DEF Clamp
<1>8. q[Clamp(x)] = p[Clamp(x)] + (IF x >= n THEN ms ELSE 0)
  BY <1>6, <1>7
<1> QED
  BY <1>1, <1>8 DEF UpTo, p, q

\* Nothing charged is nothing, and what was not charged later does not count.
LEMMA UpToNone ==
  ASSUME NEW h \in [Times -> Nat], NEW x \in Int, NEW y \in Int, x <= y,
         \A t \in Times : x < t /\ t <= y => h[t] = 0
  PROVE  UpTo(h, x) = UpTo(h, y)
<1> DEFINE p == SumsOf(h)
           a == Clamp(x)
           c == Clamp(y)
           bad == {t \in 0 .. MaxTime : a <= t /\ t <= c /\ p[t] # p[a]}
<1>1. a \in 0 .. MaxTime /\ c \in 0 .. MaxTime /\ a <= c /\ MaxTime \in Nat
  BY ClampIs, BoundsAssumption DEF Clamp
<1>2. p \in [0 .. MaxTime -> Nat]
  BY SumsOfThem
<1>3. \A t \in 1 .. MaxTime : p[t] = p[t - 1] + h[t]
  BY SumsOfThem DEF Times
<1>4. \A t \in 1 .. MaxTime : a < t /\ t <= c => h[t] = 0
  BY BoundsAssumption DEF Clamp, Times
<1> HIDE DEF p, a, c
<1>5. bad = {}
  <2> SUFFICES ASSUME bad # {} PROVE FALSE
    OBVIOUS
  <2>1. bad \in SUBSET Nat
    OBVIOUS
  <2>2. PICK m \in bad : \A j \in bad : m <= j
    BY <2>1, LeastOne
  <2>3. m # a
    BY <2>2
  <2>4. m - 1 \in 0 .. MaxTime /\ m - 1 \notin bad /\ m \in 1 .. MaxTime /\ a < m /\ a <= m - 1
    BY <1>1, <2>2, <2>3
  <2>5. p[m - 1] = p[a] /\ h[m] = 0
    BY <1>1, <1>4, <2>2, <2>4
  <2>6. p[m] = p[m - 1] + h[m] /\ p[m - 1] \in Nat
    BY <1>2, <1>3, <2>4
  <2> QED
    BY <2>2, <2>5, <2>6
<1>6. p[c] = p[a]
  BY <1>1, <1>5
<1> QED
  BY <1>6 DEF UpTo, p, a, c

\* Airtime() is what was charged since.
AirtimeAt(charged, age, n) ==
  LET sum[t \in 0 .. n] ==
        IF t = 0 THEN 0 ELSE sum[t - 1] + (IF n - t <= age THEN charged[t] ELSE 0)
  IN sum[n]

LEMMA AirtimeAtIs ==
  ASSUME NEW h \in [Times -> Nat], NEW at \in Times, NEW age \in Nat
  PROVE  AirtimeAt(h, age, at) = UpTo(h, at) - UpTo(h, at - age - 1)
<1> DEFINE g == [t \in 1 .. at |-> IF at - t <= age THEN h[t] ELSE 0]
           p == SumsOf(h)
           k == Clamp(at - age - 1)
           sum == CHOOSE q : q = [t \in 0 .. at |-> IF t = 0 THEN 0 ELSE q[t - 1] + (IF at - t <= age THEN h[t] ELSE 0)]
<1>1. at \in Nat /\ at <= MaxTime /\ MaxTime \in Nat /\ at >= 1
  BY BoundsAssumption DEF Times
<1>2. g \in [1 .. at -> Nat]
  <2>1. \A t \in 1 .. at : h[t] \in Nat
    BY <1>1 DEF Times
  <2> QED
    BY <2>1
<1>3. PICK q \in [0 .. at -> Nat] : Sums(q, g, at)
  BY <1>1, <1>2, SumsThere
<1>4. \A r : (r = [t \in 0 .. at |-> IF t = 0 THEN 0 ELSE r[t - 1] + (IF at - t <= age THEN h[t] ELSE 0)])
             <=> Sums(r, g, at)
  <2> TAKE r
  <2>1. ASSUME NEW t \in 0 .. at
        PROVE  (IF t = 0 THEN 0 ELSE r[t - 1] + (IF at - t <= age THEN h[t] ELSE 0))
               = (IF t = 0 THEN 0 ELSE r[t - 1] + g[t])
    BY <1>1
  <2>2. [t \in 0 .. at |-> IF t = 0 THEN 0 ELSE r[t - 1] + (IF at - t <= age THEN h[t] ELSE 0)]
        = [t \in 0 .. at |-> IF t = 0 THEN 0 ELSE r[t - 1] + g[t]]
    <3> HIDE DEF g
    <3> QED
      BY <2>1
  <2> HIDE DEF g
  <2> QED
    BY <2>2, Zenon DEF Sums
<1>5. AirtimeAt(h, age, at) = sum[at]
  BY DEF AirtimeAt
<1>6. sum = q
  <2>1. Sums(sum, g, at)
    <3> HIDE DEF g
    <3>1. \E r : r = [t \in 0 .. at |-> IF t = 0 THEN 0 ELSE r[t - 1] + (IF at - t <= age THEN h[t] ELSE 0)]
      BY <1>3, <1>4, Zenon
    <3>2. sum = [t \in 0 .. at |-> IF t = 0 THEN 0 ELSE sum[t - 1] + (IF at - t <= age THEN h[t] ELSE 0)]
      BY <3>1, Zenon
    <3> HIDE DEF sum
    <3> QED
      BY <1>4, <3>2, Zenon
  <2> HIDE DEF sum, g
  <2> QED
    BY <1>1, <1>2, <1>3, <2>1, SumsAgree
<1>7. p \in [0 .. MaxTime -> Nat] /\ p[0] = 0 /\ \A t \in 1 .. MaxTime : p[t] = p[t - 1] + h[t]
  BY SumsOfThem DEF Times
<1>8. q[0] = 0 /\ \A t \in 1 .. at : q[t] = q[t - 1] + g[t]
  <2> HIDE DEF g
  <2> QED
    BY <1>1, <1>2, <1>3, SumsStep
<1>9. k \in 0 .. at - 1 /\ \A t \in 1 .. at : at - t <= age <=> k < t
  BY <1>1 DEF Clamp
<1>10. \A t \in 1 .. at : g[t] = IF k < t THEN h[t] ELSE 0
  BY <1>9
<1>11. \A t \in 1 .. at : h[t] \in Nat
  BY <1>1 DEF Times
<1> DEFINE bad == {t \in 0 .. at : q[t] # IF t <= k THEN 0 ELSE p[t] - p[k]}
<1> HIDE DEF g, p, k, sum
<1>12. bad = {}
  <2> SUFFICES ASSUME bad # {} PROVE FALSE
    OBVIOUS
  <2>1. bad \in SUBSET Nat
    OBVIOUS
  <2>2. PICK m \in bad : \A j \in bad : m <= j
    BY <2>1, LeastOne
  <2>3. m # 0
    BY <1>1, <1>8, <1>9, <2>2
  <2>4. m - 1 \in 0 .. at /\ m - 1 \notin bad /\ m \in 1 .. at /\ m \in 1 .. MaxTime
    BY <1>1, <2>2, <2>3
  <2>5. q[m - 1] = IF m - 1 <= k THEN 0 ELSE p[m - 1] - p[k]
    BY <2>4
  <2>6. q[m] = q[m - 1] + (IF k < m THEN h[m] ELSE 0) /\ p[m] = p[m - 1] + h[m] /\ h[m] \in Nat
    BY <1>7, <1>8, <1>10, <1>11, <2>4
  <2>7. p[m - 1] \in Nat /\ p[k] \in Nat
    <3>1. m - 1 \in 0 .. MaxTime /\ k \in 0 .. MaxTime
      BY <1>1, <1>9, <2>4
    <3>2. p \in [0 .. MaxTime -> Nat]
      BY <1>7
    <3> QED
      BY <3>1, <3>2
  <2>8. q[m] = IF m <= k THEN 0 ELSE p[m] - p[k]
    <3>1. CASE m <= k
      <4>1. ~(k < m) /\ m - 1 <= k
        BY <1>1, <1>9, <2>4, <3>1
      <4>2. q[m - 1] = 0
        BY <2>5, <4>1
      <4>3. q[m] = q[m - 1] + 0
        BY <2>6, <4>1
      <4> QED
        BY <3>1, <4>2, <4>3
    <3>2. CASE m - 1 = k
      BY <1>1, <1>9, <2>4, <2>5, <2>6, <2>7, <3>2
    <3>3. CASE m - 1 > k
      <4>1. k < m /\ ~(m - 1 <= k) /\ ~(m <= k)
        BY <1>1, <1>9, <2>4, <3>3
      <4>2. q[m - 1] = p[m - 1] - p[k]
        BY <2>5, <4>1
      <4>3. q[m] = (p[m - 1] - p[k]) + h[m]
        BY <2>6, <4>1, <4>2
      <4>4. q[m] = p[m] - p[k]
        BY <2>6, <2>7, <4>3
      <4> QED
        BY <4>1, <4>4
    <3>4. m <= k \/ m - 1 = k \/ m - 1 > k
      BY <1>1, <1>9, <2>4
    <3> QED
      BY <3>1, <3>2, <3>3, <3>4, Zenon
  <2> QED
    BY <2>2, <2>8
<1>13. q[at] = p[at] - p[k]
  BY <1>1, <1>9, <1>12
<1>14. Clamp(at) = at
  BY <1>1 DEF Clamp
<1> QED
  BY <1>5, <1>6, <1>13, <1>14 DEF UpTo, p, k

LEMMA AirtimeIs ==
  ASSUME NEW h \in [Times -> Nat], now \in Times, NEW age \in Nat
  PROVE  Airtime(h, age) = UpTo(h, now) - UpTo(h, now - age - 1)
<1>1. Airtime(h, age) = AirtimeAt(h, age, now)
  BY DEF Airtime, AirtimeAt
<1> QED
  BY <1>1, AirtimeAtIs

-----------------------------------------------------------------------------
(* What the ring of buckets says *)

\* How many buckets ago a bucket was written to, and when its time began.
Ago(b, i)      == IF b <= i THEN i - b ELSE i - b + Count
Since(b, i, s) == s - Ago(b, i) * Width

\* Each bucket holds what was charged in its time, and none was charged later.
Tells(wheel, i, s, h) ==
  /\ \A b \in Buckets : wheel[b] = UpTo(h, Since(b, i, s) + Width - 1) - UpTo(h, Since(b, i, s) - 1)
  /\ UpTo(h, s + Width - 1) = UpTo(h, MaxTime)

LEMMA Product ==
  ASSUME NEW a \in Int, NEW b \in Int
  PROVE  a * Width \in Int /\ (a + b) * Width = a * Width + b * Width /\ (a - b) * Width = a * Width - b * Width
         /\ 0 * Width = 0 /\ 1 * Width = Width /\ (a <= b => a * Width <= b * Width)
<1>1. Width \in Nat /\ Width > 0
  BY RingAssumption
<1>2. ASSUME a <= b PROVE a * Width <= b * Width
  <2>1. PICK d \in Nat : b = a + d
    BY <1>2
  <2>2. d * Width >= 0 /\ b * Width = a * Width + d * Width
    BY <1>1, <2>1
  <2> QED
    BY <1>1, <2>2
<1> QED
  BY <1>1, <1>2

\* The sum of the buckets is what was charged since the oldest of them began.
LEMMA UsedIs ==
  ASSUME NEW wheel \in [Buckets -> Nat], NEW i \in Buckets, NEW s \in Int, NEW h \in [Times -> Nat],
         Tells(wheel, i, s, h)
  PROVE  UsedBy(wheel) = UpTo(h, MaxTime) - UpTo(h, s - (Count - 1) * Width - 1)
<1> DEFINE g == [n \in 1 .. Count |-> wheel[n - 1]]
           edge(n) == s - (i - n) * Width - 1
           low(n) == s - ((i - n) + Count) * Width - 1
           total == CHOOSE q : q = [n \in 0 .. Count |-> IF n = 0 THEN 0 ELSE q[n - 1] + wheel[n - 1]]
<1>1. Count \in Nat /\ Count > 1 /\ Width \in Nat /\ i \in 0 .. Count - 1 /\ MaxTime \in Int
  BY RingAssumption, BoundsAssumption DEF Buckets
<1>2. g \in [1 .. Count -> Nat]
  BY <1>1 DEF Buckets
<1>3. PICK q \in [0 .. Count -> Nat] : Sums(q, g, Count)
  BY <1>1, <1>2, SumsThere
<1>4. \A r : (r = [n \in 0 .. Count |-> IF n = 0 THEN 0 ELSE r[n - 1] + wheel[n - 1]]) <=> Sums(r, g, Count)
  <2> TAKE r
  <2>1. ASSUME NEW n \in 0 .. Count
        PROVE  (IF n = 0 THEN 0 ELSE r[n - 1] + wheel[n - 1]) = (IF n = 0 THEN 0 ELSE r[n - 1] + g[n])
    BY <1>1
  <2>2. [n \in 0 .. Count |-> IF n = 0 THEN 0 ELSE r[n - 1] + wheel[n - 1]]
        = [n \in 0 .. Count |-> IF n = 0 THEN 0 ELSE r[n - 1] + g[n]]
    <3> HIDE DEF g
    <3> QED
      BY <2>1
  <2> HIDE DEF g
  <2> QED
    BY <2>2, Zenon DEF Sums
<1>5. UsedBy(wheel) = total[Count]
  BY DEF UsedBy
<1>6. total = q
  <2>1. Sums(total, g, Count)
    <3> HIDE DEF g
    <3>1. \E r : r = [n \in 0 .. Count |-> IF n = 0 THEN 0 ELSE r[n - 1] + wheel[n - 1]]
      BY <1>3, <1>4, Zenon
    <3>2. total = [n \in 0 .. Count |-> IF n = 0 THEN 0 ELSE total[n - 1] + wheel[n - 1]]
      BY <3>1, Zenon
    <3> HIDE DEF total
    <3> QED
      BY <1>4, <3>2, Zenon
  <2> HIDE DEF total, g
  <2> QED
    BY <1>1, <1>2, <1>3, <2>1, SumsAgree
<1>7. q[0] = 0 /\ \A n \in 1 .. Count : q[n] = q[n - 1] + wheel[n - 1]
  <2>1. q[0] = 0 /\ \A n \in 1 .. Count : q[n] = q[n - 1] + g[n]
    <3> HIDE DEF g
    <3> QED
      BY <1>1, <1>2, <1>3, SumsStep
  <2> QED
    BY <2>1
<1>8. ASSUME NEW n \in Int
      PROVE  edge(n) \in Int /\ low(n) \in Int /\ edge(n + 1) = edge(n) + Width /\ low(n + 1) = low(n) + Width
  <2>1. (i - n) * Width \in Int /\ ((i - n) + Count) * Width \in Int
    BY <1>1, Product
  <2>2. ((i - n) - 1) * Width = (i - n) * Width - Width
    BY <1>1, Product
  <2>3. (((i - n) + Count) - 1) * Width = ((i - n) + Count) * Width - Width
    BY <1>1, Product
  <2>4. i - (n + 1) = (i - n) - 1 /\ (i - (n + 1)) + Count = ((i - n) + Count) - 1
    BY <1>1
  <2> QED
    BY <1>1, <2>1, <2>2, <2>3, <2>4
<1>9. edge(i + 1) = s + Width - 1 /\ low(Count) = edge(0) /\ low(i + 1) = s - (Count - 1) * Width - 1
  <2>1. i - (i + 1) = 0 - 1 /\ (0 - 1) * Width = 0 - Width
    BY <1>1, Product
  <2>2. (i - Count) + Count = i - 0 /\ (i - (i + 1)) + Count = Count - 1
    BY <1>1
  <2> QED
    BY <1>1, <2>1, <2>2
<1>10. ASSUME NEW n \in 0 .. Count - 1
       PROVE  wheel[n] = IF n <= i THEN UpTo(h, edge(n + 1)) - UpTo(h, edge(n)) ELSE UpTo(h, low(n + 1)) - UpTo(h, low(n))
  <2>1. wheel[n] = UpTo(h, Since(n, i, s) + Width - 1) - UpTo(h, Since(n, i, s) - 1)
    BY DEF Tells, Buckets
  <2>2. n \in Int
    BY <1>1
  <2>3. CASE n <= i
    <3>1. Since(n, i, s) - 1 = edge(n)
      BY <2>3 DEF Since, Ago
    <3>2. (i - n) * Width \in Int
      BY <1>1, Product
    <3>3. Since(n, i, s) = s - (i - n) * Width
      BY <2>3 DEF Since, Ago
    <3>4. Since(n, i, s) + Width - 1 = edge(n) + Width
      BY <1>1, <3>2, <3>3
    <3> HIDE DEF edge
    <3>5. edge(n + 1) = edge(n) + Width
      BY <1>8, <2>2
    <3> QED
      BY <2>1, <2>3, <3>1, <3>4, <3>5
  <2>4. CASE ~(n <= i)
    <3>1. Since(n, i, s) - 1 = low(n)
      BY <2>4 DEF Since, Ago
    <3>2. ((i - n) + Count) * Width \in Int
      BY <1>1, Product
    <3>3. Since(n, i, s) = s - ((i - n) + Count) * Width
      BY <2>4 DEF Since, Ago
    <3>4. Since(n, i, s) + Width - 1 = low(n) + Width
      BY <1>1, <3>2, <3>3
    <3> HIDE DEF low
    <3>5. low(n + 1) = low(n) + Width
      BY <1>8, <2>2
    <3> QED
      BY <2>1, <2>4, <3>1, <3>4, <3>5
  <2> QED
    BY <2>3, <2>4
<1> DEFINE top(n) == IF n <= i + 1 THEN UpTo(h, edge(n)) - UpTo(h, edge(0))
                     ELSE (UpTo(h, edge(i + 1)) - UpTo(h, edge(0))) + (UpTo(h, low(n)) - UpTo(h, low(i + 1)))
           bad == {n \in 0 .. Count : q[n] # top(n)}
<1>11. ASSUME NEW n \in Int PROVE UpTo(h, edge(n)) \in Nat /\ UpTo(h, low(n)) \in Nat
  <2> HIDE DEF edge, low
  <2> QED
    BY <1>8, UpToType
<1> HIDE DEF edge, low, g, total
<1>12. bad = {}
  <2> SUFFICES ASSUME bad # {} PROVE FALSE
    OBVIOUS
  <2>1. bad \in SUBSET Nat
    BY <1>1
  <2>2. PICK m \in bad : \A j \in bad : m <= j
    BY <2>1, LeastOne
  <2>3. m # 0
    <3>1. UpTo(h, edge(0)) \in Nat
      BY <1>11
    <3>2. top(0) = 0
      BY <1>1, <3>1
    <3> QED
      BY <1>7, <2>2, <3>2
  <2>4. m \in 1 .. Count /\ m - 1 \in 0 .. Count /\ m - 1 \in 0 .. Count - 1 /\ m - 1 \notin bad /\ m \in Int /\ m - 1 \in Int
    BY <1>1, <2>2, <2>3
  <2>5. q[m - 1] = top(m - 1) /\ q[m] = q[m - 1] + wheel[m - 1] /\ (m - 1) + 1 = m
    BY <1>7, <2>4
  <2>6. wheel[m - 1] = IF m - 1 <= i THEN UpTo(h, edge(m)) - UpTo(h, edge(m - 1)) ELSE UpTo(h, low(m)) - UpTo(h, low(m - 1))
    BY <1>10, <2>4, <2>5
  <2>7. /\ UpTo(h, edge(m)) \in Nat /\ UpTo(h, edge(m - 1)) \in Nat /\ UpTo(h, edge(0)) \in Nat
        /\ UpTo(h, low(m)) \in Nat /\ UpTo(h, low(m - 1)) \in Nat
        /\ UpTo(h, low(i + 1)) \in Nat /\ UpTo(h, edge(i + 1)) \in Nat
    <3>1. 0 \in Int /\ i + 1 \in Int
      BY <1>1
    <3>2. \A n \in Int : UpTo(h, edge(n)) \in Nat /\ UpTo(h, low(n)) \in Nat
      BY <1>11
    <3>3. m \in Int /\ m - 1 \in Int
      BY <2>4
    <3> QED
      BY <3>1, <3>2, <3>3, Zenon
  <2>8. CASE m - 1 <= i
    <3>1. top(m - 1) = UpTo(h, edge(m - 1)) - UpTo(h, edge(0)) /\ top(m) = UpTo(h, edge(m)) - UpTo(h, edge(0))
      BY <1>1, <2>4, <2>8
    <3> HIDE DEF top
    <3> QED
      BY <2>2, <2>5, <2>6, <2>7, <2>8, <3>1
  <2>9. CASE m - 1 = i + 1
    <3>1. top(m - 1) = UpTo(h, edge(i + 1)) - UpTo(h, edge(0)) /\ ~(m - 1 <= i)
      BY <1>1, <2>4, <2>9
    <3>2. top(m) = (UpTo(h, edge(i + 1)) - UpTo(h, edge(0))) + (UpTo(h, low(m)) - UpTo(h, low(i + 1)))
      BY <1>1, <2>4, <2>9
    <3>3. UpTo(h, low(m - 1)) = UpTo(h, low(i + 1))
      BY <2>9
    <3> HIDE DEF top
    <3> QED
      BY <2>2, <2>5, <2>6, <2>7, <3>1, <3>2, <3>3
  <2>10. CASE m - 1 > i + 1
    <3>1. top(m - 1) = (UpTo(h, edge(i + 1)) - UpTo(h, edge(0))) + (UpTo(h, low(m - 1)) - UpTo(h, low(i + 1)))
      BY <1>1, <2>4, <2>10
    <3>2. top(m) = (UpTo(h, edge(i + 1)) - UpTo(h, edge(0))) + (UpTo(h, low(m)) - UpTo(h, low(i + 1)))
      BY <1>1, <2>4, <2>10
    <3>3. ~(m - 1 <= i)
      BY <1>1, <2>4, <2>10
    <3> HIDE DEF top
    <3> QED
      BY SMTT(20), <2>2, <2>5, <2>6, <2>7, <3>1, <3>2, <3>3
  <2> QED
    BY <1>1, <2>4, <2>8, <2>9, <2>10
<1>13. q[Count] = top(Count)
  <2> HIDE DEF top
  <2>1. Count \in 0 .. Count
    BY <1>1
  <2>2. Count \notin bad
    <3> HIDE DEF bad
    <3> QED
      BY <1>12
  <2> QED
    BY <2>1, <2>2
<1>14. /\ UpTo(h, edge(0)) \in Nat /\ UpTo(h, edge(i + 1)) \in Nat /\ UpTo(h, low(i + 1)) \in Nat
       /\ UpTo(h, low(Count)) = UpTo(h, edge(0))
  BY <1>1, <1>9, <1>11
<1>15. top(Count) = UpTo(h, edge(i + 1)) - UpTo(h, low(i + 1))
  <2>1. CASE Count <= i + 1
    <3>1. Count = i + 1
      BY <1>1, <2>1
    <3>2. top(Count) = UpTo(h, edge(i + 1)) - UpTo(h, edge(0))
      BY <3>1, <2>1
    <3>3. UpTo(h, low(i + 1)) = UpTo(h, edge(0))
      BY <1>14, <3>1
    <3> QED
      BY <3>2, <3>3
  <2>2. CASE ~(Count <= i + 1)
    <3>1. top(Count) = (UpTo(h, edge(i + 1)) - UpTo(h, edge(0))) + (UpTo(h, low(Count)) - UpTo(h, low(i + 1)))
      BY <2>2
    <3> HIDE DEF top
    <3> QED
      BY <1>14, <3>1
  <2> QED
    BY <2>1, <2>2
<1>16. UpTo(h, edge(i + 1)) = UpTo(h, MaxTime)
  BY <1>9 DEF Tells
<1>17. UpTo(h, low(i + 1)) = UpTo(h, s - (Count - 1) * Width - 1)
  BY <1>9
<1> HIDE DEF top
<1> QED
  BY <1>5, <1>6, <1>13, <1>15, <1>16, <1>17

-----------------------------------------------------------------------------
(* Sliding the ring *)

LEMMA AfterIs ==
  ASSUME NEW i \in Buckets, NEW j \in 0 .. Count
  PROVE  After(i, j) = IF i + j < Count THEN i + j ELSE i + j - Count
<1>1. Count \in Nat /\ Count > 1 /\ i \in 0 .. Count - 1
  BY RingAssumption DEF Buckets
<1> DEFINE a == i + j
<1>2. a \in Nat /\ a < 2 * Count
  BY <1>1
<1>3. After(i, j) = a % Count
  BY DEF After
<1> HIDE DEF a
<1>4. CASE a < Count
  <2>1. a % Count = a
    BY <1>1, <1>2, <1>4
  <2>2. After(i, j) = a
    BY <1>3, <2>1
  <2>3. After(i, j) = i + j /\ i + j < Count
    BY <1>4, <2>2 DEF a
  <2> QED
    BY <2>3, Zenon
<1>5. CASE ~(a < Count)
  <2>1. PICK b \in 0 .. Count - 1 : a = b + Count
    <3>1. a - Count \in 0 .. Count - 1 /\ a = (a - Count) + Count
      BY <1>1, <1>2, <1>5
    <3> QED
      BY <3>1
  <2>2. b % Count = b
    BY <1>1, <2>1
  <2>3. (b + Count) % Count = b
    BY <1>1, <2>1, <2>2
  <2>4. After(i, j) = a - Count
    BY <1>1, <1>2, <1>3, <2>1, <2>3
  <2>5. After(i, j) = i + j - Count
    BY <1>1, <2>4 DEF a
  <2>6. ~(i + j < Count)
    BY <1>5 DEF a
  <2> QED
    BY <2>5, <2>6, Zenon
<1> QED
  BY <1>4, <1>5

LEMMA AgoMoves ==
  ASSUME NEW i \in Buckets, NEW b \in Buckets, NEW p \in 1 .. Count - 1
  PROVE  /\ After(i, p) \in Buckets /\ Ago(b, i) \in 0 .. Count - 1
         /\ (\E j \in 1 .. p : b = After(i, j)) => Ago(b, After(i, p)) \in 0 .. p - 1
         /\ ~(\E j \in 1 .. p : b = After(i, j)) => Ago(b, After(i, p)) = Ago(b, i) + p
<1>1. Count \in Nat /\ Count > 1 /\ i \in 0 .. Count - 1 /\ b \in 0 .. Count - 1 /\ p \in Nat
  BY RingAssumption DEF Buckets
<1>2. PICK k : k = After(i, p)
  OBVIOUS
<1>3. k = IF i + p < Count THEN i + p ELSE i + p - Count
  BY <1>1, <1>2, AfterIs
<1>4. k \in 0 .. Count - 1
  BY <1>1, <1>3
<1>5. Ago(b, i) \in 0 .. Count - 1
  BY <1>1 DEF Ago
<1>6. ASSUME NEW j \in 1 .. p, b = After(i, j) PROVE Ago(b, k) \in 0 .. p - 1
  <2>1. b = IF i + j < Count THEN i + j ELSE i + j - Count
    BY <1>1, <1>6, AfterIs
  <2>2. j \in Nat /\ 1 <= j /\ j <= p /\ p < Count
    BY <1>1
  <2>3. CASE i + p < Count
    <3>1. k = i + p /\ b = i + j
      BY <1>1, <1>3, <2>1, <2>2, <2>3
    <3>2. b <= k /\ k - b = p - j
      BY <1>1, <2>2, <3>1
    <3> QED
      BY <2>2, <3>2 DEF Ago
  <2>4. CASE ~(i + p < Count) /\ i + j < Count
    <3>1. k = i + p - Count /\ b = i + j
      BY <1>3, <2>1, <2>4
    <3>2. ~(b <= k) /\ k - b + Count = p - j
      BY <1>1, <2>2, <3>1
    <3> QED
      BY <2>2, <3>2 DEF Ago
  <2>5. CASE ~(i + p < Count) /\ ~(i + j < Count)
    <3>1. k = i + p - Count /\ b = i + j - Count
      BY <1>3, <2>1, <2>5
    <3>2. b <= k /\ k - b = p - j
      BY <1>1, <2>2, <3>1
    <3> QED
      BY <2>2, <3>2 DEF Ago
  <2> QED
    BY <2>3, <2>4, <2>5
<1>7. ASSUME \A j \in 1 .. p : b # After(i, j) PROVE Ago(b, k) = Ago(b, i) + p
  <2>1. CASE b <= i
    <3>1. ASSUME b + Count - i <= p PROVE FALSE
      <4>1. b + Count - i \in 1 .. p /\ b + Count - i \in 0 .. Count
        BY <1>1, <2>1, <3>1
      <4>2. After(i, b + Count - i) = b
        BY <1>1, <4>1, AfterIs
      <4> QED
        BY <1>7, <4>1, <4>2
    <3>2. i - b + p < Count
      BY <1>1, <3>1
    <3>3. Ago(b, i) = i - b
      BY <2>1 DEF Ago
    <3>4. CASE i + p < Count
      <4>1. k = i + p
        BY <1>3, <3>4
      <4>2. b <= k /\ k - b = (i - b) + p
        BY <1>1, <2>1, <4>1
      <4> QED
        BY <3>3, <4>2 DEF Ago
    <3>5. CASE ~(i + p < Count)
      <4>1. k = i + p - Count
        BY <1>3, <3>5
      <4>2. ~(b <= k) /\ k - b + Count = (i - b) + p
        BY <1>1, <3>2, <4>1
      <4> QED
        BY <3>3, <4>2 DEF Ago
    <3> QED
      BY <3>4, <3>5
  <2>2. CASE ~(b <= i)
    <3>1. ASSUME b - i <= p PROVE FALSE
      <4>1. b - i \in 1 .. p /\ b - i \in 0 .. Count
        BY <1>1, <2>2, <3>1
      <4>2. After(i, b - i) = b
        BY <1>1, <4>1, AfterIs
      <4> QED
        BY <1>7, <4>1, <4>2
    <3>2. i + p < b
      BY <1>1, <3>1
    <3>3. k = i + p /\ ~(b <= k)
      BY <1>1, <1>3, <3>2
    <3>4. Ago(b, k) = k - b + Count /\ Ago(b, i) = i - b + Count
      BY <2>2, <3>3 DEF Ago
    <3> QED
      BY <1>1, <3>3, <3>4
  <2> QED
    BY <2>1, <2>2
<1>8. k \in Buckets
  BY <1>4 DEF Buckets
<1> QED
  BY <1>2, <1>5, <1>6, <1>7, <1>8

LEMMA UpToFlat ==
  ASSUME NEW h \in [Times -> Nat], NEW a \in Int, UpTo(h, a) = UpTo(h, MaxTime), NEW x \in Int, a <= x
  PROVE  UpTo(h, x) = UpTo(h, MaxTime)
<1>1. MaxTime \in Int /\ MaxTime \in Nat
  BY BoundsAssumption
<1>2. CASE x <= MaxTime
  <2>1. 0 <= UpTo(h, x) - UpTo(h, a) /\ 0 <= UpTo(h, MaxTime) - UpTo(h, x)
    <3>1. \A t \in Times : h[t] <= h[t]
      OBVIOUS
    <3> QED
      BY <1>1, <1>2, <3>1, UpToGrows
  <2>2. UpTo(h, x) \in Nat /\ UpTo(h, a) \in Nat /\ UpTo(h, MaxTime) \in Nat
    BY <1>1, UpToType
  <2> QED
    BY <2>1, <2>2
<1>3. CASE x > MaxTime
  <2>1. Clamp(x) = Clamp(MaxTime)
    BY <1>1, <1>3 DEF Clamp
  <2> QED
    BY <2>1 DEF UpTo
<1> QED
  BY <1>1, <1>2, <1>3

\* Nothing is charged before the ring is opened, or ahead of the clock.
Opened == base = 0 => \A t \in Times : spent[t] = 0
Ahead  == \A t \in Times : t > now => spent[t] = 0

LEMMA Passing ==
  ASSUME now \in Nat, base \in 0 .. now
  PROVE  Passed \in Nat /\ Passed * Width <= now - base /\ now - base < Passed * Width + Width
<1> DEFINE a == now - base
<1>1. a \in Nat /\ Width \in Nat /\ Width > 0
  BY RingAssumption
<1>2. Passed = a \div Width
  BY DEF Passed
<1> HIDE DEF a
<1>3. a \div Width \in Nat /\ (a \div Width) * Width <= a /\ a < (a \div Width) * Width + Width
  BY <1>1
<1> QED
  BY <1>2, <1>3 DEF a

LEMMA SlidTells ==
  ASSUME DutyTypeOK, Opened, Tells(bucket, index, base, spent)
  PROVE  /\ Slid.bucket \in [Buckets -> Nat] /\ Slid.index \in Buckets
         /\ Slid.base \in 1 .. now /\ now < Slid.base + Width
         /\ Tells(Slid.bucket, Slid.index, Slid.base, spent)
<1>1. /\ Count \in Nat /\ Count > 1 /\ Width \in Nat /\ Width > 0 /\ MaxTime \in Nat /\ MaxTime \in Int
      /\ now \in Nat /\ now >= 1 /\ base \in Nat /\ base <= now
      /\ bucket \in [Buckets -> Nat] /\ index \in Buckets /\ spent \in [Times -> Nat]
  BY RingAssumption, BoundsAssumption DEF DutyTypeOK, Times
<1>2. Passed \in Nat /\ Passed * Width <= now - base /\ now - base < Passed * Width + Width
  BY <1>1, Passing
<1>3. \A x \in Int : UpTo(spent, x) \in Nat
  BY <1>1, UpToType
<1>4. \A i \in Buckets, b \in Buckets : Ago(b, i) \in 0 .. Count - 1 /\ Ago(b, i) * Width \in Int
  <2>1. \A i \in Buckets, b \in Buckets : Ago(b, i) \in 0 .. Count - 1
    BY <1>1 DEF Buckets, Ago
  <2> QED
    BY <1>1, <2>1, Product
<1>5. CASE base = 0
  <2>1. Slid.bucket = bucket /\ Slid.index = index /\ Slid.base = now
    BY <1>5 DEF Slid
  <2>2. ASSUME NEW x \in Int, NEW y \in Int, x <= y PROVE UpTo(spent, x) = UpTo(spent, y)
    <3>1. \A t \in Times : spent[t] = 0
      BY <1>5 DEF Opened
    <3> QED
      BY <1>1, <2>2, <3>1, UpToNone
  <2>3. ASSUME NEW b \in Buckets
        PROVE  bucket[b] = UpTo(spent, Since(b, index, now) + Width - 1) - UpTo(spent, Since(b, index, now) - 1)
    <3>1. bucket[b] = UpTo(spent, Since(b, index, base) + Width - 1) - UpTo(spent, Since(b, index, base) - 1)
      BY DEF Tells
    <3>2. Since(b, index, base) \in Int /\ Since(b, index, now) \in Int
      BY <1>1, <1>4 DEF Since
    <3>3. ASSUME NEW x \in Int PROVE UpTo(spent, x + Width - 1) - UpTo(spent, x - 1) = 0
      <4>1. x + Width - 1 \in Int /\ x - 1 \in Int /\ x - 1 <= x + Width - 1
        BY <1>1
      <4>2. UpTo(spent, x + Width - 1) = UpTo(spent, x - 1) /\ UpTo(spent, x - 1) \in Nat
        BY <1>3, <2>2, <4>1
      <4> QED
        BY <4>2
    <3> QED
      BY <3>1, <3>2, <3>3
  <2>4. UpTo(spent, now + Width - 1) = UpTo(spent, MaxTime)
    <3>1. now + Width - 1 <= MaxTime \/ MaxTime <= now + Width - 1
      BY <1>1
    <3>2. now + Width - 1 \in Int
      BY <1>1
    <3> QED
      BY <1>1, <2>2, <3>1, <3>2
  <2>5. now \in 1 .. now /\ now < now + Width
    BY <1>1
  <2> QED
    BY <1>1, <2>1, <2>3, <2>4, <2>5 DEF Tells
<1>6. CASE base # 0 /\ Passed = 0
  <2>1. Slid.bucket = bucket /\ Slid.index = index /\ Slid.base = base
    BY <1>6 DEF Slid
  <2>2. base \in 1 .. now /\ now < base + Width
    BY <1>1, <1>2, <1>6, Product
  <2> QED
    BY <1>1, <2>1, <2>2
<1>7. ASSUME base # 0, Passed # 0
      PROVE  /\ NewBase \in 1 .. now /\ now < NewBase + Width /\ NewBase >= base + Width
             /\ \A x \in Int : x >= base + Width - 1 => UpTo(spent, x) = UpTo(spent, MaxTime)
             /\ UpTo(spent, NewBase + Width - 1) = UpTo(spent, MaxTime)
  <2> DEFINE m == Passed * Width
  <2>1. m \in Int /\ m >= Width
    <3>1. 1 * Width <= Passed * Width /\ Passed * Width \in Int /\ 1 * Width = Width
      <4>1. Passed \in Int /\ 1 \in Int /\ 1 <= Passed
        BY <1>2, <1>7
      <4> QED
        BY <4>1, Product
    <3> QED
      BY <3>1
  <2>2. NewBase = base + m /\ m <= now - base /\ now - base < m + Width
    BY <1>2 DEF NewBase
  <2> HIDE DEF m
  <2>3. NewBase \in 1 .. now /\ now < NewBase + Width /\ NewBase >= base + Width
    BY <1>1, <1>7, <2>1, <2>2
  <2>4. UpTo(spent, base + Width - 1) = UpTo(spent, MaxTime) /\ base + Width - 1 \in Int
    BY <1>1 DEF Tells
  <2>5. \A x \in Int : x >= base + Width - 1 => UpTo(spent, x) = UpTo(spent, MaxTime)
    BY <1>1, <2>4, UpToFlat
  <2>6. NewBase + Width - 1 \in Int /\ NewBase + Width - 1 >= base + Width - 1
    BY <1>1, <2>3
  <2> QED
    BY <2>3, <2>5, <2>6
<1>8. CASE base # 0 /\ Passed # 0 /\ Passed >= Count
  <2>1. Slid.bucket = [b \in Buckets |-> 0] /\ Slid.index = index /\ Slid.base = NewBase
    BY <1>8 DEF Slid
  <2>2. ASSUME NEW b \in Buckets
        PROVE  Since(b, index, NewBase) \in Int /\ Since(b, index, NewBase) >= base + Width
    <3> DEFINE a == Ago(b, index)
    <3>1. a \in 0 .. Count - 1 /\ a * Width \in Int
      BY <1>1, <1>4
    <3>2. NewBase = base + Passed * Width
      BY DEF NewBase
    <3> HIDE DEF a
    <3>3. (a + 1) * Width <= Passed * Width /\ (a + 1) * Width = a * Width + Width /\ Passed * Width \in Int
      <4>1. a + 1 \in Int /\ a \in Int /\ Passed \in Int /\ a + 1 <= Passed
        BY <1>1, <1>2, <1>8, <3>1
      <4> QED
        BY <4>1, Product
    <3>4. NewBase - a * Width \in Int /\ NewBase - a * Width >= base + Width
      BY <1>1, <3>1, <3>2, <3>3
    <3> QED
      BY <3>4 DEF Since, a
  <2>3. ASSUME NEW b \in Buckets
        PROVE  0 = UpTo(spent, Since(b, index, NewBase) + Width - 1) - UpTo(spent, Since(b, index, NewBase) - 1)
    <3>1. PICK x \in Int : x = Since(b, index, NewBase) /\ x >= base + Width
      BY <2>2
    <3>2. x + Width - 1 \in Int /\ x + Width - 1 >= base + Width - 1 /\ x - 1 \in Int /\ x - 1 >= base + Width - 1
      BY <1>1, <3>1
    <3>3. UpTo(spent, x + Width - 1) = UpTo(spent, MaxTime) /\ UpTo(spent, x - 1) = UpTo(spent, MaxTime)
      BY <1>7, <1>8, <3>2
    <3>4. UpTo(spent, MaxTime) \in Nat
      BY <1>1, <1>3
    <3> QED
      BY <3>1, <3>3, <3>4
  <2>4. Tells([b \in Buckets |-> 0], index, NewBase, spent)
    BY <1>7, <1>8, <2>3 DEF Tells
  <2> QED
    BY <1>1, <1>7, <1>8, <2>1, <2>4
<1>9. CASE base # 0 /\ Passed # 0 /\ ~(Passed >= Count)
  <2> DEFINE wheel == [b \in Buckets |-> IF Stale(b) THEN 0 ELSE bucket[b]]
             i == After(index, Passed)
  <2>1. Slid.bucket = wheel /\ Slid.index = i /\ Slid.base = NewBase
    BY <1>9 DEF Slid
  <2>2. Passed \in 1 .. Count - 1
    BY <1>1, <1>2, <1>9
  <2>3. i \in Buckets /\ wheel \in [Buckets -> Nat]
    BY <1>1, <2>2, AgoMoves
  <2>4. ASSUME NEW b \in Buckets
        PROVE  wheel[b] = UpTo(spent, Since(b, i, NewBase) + Width - 1) - UpTo(spent, Since(b, i, NewBase) - 1)
    <3>1. CASE Stale(b)
      <4>1. wheel[b] = 0
        BY <3>1
      <4> DEFINE a == Ago(b, i)
      <4>2. a \in 0 .. Passed - 1
        BY <1>1, <2>2, <3>1, AgoMoves DEF Stale
      <4> HIDE DEF a, i
      <4>3. (a + 1) * Width <= Passed * Width /\ (a + 1) * Width = a * Width + Width
            /\ Passed * Width \in Int /\ a * Width \in Int
        <5>1. a + 1 \in Int /\ a \in Int /\ Passed \in Int /\ 1 \in Int /\ a + 1 <= Passed
          BY <1>2, <4>2
        <5>2. (a + 1) * Width <= Passed * Width
          BY <5>1, Product
        <5>3. (a + 1) * Width = a * Width + 1 * Width /\ 1 * Width = Width
          BY <5>1, Product
        <5>4. Passed * Width \in Int /\ a * Width \in Int
          BY <5>1, Product
        <5> QED
          BY <5>2, <5>3, <5>4
      <4>4. PICK x \in Int : x = Since(b, i, NewBase) /\ x >= base + Width
        <5>1. NewBase = base + Passed * Width /\ Since(b, i, NewBase) = NewBase - a * Width
          BY DEF NewBase, Since, a
        <5>2. NewBase - a * Width \in Int /\ NewBase - a * Width >= base + Width
          BY <1>1, <4>3, <5>1
        <5> QED
          BY <5>1, <5>2
      <4>5. x + Width - 1 \in Int /\ x + Width - 1 >= base + Width - 1 /\ x - 1 \in Int /\ x - 1 >= base + Width - 1
        BY <1>1, <4>4
      <4>6. UpTo(spent, x + Width - 1) = UpTo(spent, MaxTime) /\ UpTo(spent, x - 1) = UpTo(spent, MaxTime)
        BY <1>7, <1>9, <4>5
      <4>7. UpTo(spent, MaxTime) \in Nat
        BY <1>1, <1>3
      <4> HIDE DEF wheel
      <4> QED
        BY <4>1, <4>4, <4>6, <4>7
    <3>2. CASE ~Stale(b)
      <4>1. wheel[b] = bucket[b]
        BY <3>2
      <4>2. Ago(b, i) = Ago(b, index) + Passed /\ Ago(b, index) \in 0 .. Count - 1
        BY <1>1, <2>2, <3>2, AgoMoves DEF Stale
      <4> DEFINE a == Ago(b, index)
      <4> HIDE DEF a, i
      <4>3. (a + Passed) * Width = a * Width + Passed * Width /\ a * Width \in Int /\ Passed * Width \in Int
        <5>1. a \in Int /\ Passed \in Int
          BY <1>2, <4>2 DEF a
        <5> QED
          BY <5>1, Product
      <4>4. Since(b, i, NewBase) = Since(b, index, base)
        <5>1. Since(b, i, NewBase) = (base + Passed * Width) - (a + Passed) * Width
          BY <4>2 DEF NewBase, Since, a
        <5>2. Since(b, index, base) = base - a * Width
          BY DEF Since, a
        <5> QED
          BY <1>1, <4>3, <5>1, <5>2
      <4> HIDE DEF wheel
      <4> QED
        BY <4>1, <4>4 DEF Tells
    <3> QED
      BY <3>1, <3>2
  <2>5. Tells(wheel, i, NewBase, spent)
    <3> HIDE DEF wheel, i
    <3> QED
      BY <1>7, <1>9, <2>4 DEF Tells
  <2> HIDE DEF wheel, i
  <2> QED
    BY <1>1, <1>7, <1>9, <2>1, <2>3, <2>5
<1> QED
  BY <1>5, <1>6, <1>8, <1>9

-----------------------------------------------------------------------------
(* The limiter *)

\* The tasks that have looked at the ceiling and not charged yet.
Through == {t \in Limited : cleared[t] # 0}
Recent  == (Count - 1) * Width

\* What is not critical was charged too; who was let through found the window
\* under the ceiling.
DutyInv ==
  /\ DutyTypeOK /\ Opened /\ Ahead /\ Tells(bucket, index, base, spent)
  /\ \A t \in Times : own[t] <= spent[t]
  /\ \A t \in Callers : cleared[t] <= Longest
  /\ Airtime(own, Recent) + Cardinality(Through) * Longest <= Ceiling - 1 + Cardinality(Limited) * Longest

LEMMA Bounds ==
  /\ Count \in Nat /\ Count > 1 /\ Width \in Nat /\ Width > 0 /\ MaxTime \in Nat /\ MaxTime > 0 /\ MaxTime \in Int
  /\ Ceiling \in Nat /\ Ceiling > 0 /\ Longest \in Nat /\ Recent \in Nat /\ Count * Width \in Nat
  /\ Count * Width = Recent + Width
<1>1. /\ Count \in Nat /\ Count > 1 /\ Width \in Nat /\ Width > 0 /\ MaxTime \in Nat /\ MaxTime > 0 /\ MaxTime \in Int
      /\ Ceiling \in Nat /\ Ceiling > 0 /\ Longest \in Nat
  BY RingAssumption, BoundsAssumption, CeilingAssumption, AirtimeAssumption
<1> DEFINE c == Count - 1
<1>2. c \in Int /\ c >= 0 /\ c + 1 = Count /\ 1 \in Int /\ 0 \in Int
  BY <1>1
<1>3. c * Width \in Int /\ 0 * Width <= c * Width /\ (c + 1) * Width = c * Width + 1 * Width
      /\ 1 * Width = Width /\ 0 * Width = 0
  <2> HIDE DEF c
  <2> QED
    BY <1>2, Product
<1>4. Recent = c * Width /\ Count * Width = (c + 1) * Width
  BY <1>2 DEF Recent
<1> HIDE DEF c
<1>5. Recent \in Nat
  BY <1>3, <1>4
<1>6. Count * Width = Recent + Width
  BY <1>3, <1>4
<1> QED
  BY <1>1, <1>5, <1>6

\* The same at the next moment.
LEMMA AirtimeNext ==
  ASSUME NEW h \in [Times -> Nat], own' = h, now' \in Times
  PROVE  Airtime(own, Recent)' = UpTo(h, now') - UpTo(h, now' - Recent - 1)
<1>1. Airtime(own, Recent)' = AirtimeAt(own', Recent, now')
  BY DEF Airtime, AirtimeAt, Recent
<1>2. Recent \in Nat
  BY Bounds
<1>3. AirtimeAt(h, Recent, now') = UpTo(h, now') - UpTo(h, now' - Recent - 1)
  BY <1>2, AirtimeAtIs
<1> QED
  BY <1>1, <1>3

LEMMA Cards ==
  /\ IsFiniteSet(Limited) /\ Cardinality(Limited) \in Nat /\ IsFiniteSet(Through)
  /\ Cardinality(Through) \in Nat /\ Cardinality(Through) <= Cardinality(Limited)
<1>1. IsFiniteSet(Limited) /\ Through \subseteq Limited
  BY LimitedAssumption DEF Through
<1>2. IsFiniteSet(Through) /\ Cardinality(Through) <= Cardinality(Limited)
  BY <1>1, FS_Subset
<1> QED
  BY <1>1, <1>2, FS_CardinalityType

LEMMA CardsNext ==
  /\ IsFiniteSet(Through') /\ Cardinality(Through') \in Nat /\ Cardinality(Through') <= Cardinality(Limited)
<1>1. IsFiniteSet(Limited) /\ Through' \subseteq Limited
  BY LimitedAssumption DEF Through
<1>2. IsFiniteSet(Through') /\ Cardinality(Through') <= Cardinality(Limited)
  BY <1>1, FS_Subset
<1> QED
  BY <1>1, <1>2, FS_CardinalityType

\* What the duty cycle shows, and what it must and must not count.
LEMMA UsedBetween ==
  ASSUME DutyTypeOK, Opened, Ahead, Tells(bucket, index, base, spent)
  PROVE  /\ Used >= Airtime(spent, Recent) /\ Used <= Airtime(spent, Count * Width - 1)
         /\ Used \in Int
<1>1. /\ now \in Times /\ now \in Int /\ now <= MaxTime /\ spent \in [Times -> Nat]
  BY Bounds DEF DutyTypeOK, Times
<1>2. PICK wheel \in [Buckets -> Nat], i \in Buckets, s \in 1 .. now :
        wheel = Slid.bucket /\ now < s + Width /\ Tells(wheel, i, s, spent)
  BY SlidTells
<1>3. s \in Int /\ s <= now
  BY <1>1
<1>4. Used = UpTo(spent, MaxTime) - UpTo(spent, s - Recent - 1)
  BY <1>1, <1>2, <1>3, UsedIs DEF Used, Recent
<1>5. UpTo(spent, MaxTime) = UpTo(spent, now)
  <2>1. \A t \in Times : now < t /\ t <= MaxTime => spent[t] = 0
    BY <1>1 DEF Ahead, Times
  <2> QED
    BY <1>1, <2>1, Bounds, UpToNone
<1>6. Airtime(spent, Recent) = UpTo(spent, now) - UpTo(spent, now - Recent - 1)
  BY <1>1, Bounds, AirtimeIs
<1>7. Airtime(spent, Count * Width - 1) = UpTo(spent, now) - UpTo(spent, now - (Count * Width - 1) - 1)
  <2>1. Count * Width - 1 \in Nat
    BY Bounds
  <2> QED
    BY <1>1, <2>1, AirtimeIs
<1>8. /\ s - Recent - 1 \in Int /\ now - Recent - 1 \in Int /\ now - (Count * Width - 1) - 1 \in Int
      /\ now - (Count * Width - 1) - 1 <= s - Recent - 1 /\ s - Recent - 1 <= now - Recent - 1
  BY <1>1, <1>2, <1>3, Bounds
<1>9. ASSUME NEW x \in Int, NEW y \in Int, x <= y PROVE UpTo(spent, x) <= UpTo(spent, y)
  <2>1. 0 <= UpTo(spent, y) - UpTo(spent, x)
    <3>1. \A t \in Times : spent[t] <= spent[t]
      BY <1>1
    <3> QED
      BY <1>1, <1>9, <3>1, UpToGrows
  <2>2. UpTo(spent, x) \in Nat /\ UpTo(spent, y) \in Nat
    BY <1>1, UpToType
  <2> QED
    BY <2>1, <2>2
<1>10. /\ UpTo(spent, now - (Count * Width - 1) - 1) <= UpTo(spent, s - Recent - 1)
       /\ UpTo(spent, s - Recent - 1) <= UpTo(spent, now - Recent - 1)
  BY <1>8, <1>9
<1>11. /\ UpTo(spent, now - (Count * Width - 1) - 1) \in Nat /\ UpTo(spent, s - Recent - 1) \in Nat
       /\ UpTo(spent, now - Recent - 1) \in Nat /\ UpTo(spent, now) \in Nat
  BY <1>1, <1>8, UpToType
<1> QED
  BY <1>4, <1>5, <1>6, <1>7, <1>10, <1>11

LEMMA OwnBelow ==
  ASSUME now \in Times, spent \in [Times -> Nat], own \in [Times -> Nat],
         \A t \in Times : own[t] <= spent[t]
  PROVE  Airtime(own, Recent) <= Airtime(spent, Recent) /\ Airtime(own, Recent) \in Nat
         /\ Airtime(spent, Recent) \in Nat
<1>1. now \in Int /\ now - Recent - 1 \in Int /\ now - Recent - 1 <= now
  BY Bounds DEF Times
<1>2. /\ Airtime(own, Recent) = UpTo(own, now) - UpTo(own, now - Recent - 1)
      /\ Airtime(spent, Recent) = UpTo(spent, now) - UpTo(spent, now - Recent - 1)
  BY Bounds, AirtimeIs
<1>3. /\ 0 <= UpTo(own, now) - UpTo(own, now - Recent - 1)
      /\ UpTo(own, now) - UpTo(own, now - Recent - 1) <= UpTo(spent, now) - UpTo(spent, now - Recent - 1)
  BY <1>1, UpToGrows
<1>4. /\ UpTo(own, now) \in Nat /\ UpTo(own, now - Recent - 1) \in Nat
      /\ UpTo(spent, now) \in Nat /\ UpTo(spent, now - Recent - 1) \in Nat
  BY <1>1, UpToType
<1> QED
  BY <1>2, <1>3, <1>4

LEMMA DutyMeans == DutyInv => DutySound
<1> SUFFICES ASSUME DutyInv PROVE DutySound
  OBVIOUS
<1>1. Used >= Airtime(spent, Recent) /\ Used <= Airtime(spent, Count * Width - 1)
  BY UsedBetween DEF DutyInv
<1>2. RecentCounted /\ NothingStale
  BY <1>1 DEF RecentCounted, NothingStale, Recent
<1>3. Airtime(own, Recent) \in Nat
  BY OwnBelow DEF DutyInv, DutyTypeOK
<1>4. Airtime(own, Recent) + Cardinality(Through) * Longest <= Ceiling - 1 + Cardinality(Limited) * Longest
  BY DEF DutyInv
<1>5. Airtime(own, Recent) <= Ceiling - 1 + Cardinality(Limited) * Longest
  <2>1. Cardinality(Through) * Longest \in Nat /\ Cardinality(Limited) * Longest \in Nat
    BY Cards, Bounds
  <2> QED
    BY <1>3, <1>4, <2>1, Bounds
<1>6. CeilingKept
  BY <1>5 DEF CeilingKept, Recent
<1>7. DutyTypeOK
  BY DEF DutyInv
<1> QED
  BY <1>2, <1>6, <1>7 DEF DutySound, WindowSound

LEMMA DutyStart == DutyInit => DutyInv
<1> SUFFICES ASSUME DutyInit PROVE DutyInv
  OBVIOUS
<1>1. /\ now = 1 /\ bucket = [b \in Buckets |-> 0] /\ index = 0 /\ base = 0
      /\ cleared = [t \in Callers |-> 0] /\ spent = [t \in Times |-> 0] /\ own = [t \in Times |-> 0]
  BY DEF DutyInit
<1>2. DutyTypeOK
  <2>1. now \in Times /\ base \in 0 .. now /\ index \in Buckets
    BY <1>1, Bounds DEF Times, Buckets
  <2>2. bucket \in [Buckets -> Nat] /\ cleared \in [Callers -> Nat] /\ spent \in [Times -> Nat] /\ own \in [Times -> Nat]
    BY <1>1
  <2> QED
    BY <2>1, <2>2 DEF DutyTypeOK
<1>3. Opened /\ Ahead /\ (\A t \in Times : own[t] <= spent[t]) /\ \A t \in Callers : cleared[t] <= Longest
  BY <1>1, Bounds DEF Opened, Ahead
<1>4. ASSUME NEW x \in Int, NEW y \in Int, x <= y
      PROVE  UpTo(spent, x) = UpTo(spent, y) /\ UpTo(own, x) = UpTo(own, y) /\ UpTo(spent, y) \in Nat /\ UpTo(own, y) \in Nat
  <2>1. \A t \in Times : spent[t] = 0 /\ own[t] = 0
    BY <1>1
  <2>2. spent \in [Times -> Nat] /\ own \in [Times -> Nat]
    BY <1>2 DEF DutyTypeOK
  <2> QED
    BY <1>4, <2>1, <2>2, UpToNone, UpToType
<1>5. Tells(bucket, index, base, spent)
  <2>1. ASSUME NEW b \in Buckets
        PROVE  bucket[b] = UpTo(spent, Since(b, index, base) + Width - 1) - UpTo(spent, Since(b, index, base) - 1)
    <3>1. Ago(b, index) \in Int
      BY <1>1, Bounds DEF Ago, Buckets
    <3>2. Since(b, index, base) \in Int
      BY <1>1, <3>1, Product DEF Since
    <3>3. PICK x \in Int : x = Since(b, index, base)
      BY <3>2
    <3>4. x + Width - 1 \in Int /\ x - 1 \in Int /\ x - 1 <= x + Width - 1
      BY Bounds
    <3>5. UpTo(spent, x + Width - 1) - UpTo(spent, x - 1) = 0
      BY <1>4, <3>4
    <3> QED
      BY <1>1, <3>3, <3>5
  <2>2. UpTo(spent, base + Width - 1) = UpTo(spent, MaxTime)
    <3>1. base + Width - 1 \in Int /\ (base + Width - 1 <= MaxTime \/ MaxTime <= base + Width - 1)
      BY <1>1, Bounds
    <3> QED
      BY <1>4, <3>1, Bounds
  <2> QED
    BY <2>1, <2>2 DEF Tells
<1>6. Airtime(own, Recent) = 0
  <2>1. now \in Times /\ own \in [Times -> Nat] /\ now \in Int /\ now - Recent - 1 \in Int /\ now - Recent - 1 <= now
    BY <1>1, <1>2, Bounds DEF DutyTypeOK
  <2>2. Airtime(own, Recent) = UpTo(own, now) - UpTo(own, now - Recent - 1)
    BY <2>1, Bounds, AirtimeIs
  <2>3. UpTo(own, now - Recent - 1) = UpTo(own, now) /\ UpTo(own, now) \in Nat
    BY <1>4, <2>1
  <2> QED
    BY <2>2, <2>3
<1>7. Cardinality(Through) = 0
  <2>1. Through = {}
    BY <1>1 DEF Through, Callers
  <2> QED
    BY <2>1, FS_EmptySet
<1>8. Airtime(own, Recent) + Cardinality(Through) * Longest <= Ceiling - 1 + Cardinality(Limited) * Longest
  <2>1. Cardinality(Limited) * Longest \in Nat /\ 0 * Longest = 0
    BY Cards, Bounds
  <2> QED
    BY <1>6, <1>7, <2>1, Bounds
<1> QED
  BY <1>2, <1>3, <1>5, <1>8 DEF DutyInv

\* Less or no more is let through and charged than before.
LEMMA StillBelow ==
  ASSUME DutyInv, NEW a \in Nat, NEW n \in Nat, a <= Airtime(own, Recent), n <= Cardinality(Through)
  PROVE  a + n * Longest <= Ceiling - 1 + Cardinality(Limited) * Longest
<1>1. Airtime(own, Recent) \in Nat
  BY OwnBelow DEF DutyInv, DutyTypeOK
<1>2. Airtime(own, Recent) + Cardinality(Through) * Longest <= Ceiling - 1 + Cardinality(Limited) * Longest
  BY DEF DutyInv
<1>3. n * Longest <= Cardinality(Through) * Longest
  <2>1. PICK d \in Nat : Cardinality(Through) = n + d
    BY Cards
  <2>2. Cardinality(Through) * Longest = n * Longest + d * Longest /\ d * Longest \in Nat /\ n * Longest \in Nat
    BY <2>1, Bounds
  <2> QED
    BY <2>2
<1>4. n * Longest \in Nat /\ Cardinality(Through) * Longest \in Nat /\ Cardinality(Limited) * Longest \in Nat
  BY Cards, Bounds
<1> QED
  BY <1>1, <1>2, <1>3, <1>4, Bounds

LEMMA DutyTick == ASSUME DutyInv, Tick PROVE DutyInv'
<1>1. /\ now < MaxTime /\ now' = now + 1 /\ bucket' = bucket /\ index' = index /\ base' = base
      /\ cleared' = cleared /\ spent' = spent /\ own' = own
  BY DEF Tick, books
<1>2. /\ now \in Times /\ now \in Nat /\ base \in 0 .. now /\ spent \in [Times -> Nat] /\ own \in [Times -> Nat]
      /\ Recent \in Nat
  BY Bounds DEF DutyInv, DutyTypeOK, Times
<1>3. now' \in Times /\ base' \in 0 .. now'
  BY <1>1, <1>2, Bounds DEF Times
<1>4. DutyTypeOK'
  BY <1>1, <1>3 DEF DutyInv, DutyTypeOK
<1>5. Opened' /\ Tells(bucket, index, base, spent)'
  BY <1>1 DEF DutyInv, Opened, Tells
<1>6. Ahead'
  <2>1. \A t \in Times : t > now + 1 => t > now
    BY <1>2 DEF Times
  <2> QED
    BY <1>1, <2>1 DEF DutyInv, Ahead
<1>7. (\A t \in Times : own[t] <= spent[t])' /\ (\A t \in Callers : cleared[t] <= Longest)'
  BY <1>1 DEF DutyInv
<1>8. Airtime(own, Recent)' = UpTo(own, now + 1) - UpTo(own, now + 1 - Recent - 1)
  BY <1>1, <1>2, <1>3, AirtimeNext
<1>9. UpTo(own, now + 1) = UpTo(own, now)
  <2>1. \A t \in Times : now < t /\ t <= now + 1 => own[t] = 0
    <3>1. \A t \in Times : now < t => spent[t] = 0 /\ own[t] <= spent[t] /\ own[t] \in Nat
      BY <1>2 DEF DutyInv, Ahead, Times
    <3> QED
      BY <3>1
  <2>2. now \in Int /\ now + 1 \in Int /\ now <= now + 1
    BY <1>2
  <2> QED
    BY <1>2, <2>1, <2>2, UpToNone
<1>10. /\ UpTo(own, now) \in Nat /\ UpTo(own, now + 1 - Recent - 1) \in Nat /\ UpTo(own, now - Recent - 1) \in Nat
       /\ 0 <= UpTo(own, now + 1 - Recent - 1) - UpTo(own, now - Recent - 1)
       /\ 0 <= UpTo(own, now) - UpTo(own, now + 1 - Recent - 1)
  <2>1. /\ now \in Int /\ now + 1 - Recent - 1 \in Int /\ now - Recent - 1 \in Int
        /\ now - Recent - 1 <= now + 1 - Recent - 1 /\ now + 1 - Recent - 1 <= now
    BY <1>2
  <2>2. \A t \in Times : own[t] <= own[t]
    BY <1>2
  <2> QED
    BY <1>2, <2>1, <2>2, UpToType, UpToGrows
<1>11. Airtime(own, Recent) = UpTo(own, now) - UpTo(own, now - Recent - 1)
  BY <1>2, AirtimeIs
<1>12. Airtime(own, Recent)' \in Nat /\ Airtime(own, Recent)' <= Airtime(own, Recent)
  BY <1>8, <1>9, <1>10, <1>11
<1>13. Through' = Through
  BY <1>1 DEF Through
<1>14. (Airtime(own, Recent) + Cardinality(Through) * Longest <= Ceiling - 1 + Cardinality(Limited) * Longest)'
  <2>1. Airtime(own, Recent)' + Cardinality(Through) * Longest <= Ceiling - 1 + Cardinality(Limited) * Longest
    BY <1>12, Cards, StillBelow
  <2> QED
    BY <1>13, <2>1
<1> QED
  BY <1>4, <1>5, <1>6, <1>7, <1>14 DEF DutyInv

\* What has been charged stays, and so does its airtime.
LEMMA AirtimeStays ==
  ASSUME DutyInv, now' = now, own' = own
  PROVE  Airtime(own, Recent)' = Airtime(own, Recent) /\ Airtime(own, Recent) \in Nat
<1>1. now \in Times /\ own \in [Times -> Nat] /\ Recent \in Nat
  BY Bounds DEF DutyInv, DutyTypeOK
<1>2. Airtime(own, Recent)' = UpTo(own, now) - UpTo(own, now - Recent - 1)
  BY <1>1, AirtimeNext
<1>3. Airtime(own, Recent) = UpTo(own, now) - UpTo(own, now - Recent - 1)
  BY <1>1, AirtimeIs
<1>4. Airtime(own, Recent) \in Nat
  BY OwnBelow DEF DutyInv, DutyTypeOK
<1> QED
  BY <1>2, <1>3, <1>4

LEMMA DutyAsk == ASSUME DutyInv, NEW t \in Callers, Ask(t) PROVE DutyInv'
<1>1. /\ now' = now /\ spent' = spent /\ own' = own
  BY DEF Ask, books
<1>2. PICK ms \in Airtimes :
        IF t \in Relays
          THEN cleared' = [cleared EXCEPT ![t] = ms] /\ UNCHANGED <<bucket, index, base>>
          ELSE /\ cleared' = IF UnderCeiling THEN [cleared EXCEPT ![t] = ms] ELSE cleared
               /\ bucket' = Slid.bucket /\ index' = Slid.index /\ base' = Slid.base
  BY DEF Ask
<1>3. ms \in Nat /\ ms <= Longest
  BY AirtimeAssumption
<1>4. /\ now \in Times /\ now \in Nat /\ spent \in [Times -> Nat] /\ own \in [Times -> Nat]
      /\ cleared \in [Callers -> Nat] /\ \A u \in Callers : cleared[u] <= Longest
      /\ DutyTypeOK /\ Opened /\ Ahead /\ Tells(bucket, index, base, spent)
  BY DEF DutyInv, DutyTypeOK, Times
<1>5. /\ cleared' \in [Callers -> Nat] /\ \A u \in Callers : cleared'[u] <= Longest
  BY <1>2, <1>3, <1>4
<1>6. /\ Slid.bucket \in [Buckets -> Nat] /\ Slid.index \in Buckets /\ Slid.base \in 1 .. now
      /\ Tells(Slid.bucket, Slid.index, Slid.base, spent)
  BY <1>4, SlidTells
<1>7. DutyTypeOK' /\ Opened' /\ Tells(bucket, index, base, spent)'
  <2>1. CASE t \in Relays
    <3>1. bucket' = bucket /\ index' = index /\ base' = base
      BY <1>2, <2>1
    <3> QED
      BY <1>1, <1>4, <1>5, <3>1 DEF DutyTypeOK, Opened, Tells
  <2>2. CASE t \notin Relays
    <3>1. bucket' = Slid.bucket /\ index' = Slid.index /\ base' = Slid.base
      BY <1>2, <2>2
    <3>2. base' \in 0 .. now' /\ base' # 0
      BY <1>1, <1>4, <1>6, <3>1
    <3>3. DutyTypeOK'
      BY <1>1, <1>4, <1>5, <1>6, <3>1, <3>2 DEF DutyTypeOK
    <3>4. Opened'
      BY <3>2 DEF Opened
    <3>5. Tells(bucket', index', base', spent')
      BY <1>1, <1>6, <3>1
    <3> QED
      BY <3>3, <3>4, <3>5 DEF Tells
  <2> QED
    BY <2>1, <2>2
<1>8. Ahead' /\ (\A u \in Times : own[u] <= spent[u])' /\ (\A u \in Callers : cleared[u] <= Longest)'
  BY <1>1, <1>5 DEF DutyInv, Ahead
<1>9. Airtime(own, Recent)' = Airtime(own, Recent) /\ Airtime(own, Recent) \in Nat
  BY <1>1, AirtimeStays
<1>10. Airtime(own, Recent) + Cardinality(Through') * Longest <= Ceiling - 1 + Cardinality(Limited) * Longest
  <2>1. CASE t \notin Relays /\ UnderCeiling
    <3>1. Airtime(own, Recent) <= Airtime(spent, Recent) /\ Airtime(spent, Recent) \in Nat
      BY OwnBelow DEF DutyInv, DutyTypeOK
    <3>2. Airtime(own, Recent) <= Ceiling - 1
      <4>1. Used >= Airtime(spent, Recent) /\ Used \in Int /\ Used < Ceiling
        BY <1>4, <2>1, UsedBetween DEF UnderCeiling
      <4> QED
        BY <1>9, <3>1, <4>1, Bounds
    <3>3. Cardinality(Through') * Longest <= Cardinality(Limited) * Longest
      <4>1. PICK m \in Nat : m = Cardinality(Limited)
        BY Cards
      <4>2. PICK n \in Nat : n = Cardinality(Through') /\ n <= m
        BY <4>1, CardsNext
      <4>3. PICK d \in Nat : m = n + d
        <5>1. m - n \in Nat /\ m = n + (m - n)
          BY <4>2
        <5> QED
          BY <5>1
      <4>4. m * Longest = n * Longest + d * Longest /\ d * Longest \in Nat /\ n * Longest \in Nat
        BY <4>3, Bounds
      <4> QED
        BY <4>1, <4>2, <4>4
    <3>4. Cardinality(Through') * Longest \in Nat /\ Cardinality(Limited) * Longest \in Nat
      BY Cards, CardsNext, Bounds
    <3> QED
      BY <1>9, <3>2, <3>3, <3>4, Bounds
  <2>2. CASE t \in Relays \/ ~UnderCeiling
    <3>1. Through' = Through
      <4>1. ASSUME NEW u \in Limited PROVE cleared'[u] = cleared[u]
        <5>1. u \notin Relays /\ u \in Callers
          BY LimitedAssumption DEF Callers
        <5> QED
          BY <1>2, <1>4, <2>2, <5>1
      <4> QED
        BY <4>1 DEF Through
    <3> QED
      BY <3>1 DEF DutyInv
  <2> QED
    BY <2>1, <2>2
<1>11. (Airtime(own, Recent) + Cardinality(Through) * Longest <= Ceiling - 1 + Cardinality(Limited) * Longest)'
  BY <1>9, <1>10
<1> QED
  BY <1>7, <1>8, <1>11 DEF DutyInv

LEMMA DutyRefused == ASSUME DutyInv, NEW t \in Callers, Refused(t) PROVE DutyInv'
<1>1. /\ now' = now /\ spent' = spent /\ own' = own /\ bucket' = bucket /\ index' = index /\ base' = base
      /\ cleared' = [cleared EXCEPT ![t] = 0]
  BY DEF Refused, books
<1>2. /\ cleared \in [Callers -> Nat] /\ \A u \in Callers : cleared[u] <= Longest
  BY DEF DutyInv, DutyTypeOK
<1>3. cleared' \in [Callers -> Nat] /\ \A u \in Callers : cleared'[u] <= Longest
  BY <1>1, <1>2, Bounds
<1>4. DutyTypeOK' /\ Opened' /\ Ahead' /\ Tells(bucket, index, base, spent)'
  BY <1>1, <1>3 DEF DutyInv, DutyTypeOK, Opened, Ahead, Tells
<1>5. (\A u \in Times : own[u] <= spent[u])' /\ (\A u \in Callers : cleared[u] <= Longest)'
  BY <1>1, <1>3 DEF DutyInv
<1>6. Airtime(own, Recent)' = Airtime(own, Recent) /\ Airtime(own, Recent) \in Nat
  BY <1>1, AirtimeStays
<1>7. Cardinality(Through') \in Nat /\ Cardinality(Through') <= Cardinality(Through)
  <2>1. Through' \subseteq Through
    BY <1>1, <1>2 DEF Through, Callers
  <2> QED
    BY <2>1, Cards, CardsNext, FS_Subset
<1>8. Airtime(own, Recent) + Cardinality(Through') * Longest <= Ceiling - 1 + Cardinality(Limited) * Longest
  <2>1. Airtime(own, Recent) <= Airtime(own, Recent)
    BY <1>6
  <2> QED
    BY <1>6, <1>7, <2>1, StillBelow
<1>9. (Airtime(own, Recent) + Cardinality(Through) * Longest <= Ceiling - 1 + Cardinality(Limited) * Longest)'
  BY <1>6, <1>8
<1> QED
  BY <1>4, <1>5, <1>9 DEF DutyInv

LEMMA DutyCharge == ASSUME DutyInv, NEW t \in Callers, Charge(t) PROVE DutyInv'
<1> DEFINE ms == cleared[t]
<1>1. /\ now' = now /\ bucket' = [Slid.bucket EXCEPT ![Slid.index] = @ + ms] /\ index' = Slid.index
      /\ base' = Slid.base /\ spent' = [spent EXCEPT ![now] = @ + ms]
      /\ own' = IF t \in Limited THEN [own EXCEPT ![now] = @ + ms] ELSE own
      /\ cleared' = [cleared EXCEPT ![t] = 0] /\ ms # 0
  BY DEF Charge
<1>2. /\ now \in Times /\ now \in Nat /\ now \in Int /\ now <= MaxTime
      /\ spent \in [Times -> Nat] /\ own \in [Times -> Nat]
      /\ cleared \in [Callers -> Nat] /\ (\A u \in Callers : cleared[u] <= Longest)
      /\ DutyTypeOK /\ Opened /\ Ahead /\ Tells(bucket, index, base, spent)
      /\ \A u \in Times : own[u] <= spent[u]
  BY Bounds DEF DutyInv, DutyTypeOK, Times
<1>3. ms \in Nat /\ ms <= Longest
  BY <1>2
<1>4. PICK wheel \in [Buckets -> Nat], i \in Buckets, s \in 1 .. now :
        /\ wheel = Slid.bucket /\ i = Slid.index /\ s = Slid.base
        /\ now < s + Width /\ Tells(wheel, i, s, spent)
  BY <1>2, SlidTells
<1>5. s \in Int /\ s <= now /\ s \in Nat /\ s # 0
  BY <1>2
<1>6. cleared' \in [Callers -> Nat] /\ \A u \in Callers : cleared'[u] <= Longest
  BY <1>1, <1>2, Bounds
<1> HIDE DEF ms
<1>7. /\ spent' \in [Times -> Nat]
      /\ \A x \in Int : UpTo(spent', x) = UpTo(spent, x) + (IF x >= now THEN ms ELSE 0)
  <2>1. spent' = AndCharged(spent, now, ms) /\ 0 \in Int
    BY <1>1 DEF AndCharged
  <2> QED
    BY <1>2, <1>3, <2>1, UpToCharged
<1>8. /\ bucket' = [wheel EXCEPT ![i] = @ + ms] /\ index' = i /\ base' = s
  BY <1>1, <1>4
<1>9. bucket' \in [Buckets -> Nat]
  BY <1>3, <1>8
<1>10. own' \in [Times -> Nat] /\ \A u \in Times : own'[u] <= spent'[u]
  BY <1>1, <1>2, <1>3
<1>11. DutyTypeOK' /\ Opened'
  <2>1. base' \in 0 .. now' /\ base' # 0 /\ now' \in Times /\ index' \in Buckets
    BY <1>1, <1>2, <1>4, <1>5, <1>8
  <2> QED
    BY <1>6, <1>7, <1>9, <1>10, <2>1 DEF DutyTypeOK, Opened
<1>12. Ahead'
  <2>1. \A u \in Times : u > now => spent'[u] = spent[u]
    BY <1>1, <1>2
  <2> QED
    BY <1>1, <1>2, <2>1 DEF Ahead
<1>13. Tells(bucket', index', base', spent')
  <2>1. ASSUME NEW b \in Buckets
        PROVE  bucket'[b] = UpTo(spent', Since(b, i, s) + Width - 1) - UpTo(spent', Since(b, i, s) - 1)
    <3>1. wheel[b] = UpTo(spent, Since(b, i, s) + Width - 1) - UpTo(spent, Since(b, i, s) - 1)
      BY <1>4 DEF Tells
    <3> DEFINE a == Ago(b, i)
    <3>2. a \in Nat /\ (b # i => a >= 1) /\ (b = i => a = 0)
      BY Bounds DEF Ago, Buckets
    <3>3. Since(b, i, s) = s - a * Width
      BY DEF Since
    <3> HIDE DEF a
    <3>4. a * Width \in Int /\ (b # i => a * Width >= Width) /\ (b = i => a * Width = 0)
      <4>1. a \in Int /\ 1 \in Int
        BY <3>2
      <4>2. a * Width \in Int /\ 0 * Width = 0 /\ 1 * Width = Width /\ (1 <= a => 1 * Width <= a * Width)
        BY <4>1, Product
      <4> QED
        BY <3>2, <4>2
    <3>5. PICK x \in Int : x = Since(b, i, s) /\ x = s - a * Width
      BY <1>5, <3>3, <3>4
    <3>6. x + Width - 1 \in Int /\ x - 1 \in Int
      BY Bounds
    <3>7. UpTo(spent, x + Width - 1) \in Nat /\ UpTo(spent, x - 1) \in Nat /\ wheel[b] \in Nat
      BY <1>2, <3>6, UpToType
    <3>8. CASE b = i
      <4>1. x + Width - 1 >= now /\ ~(x - 1 >= now)
        BY <1>2, <1>4, <1>5, <3>4, <3>5, <3>8, Bounds
      <4>2. UpTo(spent', x + Width - 1) = UpTo(spent, x + Width - 1) + ms /\ UpTo(spent', x - 1) = UpTo(spent, x - 1) + 0
        BY <1>7, <3>6, <4>1
      <4>3. bucket'[b] = wheel[b] + ms
        BY <1>8, <3>8
      <4>4. wheel[b] = UpTo(spent, x + Width - 1) - UpTo(spent, x - 1)
        BY <3>1, <3>5, Zenon
      <4>5. bucket'[b] = UpTo(spent', x + Width - 1) - UpTo(spent', x - 1)
        BY <1>3, <3>7, <4>2, <4>3, <4>4
      <4> QED
        BY <3>5, <4>5, Zenon
    <3>9. CASE b # i
      <4>1. ~(x + Width - 1 >= now) /\ ~(x - 1 >= now)
        BY <1>2, <1>4, <1>5, <3>4, <3>5, <3>9, Bounds
      <4>2. UpTo(spent', x + Width - 1) = UpTo(spent, x + Width - 1) + 0 /\ UpTo(spent', x - 1) = UpTo(spent, x - 1) + 0
        BY <1>7, <3>6, <4>1
      <4>3. bucket'[b] = wheel[b]
        BY <1>8, <3>9
      <4>4. wheel[b] = UpTo(spent, x + Width - 1) - UpTo(spent, x - 1)
        BY <3>1, <3>5, Zenon
      <4>5. bucket'[b] = UpTo(spent', x + Width - 1) - UpTo(spent', x - 1)
        BY <3>7, <4>2, <4>3, <4>4
      <4> QED
        BY <3>5, <4>5, Zenon
    <3> QED
      BY <3>8, <3>9
  <2>2. UpTo(spent', s + Width - 1) = UpTo(spent', MaxTime)
    <3>1. s + Width - 1 \in Int /\ s + Width - 1 >= now /\ MaxTime >= now /\ MaxTime \in Int
      BY <1>2, <1>4, <1>5, Bounds
    <3>2. UpTo(spent', s + Width - 1) = UpTo(spent, s + Width - 1) + ms /\ UpTo(spent', MaxTime) = UpTo(spent, MaxTime) + ms
      BY <1>7, <3>1
    <3>3. UpTo(spent, s + Width - 1) = UpTo(spent, MaxTime)
      BY <1>4 DEF Tells
    <3> QED
      BY <3>2, <3>3
  <2>3. Tells(bucket', i, s, spent')
    BY <2>1, <2>2 DEF Tells
  <2> QED
    BY <1>8, <2>3
<1>14. (\A u \in Times : own[u] <= spent[u])' /\ (\A u \in Callers : cleared[u] <= Longest)'
  BY <1>6, <1>10
<1>15. Airtime(own, Recent)' + Cardinality(Through') * Longest <= Ceiling - 1 + Cardinality(Limited) * Longest
  <2>1. CASE t \notin Limited
    <3>1. own' = own
      BY <1>1, <2>1
    <3>2. Through' = Through
      BY <1>1, <1>2, <2>1 DEF Through, Callers
    <3>3. Airtime(own, Recent)' = Airtime(own, Recent)
      BY <1>1, <3>1, AirtimeStays
    <3> QED
      BY <3>2, <3>3 DEF DutyInv
  <2>2. CASE t \in Limited
    <3>1. own' = [own EXCEPT ![now] = @ + ms]
      BY <1>1, <2>2
    <3>2. now - Recent - 1 \in Int /\ now >= now /\ ~(now - Recent - 1 >= now) /\ Recent \in Nat
      BY <1>2, Bounds
    <3>3. UpTo(own', now) = UpTo(own, now) + ms /\ UpTo(own', now - Recent - 1) = UpTo(own, now - Recent - 1) + 0
      <4>1. ASSUME NEW x \in Int PROVE UpTo(own', x) = UpTo(own, x) + (IF x >= now THEN ms ELSE 0)
        <5>1. own' = AndCharged(own, now, ms)
          BY <3>1 DEF AndCharged
        <5> QED
          BY <1>2, <1>3, <5>1, UpToCharged
      <4> QED
        BY <1>2, <3>2, <4>1
    <3>4. Airtime(own, Recent)' = UpTo(own', now) - UpTo(own', now - Recent - 1)
      <4>1. PICK h \in [Times -> Nat] : h = own'
        BY <1>10
      <4>2. Airtime(own, Recent)' = UpTo(h, now') - UpTo(h, now' - Recent - 1)
        BY <1>1, <1>2, <4>1, AirtimeNext
      <4> QED
        BY <1>1, <4>1, <4>2
    <3>5. Airtime(own, Recent) = UpTo(own, now) - UpTo(own, now - Recent - 1)
      BY <1>2, <3>2, AirtimeIs
    <3>6. UpTo(own, now) \in Nat /\ UpTo(own, now - Recent - 1) \in Nat /\ Airtime(own, Recent) \in Nat
      BY <1>2, <3>2, UpToType, OwnBelow
    <3>7. Airtime(own, Recent)' = Airtime(own, Recent) + ms
      BY <1>3, <3>3, <3>4, <3>5, <3>6
    <3>8. PICK n \in Nat : Cardinality(Through) = n + 1 /\ Cardinality(Through') = n
      <4>1. t \in Through
        BY <1>1, <2>2 DEF Through, ms
      <4>2. Through' = Through \ {t}
        BY <1>1, <1>2 DEF Through, Callers
      <4>3. Cardinality(Through') = Cardinality(Through) - 1
        BY <4>1, <4>2, Cards, FS_RemoveElement
      <4> QED
        BY <4>3, Cards, CardsNext
    <3>9. (n + 1) * Longest = n * Longest + Longest /\ n * Longest \in Nat /\ Cardinality(Limited) * Longest \in Nat
      BY Cards, Bounds
    <3>10. Airtime(own, Recent) + (n + 1) * Longest <= Ceiling - 1 + Cardinality(Limited) * Longest
      BY <3>8 DEF DutyInv
    <3>11. (Airtime(own, Recent) + ms) + n * Longest <= Ceiling - 1 + Cardinality(Limited) * Longest
      BY <1>3, <3>6, <3>9, <3>10, Bounds
    <3> QED
      BY <3>7, <3>8, <3>11
  <2> QED
    BY <2>1, <2>2
<1> QED
  BY <1>11, <1>12, <1>13, <1>14, <1>15 DEF DutyInv, Tells

LEMMA DutyStep == DutyInv /\ [DutyNext]_dutyVars => DutyInv'
<1> SUFFICES ASSUME DutyInv, [DutyNext]_dutyVars PROVE DutyInv'
  OBVIOUS
<1>1. CASE Tick
  BY <1>1, DutyTick
<1>2. ASSUME NEW t \in Callers, Ask(t) \/ Refused(t) \/ Charge(t) PROVE DutyInv'
  BY <1>2, DutyAsk, DutyRefused, DutyCharge
<1>3. CASE UNCHANGED dutyVars
  <2>1. /\ now' = now /\ spent' = spent /\ own' = own /\ bucket' = bucket /\ index' = index /\ base' = base
        /\ cleared' = cleared
    BY <1>3 DEF dutyVars, books
  <2>2. Airtime(own, Recent)' = Airtime(own, Recent) /\ Through' = Through
    BY <2>1, AirtimeStays DEF Through
  <2> QED
    BY <2>1, <2>2 DEF DutyInv, DutyTypeOK, Opened, Ahead, Tells
<1> QED
  BY <1>1, <1>2, <1>3 DEF DutyNext

\* The duty cycle is the airtime of the last window, to within a bucket,
\* whatever gaps the calls leave, and the tasks that look at the ceiling
\* together overshoot it by a frame each at most (aprs_service.c:462-528,
\* 602-717), for any tasks, airtimes, ceiling, buckets and clock.
THEOREM DutyKept == DutySpec => []DutySound
<1> QED
  BY DutyStart, DutyStep, DutyMeans, PTL DEF DutySpec
=============================================================================
