-------------------------- MODULE Sending_proofs --------------------------
(***************************************************************************)
(* The ways out of the station: the transmitter, and the line to APRS-IS   *)
(* with the gate that decides what goes on it.                             *)
(*                                                                         *)
(* RfGate, for every number of sending tasks, every limit and every number *)
(* of loop tests: while a test has the transmitter nothing but its own     *)
(* frame is on the ring, that frame is gone before PTT is released, and    *)
(* the backlog exceeds its limit by no more than one frame for each other  *)
(* task.  What makes it inductive is where a task may be with respect to   *)
(* the gate (GateInv), what a task past the owner test knows (OwnerInv),   *)
(* and what each stretch of the test implies of the ring and the modes     *)
(* (RingInv, ModeInv).  The overshoot counts the frames in flight with the *)
(* ring.                                                                   *)
(*                                                                         *)
(* IsWire, for every line length, letters and frames: the line ends on the *)
(* socket number the frames reported sent, each in front of its own        *)
(* (Agrees).                                                               *)
(*                                                                         *)
(* UplinkGate, for every frame, path, filter and switch: what the          *)
(* digipeater makes of a frame reads the same to every filter (Rewritten,  *)
(* KeptThrough), so that the log's verdict, given before it, and the       *)
(* gate's, given after it, agree (HandInv).                                *)
(***************************************************************************)
EXTENDS RfGate, IsWire, UplinkGate, HeardList_proofs, FiniteSetTheorems, WellFoundedInduction, TLAPS

Inside(t) == pc[t] \in {"owner", "send"}

\* The gate is a mutual exclusion.
GateInv == \A t \in Tasks : Inside(t) <=> gate = t

\* Past the owner test nobody but the owner holds a frame.
OwnerInv ==
  /\ owner = Tester <=> test # "idle"
  /\ \A t \in Tasks : pc[t] = "send" => owner \in {"none", t}
  /\ pc[Tester] # "idle" => test = "sending"

\* What the ring holds in each stretch of the test.
RingInv ==
  /\ test \notin {"idle", "drain"} => OnlyFrom(Tester)
  /\ test # "wait" => NoneFrom(Tester)

ModeInv ==
  /\ inhibit <=> test \in {"duplex", "send", "sending", "wait", "lift"}
  /\ duplex <=> test \in {"send", "sending", "wait"}

\* The tasks that have found room and not handed over yet.
InFlight == {t \in Tasks : pc[t] \in {"gate", "owner", "send"}}
CountInv == Len(ring) + Cardinality(InFlight) <= Limit + Cardinality(Tasks) - 1

DataType ==
  /\ pc \in [Tasks -> {"idle", "drain", "gate", "owner", "send"}]
  /\ gate \in Tasks \cup {"none"} /\ owner \in {"none", Tester}
  /\ ring \in Seq(Tasks) /\ tx \in {"idle", "frame", "tail"} /\ (tx = "frame" => ring # <<>>)
  /\ test \in TestSteps /\ offers \in Nat /\ runs \in Nat

FlagType == inhibit \in BOOLEAN /\ duplex \in BOOLEAN

IInv == DataType /\ FlagType /\ GateInv /\ OwnerInv /\ RingInv /\ ModeInv

\* The web server is a task, and "none" names nobody.
LEMMA TesterIsTask == Tester \in Tasks /\ Tester # "none" /\ "none" \notin Tasks
  BY NamesAssumption DEF Tasks

-----------------------------------------------------------------------------
(* Types *)

\* Every step keeps the types of the tasks, the gate and the ring.
LEMMA NextData == DataType /\ [Next]_vars => DataType'
<1> SUFFICES ASSUME DataType, [Next]_vars PROVE DataType'
  OBVIOUS
<1> USE TesterIsTask
<1> USE DEF DataType, TestSteps, At, Step, Return, Rebuild, HasRoom, AfterGivingUp, vars
<1>1. ASSUME NEW t \in Tasks, CheckBacklog(t) PROVE DataType'
  BY <1>1 DEF CheckBacklog
<1>2. ASSUME NEW t \in Tasks, Drain(t) PROVE DataType'
  BY <1>2 DEF Drain
<1>3. ASSUME NEW t \in Tasks, EnterGate(t) PROVE DataType'
  BY <1>3 DEF EnterGate
<1>4. ASSUME NEW t \in Tasks, CheckOwner(t) PROVE DataType'
  BY <1>4 DEF CheckOwner
<1>5. ASSUME NEW t \in Tasks, Send(t) PROVE DataType'
  BY <1>5 DEF Send
<1>6. CASE KeyUp
  BY <1>6 DEF KeyUp
<1>7. CASE Retire
  BY <1>7 DEF Retire
<1>8. CASE KeyDown
  BY <1>8 DEF KeyDown
<1>9. CASE Save
  BY <1>9 DEF Save
<1>10. CASE TakeTransmitter
  BY <1>10 DEF TakeTransmitter
<1>11. CASE LetTrafficOut
  BY <1>11 DEF LetTrafficOut
<1>12. CASE GiveUp
  BY <1>12 DEF GiveUp
<1>13. CASE Inhibit
  BY <1>13 DEF Inhibit
<1>14. CASE GoDuplex
  BY <1>14 DEF GoDuplex
<1>15. CASE Restore
  BY <1>15 DEF Restore
<1>16. CASE LiftInhibit
  BY <1>16 DEF LiftInhibit
<1>17. CASE HandBack
  BY <1>17 DEF HandBack
<1>18. CASE UNCHANGED vars
  BY <1>18
<1> QED
  BY <1>1, <1>2, <1>3, <1>4, <1>5, <1>6, <1>7, <1>8, <1>9, <1>10, <1>11, <1>12, <1>13, <1>14, <1>15, <1>16, <1>17, <1>18 DEF Next, Offer, Modem, LoopTest

\* Every step keeps the flags Boolean.
LEMMA NextFlag == FlagType /\ [Next]_vars => FlagType'
<1> SUFFICES ASSUME FlagType, [Next]_vars PROVE FlagType'
  OBVIOUS
<1> USE DEF FlagType, vars
<1>1. ASSUME NEW t \in Tasks, CheckBacklog(t) PROVE FlagType'
  BY <1>1, Zenon DEF CheckBacklog, At, HasRoom
<1>2. ASSUME NEW t \in Tasks, Drain(t) PROVE FlagType'
  BY <1>2, Zenon DEF Drain, At, HasRoom
<1>3. ASSUME NEW t \in Tasks, EnterGate(t) PROVE FlagType'
  BY <1>3, Zenon DEF EnterGate, At
<1>4. ASSUME NEW t \in Tasks, CheckOwner(t) PROVE FlagType'
  BY <1>4, Zenon DEF CheckOwner, At, Return
<1>5. ASSUME NEW t \in Tasks, Send(t) PROVE FlagType'
  BY <1>5, Zenon DEF Send, At, Return
<1>6. CASE KeyUp
  BY <1>6, Zenon DEF KeyUp
<1>7. CASE Retire
  BY <1>7, Zenon DEF Retire
<1>8. CASE KeyDown
  BY <1>8, Zenon DEF KeyDown
<1>9. CASE Save
  BY <1>9, Zenon DEF Save, Rebuild
<1>10. CASE TakeTransmitter
  BY <1>10, Zenon DEF TakeTransmitter, Step, GateOpen
<1>11. CASE LetTrafficOut
  BY <1>11, Zenon DEF LetTrafficOut, Step, TransmitterIdle
<1>12. CASE GiveUp
  BY <1>12, Zenon DEF GiveUp, Step, AfterGivingUp
<1>13. CASE Inhibit
  BY <1>13, Zenon DEF Inhibit, Step
<1>14. CASE GoDuplex
  BY <1>14, Zenon DEF GoDuplex, Step, Rebuild
<1>15. CASE Restore
  BY <1>15, Zenon DEF Restore, Step, Rebuild
<1>16. CASE LiftInhibit
  BY <1>16, Zenon DEF LiftInhibit, Step
<1>17. CASE HandBack
  BY <1>17, Zenon DEF HandBack, Step
<1>18. CASE UNCHANGED vars
  BY <1>18
<1> QED
  BY <1>1, <1>2, <1>3, <1>4, <1>5, <1>6, <1>7, <1>8, <1>9, <1>10, <1>11, <1>12, <1>13, <1>14, <1>15, <1>16, <1>17, <1>18 DEF Next, Offer, Modem, LoopTest

-----------------------------------------------------------------------------
(* The gate and the owner *)

\* The gate names exactly the task inside.
LEMMA NextGate == DataType /\ GateInv /\ [Next]_vars => GateInv'
<1> SUFFICES ASSUME DataType, GateInv, [Next]_vars PROVE GateInv'
  OBVIOUS
<1> USE TesterIsTask
<1> USE DEF DataType, GateInv, Inside, vars
<1>1. ASSUME NEW t \in Tasks, CheckBacklog(t) PROVE GateInv'
  BY <1>1 DEF CheckBacklog, At, HasRoom
<1>2. ASSUME NEW t \in Tasks, Drain(t) PROVE GateInv'
  BY <1>2 DEF Drain, At, HasRoom
<1>3. ASSUME NEW t \in Tasks, EnterGate(t) PROVE GateInv'
  BY <1>3 DEF EnterGate, At
<1>4. ASSUME NEW t \in Tasks, CheckOwner(t) PROVE GateInv'
  BY <1>4 DEF CheckOwner, At, Return
<1>5. ASSUME NEW t \in Tasks, Send(t) PROVE GateInv'
  BY <1>5 DEF Send, At, Return
<1>6. CASE KeyUp
  BY <1>6 DEF KeyUp
<1>7. CASE Retire
  BY <1>7 DEF Retire
<1>8. CASE KeyDown
  BY <1>8 DEF KeyDown
<1>9. CASE Save
  BY <1>9 DEF Save, Rebuild
<1>10. CASE TakeTransmitter
  BY <1>10 DEF TakeTransmitter, Step, GateOpen
<1>11. CASE LetTrafficOut
  BY <1>11 DEF LetTrafficOut, Step, TransmitterIdle
<1>12. CASE GiveUp
  BY <1>12 DEF GiveUp, Step, AfterGivingUp
<1>13. CASE Inhibit
  BY <1>13 DEF Inhibit, Step
<1>14. CASE GoDuplex
  BY <1>14 DEF GoDuplex, Step, Rebuild
<1>15. CASE Restore
  BY <1>15 DEF Restore, Step, Rebuild
<1>16. CASE LiftInhibit
  BY <1>16 DEF LiftInhibit, Step
<1>17. CASE HandBack
  BY <1>17 DEF HandBack, Step
<1>18. CASE UNCHANGED vars
  BY <1>18
<1> QED
  BY <1>1, <1>2, <1>3, <1>4, <1>5, <1>6, <1>7, <1>8, <1>9, <1>10, <1>11, <1>12, <1>13, <1>14, <1>15, <1>16, <1>17, <1>18 DEF Next, Offer, Modem, LoopTest

\* The transmitter changes hands under the gate only.
LEMMA NextOwner == DataType /\ GateInv /\ OwnerInv /\ [Next]_vars => OwnerInv'
<1> SUFFICES ASSUME DataType, GateInv, OwnerInv, [Next]_vars PROVE OwnerInv'
  OBVIOUS
<1> USE TesterIsTask, NamesAssumption
<1> USE DEF DataType, GateInv, Inside, OwnerInv, vars
<1>1. ASSUME NEW t \in Tasks, CheckBacklog(t) PROVE OwnerInv'
  BY <1>1 DEF CheckBacklog, At, HasRoom
<1>2. ASSUME NEW t \in Tasks, Drain(t) PROVE OwnerInv'
  BY <1>2 DEF Drain, At, HasRoom
<1>3. ASSUME NEW t \in Tasks, EnterGate(t) PROVE OwnerInv'
  BY <1>3 DEF EnterGate, At
<1>4. ASSUME NEW t \in Tasks, CheckOwner(t) PROVE OwnerInv'
  BY <1>4 DEF CheckOwner, At, Return
<1>5. ASSUME NEW t \in Tasks, Send(t) PROVE OwnerInv'
  BY <1>5 DEF Send, At, Return
<1>6. CASE KeyUp
  BY <1>6 DEF KeyUp
<1>7. CASE Retire
  BY <1>7 DEF Retire
<1>8. CASE KeyDown
  BY <1>8 DEF KeyDown
<1>9. CASE Save
  BY <1>9 DEF Save, Rebuild
<1>10. CASE TakeTransmitter
  BY <1>10 DEF TakeTransmitter, Step, GateOpen
<1>11. CASE LetTrafficOut
  BY <1>11 DEF LetTrafficOut, Step, TransmitterIdle
<1>12. CASE GiveUp
  BY <1>12 DEF GiveUp, Step, AfterGivingUp
<1>13. CASE Inhibit
  BY <1>13 DEF Inhibit, Step
<1>14. CASE GoDuplex
  BY <1>14 DEF GoDuplex, Step, Rebuild
<1>15. CASE Restore
  BY <1>15 DEF Restore, Step, Rebuild
<1>16. CASE LiftInhibit
  BY <1>16 DEF LiftInhibit, Step
<1>17. CASE HandBack
  BY <1>17 DEF HandBack, Step
<1>18. CASE UNCHANGED vars
  BY <1>18
<1> QED
  BY <1>1, <1>2, <1>3, <1>4, <1>5, <1>6, <1>7, <1>8, <1>9, <1>10, <1>11, <1>12, <1>13, <1>14, <1>15, <1>16, <1>17, <1>18 DEF Next, Offer, Modem, LoopTest

-----------------------------------------------------------------------------
(* The ring and the modes *)

\* What a task puts on the ring is its own.
LEMMA NextRing == DataType /\ OwnerInv /\ RingInv /\ [Next]_vars => RingInv'
<1> SUFFICES ASSUME DataType, OwnerInv, RingInv, [Next]_vars PROVE RingInv'
  OBVIOUS
<1> USE TesterIsTask
<1> USE DEF DataType, OwnerInv, RingInv, OnlyFrom, NoneFrom, vars
<1>1. ASSUME NEW t \in Tasks, CheckBacklog(t) PROVE RingInv'
  BY <1>1 DEF CheckBacklog, At, HasRoom
<1>2. ASSUME NEW t \in Tasks, Drain(t) PROVE RingInv'
  BY <1>2 DEF Drain, At, HasRoom
<1>3. ASSUME NEW t \in Tasks, EnterGate(t) PROVE RingInv'
  BY <1>3 DEF EnterGate, At
<1>4. ASSUME NEW t \in Tasks, CheckOwner(t) PROVE RingInv'
  BY <1>4 DEF CheckOwner, At, Return
<1>5. ASSUME NEW t \in Tasks, Send(t) PROVE RingInv'
  BY <1>5 DEF Send, At, Return
<1>6. CASE KeyUp
  BY <1>6 DEF KeyUp
<1>7. CASE Retire
  BY <1>7 DEF Retire
<1>8. CASE KeyDown
  BY <1>8 DEF KeyDown
<1>9. CASE Save
  BY <1>9 DEF Save, Rebuild
<1>10. CASE TakeTransmitter
  BY <1>10 DEF TakeTransmitter, Step, GateOpen
<1>11. CASE LetTrafficOut
  BY <1>11 DEF LetTrafficOut, Step, TransmitterIdle
<1>12. CASE GiveUp
  BY <1>12 DEF GiveUp, Step, AfterGivingUp
<1>13. CASE Inhibit
  BY <1>13 DEF Inhibit, Step
<1>14. CASE GoDuplex
  BY <1>14 DEF GoDuplex, Step, Rebuild
<1>15. CASE Restore
  BY <1>15 DEF Restore, Step, Rebuild
<1>16. CASE LiftInhibit
  BY <1>16 DEF LiftInhibit, Step
<1>17. CASE HandBack
  BY <1>17 DEF HandBack, Step
<1>18. CASE UNCHANGED vars
  BY <1>18
<1> QED
  BY <1>1, <1>2, <1>3, <1>4, <1>5, <1>6, <1>7, <1>8, <1>9, <1>10, <1>11, <1>12, <1>13, <1>14, <1>15, <1>16, <1>17, <1>18 DEF Next, Offer, Modem, LoopTest

\* Inhibit and full duplex are set only for the owner.
LEMMA NextMode == DataType /\ FlagType /\ OwnerInv /\ ModeInv /\ [Next]_vars => ModeInv'
<1> SUFFICES ASSUME DataType, FlagType, OwnerInv, ModeInv, [Next]_vars PROVE ModeInv'
  OBVIOUS
<1> USE TesterIsTask
<1> USE DEF DataType, OwnerInv, ModeInv, vars
<1>1. ASSUME NEW t \in Tasks, CheckBacklog(t) PROVE ModeInv'
  BY <1>1 DEF CheckBacklog, At, HasRoom
<1>2. ASSUME NEW t \in Tasks, Drain(t) PROVE ModeInv'
  BY <1>2 DEF Drain, At, HasRoom
<1>3. ASSUME NEW t \in Tasks, EnterGate(t) PROVE ModeInv'
  BY <1>3 DEF EnterGate, At
<1>4. ASSUME NEW t \in Tasks, CheckOwner(t) PROVE ModeInv'
  BY <1>4 DEF CheckOwner, At, Return
<1>5. ASSUME NEW t \in Tasks, Send(t) PROVE ModeInv'
  BY <1>5 DEF Send, At, Return
<1>6. CASE KeyUp
  BY <1>6 DEF KeyUp
<1>7. CASE Retire
  BY <1>7 DEF Retire
<1>8. CASE KeyDown
  BY <1>8 DEF KeyDown
<1>9. CASE Save
  BY <1>9 DEF Save, Rebuild
<1>10. CASE TakeTransmitter
  BY <1>10 DEF TakeTransmitter, Step, GateOpen
<1>11. CASE LetTrafficOut
  BY <1>11 DEF LetTrafficOut, Step, TransmitterIdle
<1>12. CASE GiveUp
  BY <1>12 DEF GiveUp, Step, AfterGivingUp
<1>13. CASE Inhibit
  BY <1>13 DEF Inhibit, Step
<1>14. CASE GoDuplex
  BY <1>14 DEF GoDuplex, Step, Rebuild
<1>15. CASE Restore
  BY <1>15 DEF Restore, Step, Rebuild
<1>16. CASE LiftInhibit
  BY <1>16 DEF LiftInhibit, Step
<1>17. CASE HandBack
  BY <1>17 DEF HandBack, Step
<1>18. CASE UNCHANGED vars
  BY <1>18
<1> QED
  BY <1>1, <1>2, <1>3, <1>4, <1>5, <1>6, <1>7, <1>8, <1>9, <1>10, <1>11, <1>12, <1>13, <1>14, <1>15, <1>16, <1>17, <1>18 DEF Next, Offer, Modem, LoopTest

-----------------------------------------------------------------------------
(* The overshoot *)

\* There are finitely many tasks.
LEMMA TasksFinite == IsFiniteSet(Tasks) /\ Cardinality(Tasks) \in Nat
<1>1. IsFiniteSet(Senders \cup {Beacon, Tester})
  <2>1. IsFiniteSet({Beacon, Tester})
    <3>1. IsFiniteSet({} \cup {Beacon})
      BY FS_EmptySet, FS_AddElement
    <3>2. IsFiniteSet(({} \cup {Beacon}) \cup {Tester})
      BY <3>1, FS_AddElement
    <3>3. ({} \cup {Beacon}) \cup {Tester} = {Beacon, Tester}
      OBVIOUS
    <3> QED
      BY <3>2, <3>3
  <2> QED
    BY <2>1, TasksAssumption, FS_Union
<1> QED
  BY <1>1, FS_CardinalityType DEF Tasks

\* Finitely many tasks are between the look at the backlog and the hand-over.
LEMMA InFlightFinite == IsFiniteSet(InFlight) /\ Cardinality(InFlight) \in Nat
                        /\ Cardinality(InFlight) <= Cardinality(Tasks)
  BY TasksFinite, FS_Subset, FS_CardinalityType, InFlight \subseteq Tasks DEF InFlight

\* The same after a step.
LEMMA InFlightFiniteNext == IsFiniteSet(InFlight') /\ Cardinality(InFlight') \in Nat
                            /\ Cardinality(InFlight') <= Cardinality(Tasks)
<1>1. InFlight' \subseteq Tasks
  BY DEF InFlight
<1> QED
  BY <1>1, TasksFinite, FS_Subset, FS_CardinalityType

\* Finding room: whatever is in flight, each task has one frame at most.
LEMMA RoomCount ==
  ASSUME DataType, HasRoom, ring' = ring PROVE CountInv'
<1>1. Len(ring) \in Nat /\ Len(ring) <= Limit - 1
  BY LimitAssumption DEF DataType, HasRoom
<1> QED
  BY <1>1, TasksFinite, InFlightFiniteNext, LimitAssumption DEF CountInv

\* Giving up or standing still: nothing is added.
LEMMA FewerCount ==
  ASSUME DataType, CountInv, InFlight' \subseteq InFlight,
         Len(ring') \in Nat, Len(ring') <= Len(ring)
  PROVE  CountInv'
<1>1. Cardinality(InFlight') <= Cardinality(InFlight)
  BY InFlightFinite, FS_Subset
<1>2. Len(ring) \in Nat
  BY DEF DataType
<1> QED
  BY <1>1, <1>2, InFlightFinite, InFlightFiniteNext, TasksFinite, LimitAssumption DEF CountInv

\* A frame more on the ring is a task fewer on its way.
LEMMA NextCount == DataType /\ CountInv /\ [Next]_vars => CountInv'
<1> SUFFICES ASSUME DataType, CountInv, [Next]_vars PROVE CountInv'
  OBVIOUS
<1>1. ASSUME NEW t \in Tasks, CheckBacklog(t) PROVE CountInv'
  <2>1. CASE HasRoom
    <3>1. ring' = ring
      BY <1>1 DEF CheckBacklog
    <3> QED
      BY <2>1, <3>1, RoomCount
  <2>2. CASE ~HasRoom
    <3>1. InFlight' \subseteq InFlight
      BY <1>1, <2>2 DEF InFlight, DataType, CheckBacklog, At
    <3>2. Len(ring') \in Nat /\ Len(ring') <= Len(ring)
      BY <1>1 DEF DataType, CheckBacklog
    <3> QED
      BY <3>1, <3>2, FewerCount
  <2> QED
    BY <2>1, <2>2
<1>2. ASSUME NEW t \in Tasks, Drain(t) PROVE CountInv'
  <2>1. CASE HasRoom
    <3>1. ring' = ring
      BY <1>2 DEF Drain
    <3> QED
      BY <2>1, <3>1, RoomCount
  <2>2. CASE ~HasRoom
    <3>1. InFlight' \subseteq InFlight
      BY <1>2, <2>2 DEF InFlight, DataType, Drain, At
    <3>2. Len(ring') \in Nat /\ Len(ring') <= Len(ring)
      BY <1>2 DEF DataType, Drain
    <3> QED
      BY <3>1, <3>2, FewerCount
  <2> QED
    BY <2>1, <2>2
<1>3. ASSUME NEW t \in Tasks, EnterGate(t) PROVE CountInv'
  <2>1. InFlight' \subseteq InFlight
    BY <1>3 DEF InFlight, DataType, EnterGate, At
  <2>2. Len(ring') \in Nat /\ Len(ring') <= Len(ring)
    BY <1>3 DEF DataType, EnterGate, At
  <2> QED
    BY <2>1, <2>2, FewerCount
<1>4. ASSUME NEW t \in Tasks, CheckOwner(t) PROVE CountInv'
  <2>1. InFlight' \subseteq InFlight
    BY <1>4 DEF InFlight, DataType, CheckOwner, At, Return
  <2>2. Len(ring') \in Nat /\ Len(ring') <= Len(ring)
    BY <1>4 DEF DataType, CheckOwner, At, Return
  <2> QED
    BY <2>1, <2>2, FewerCount
<1>5. ASSUME NEW t \in Tasks, Send(t) PROVE CountInv'
  <2>1. t \in InFlight /\ InFlight' = InFlight \ {t}
    BY <1>5 DEF Send, At, InFlight, DataType
  <2>2. Cardinality(InFlight') = Cardinality(InFlight) - 1
    BY <2>1, InFlightFinite, FS_RemoveElement
  <2>3. Len(ring) \in Nat /\ Len(ring') \in Nat /\ Len(ring') <= Len(ring) + 1
    BY <1>5 DEF Send, DataType
  <2> QED
    BY <2>2, <2>3, InFlightFinite, TasksFinite, LimitAssumption DEF CountInv
<1>6. CASE KeyUp
  <2>1. InFlight' \subseteq InFlight
    BY <1>6 DEF InFlight, KeyUp
  <2>2. Len(ring') \in Nat /\ Len(ring') <= Len(ring)
    BY <1>6 DEF DataType, KeyUp
  <2> QED
    BY <2>1, <2>2, FewerCount
<1>7. CASE Retire
  <2>1. InFlight' \subseteq InFlight
    BY <1>7 DEF InFlight, Retire
  <2>2. Len(ring') \in Nat /\ Len(ring') <= Len(ring)
    BY <1>7 DEF DataType, Retire
  <2> QED
    BY <2>1, <2>2, FewerCount
<1>8. CASE KeyDown
  <2>1. InFlight' \subseteq InFlight
    BY <1>8 DEF InFlight, KeyDown
  <2>2. Len(ring') \in Nat /\ Len(ring') <= Len(ring)
    BY <1>8 DEF DataType, KeyDown
  <2> QED
    BY <2>1, <2>2, FewerCount
<1>9. CASE Save
  <2>1. InFlight' \subseteq InFlight
    BY <1>9 DEF InFlight, Save, Rebuild
  <2>2. Len(ring') \in Nat /\ Len(ring') <= Len(ring)
    BY <1>9 DEF DataType, Save, Rebuild
  <2> QED
    BY <2>1, <2>2, FewerCount
<1>10. CASE TakeTransmitter
  <2>1. InFlight' \subseteq InFlight
    BY <1>10 DEF InFlight, TakeTransmitter, Step, GateOpen
  <2>2. Len(ring') \in Nat /\ Len(ring') <= Len(ring)
    BY <1>10 DEF DataType, TakeTransmitter, Step, GateOpen
  <2> QED
    BY <2>1, <2>2, FewerCount
<1>11. CASE LetTrafficOut
  <2>1. InFlight' \subseteq InFlight
    BY <1>11 DEF InFlight, LetTrafficOut, Step, TransmitterIdle
  <2>2. Len(ring') \in Nat /\ Len(ring') <= Len(ring)
    BY <1>11 DEF DataType, LetTrafficOut, Step, TransmitterIdle
  <2> QED
    BY <2>1, <2>2, FewerCount
<1>12. CASE GiveUp
  <2>1. InFlight' \subseteq InFlight
    BY <1>12 DEF InFlight, GiveUp, Step, AfterGivingUp
  <2>2. Len(ring') \in Nat /\ Len(ring') <= Len(ring)
    BY <1>12 DEF DataType, GiveUp, Step, AfterGivingUp
  <2> QED
    BY <2>1, <2>2, FewerCount
<1>13. CASE Inhibit
  <2>1. InFlight' \subseteq InFlight
    BY <1>13 DEF InFlight, Inhibit, Step
  <2>2. Len(ring') \in Nat /\ Len(ring') <= Len(ring)
    BY <1>13 DEF DataType, Inhibit, Step
  <2> QED
    BY <2>1, <2>2, FewerCount
<1>14. CASE GoDuplex
  <2>1. InFlight' \subseteq InFlight
    BY <1>14 DEF InFlight, GoDuplex, Step, Rebuild
  <2>2. Len(ring') \in Nat /\ Len(ring') <= Len(ring)
    BY <1>14 DEF DataType, GoDuplex, Step, Rebuild
  <2> QED
    BY <2>1, <2>2, FewerCount
<1>15. CASE Restore
  <2>1. InFlight' \subseteq InFlight
    BY <1>15 DEF InFlight, Restore, Step, Rebuild
  <2>2. Len(ring') \in Nat /\ Len(ring') <= Len(ring)
    BY <1>15 DEF DataType, Restore, Step, Rebuild
  <2> QED
    BY <2>1, <2>2, FewerCount
<1>16. CASE LiftInhibit
  <2>1. InFlight' \subseteq InFlight
    BY <1>16 DEF InFlight, LiftInhibit, Step
  <2>2. Len(ring') \in Nat /\ Len(ring') <= Len(ring)
    BY <1>16 DEF DataType, LiftInhibit, Step
  <2> QED
    BY <2>1, <2>2, FewerCount
<1>17. CASE HandBack
  <2>1. InFlight' \subseteq InFlight
    BY <1>17 DEF InFlight, HandBack, Step
  <2>2. Len(ring') \in Nat /\ Len(ring') <= Len(ring)
    BY <1>17 DEF DataType, HandBack, Step
  <2> QED
    BY <2>1, <2>2, FewerCount
<1>18. CASE UNCHANGED vars
  <2>1. InFlight' \subseteq InFlight
    BY <1>18 DEF InFlight, vars
  <2>2. Len(ring') \in Nat /\ Len(ring') <= Len(ring)
    BY <1>18 DEF DataType, vars
  <2> QED
    BY <2>1, <2>2, FewerCount
<1> QED
  BY <1>1, <1>2, <1>3, <1>4, <1>5, <1>6, <1>7, <1>8, <1>9, <1>10, <1>11, <1>12, <1>13, <1>14, <1>15, <1>16, <1>17, <1>18 DEF Next, Offer, Modem, LoopTest

-----------------------------------------------------------------------------
(* Theorems *)

\* The inductive invariants hold at boot.
LEMMA InitInv == Init => IInv /\ CountInv
<1> SUFFICES ASSUME Init PROVE IInv /\ CountInv
  OBVIOUS
<1>1. DataType
  BY TesterIsTask DEF Init, DataType, TestSteps
<1>2. FlagType
  BY Zenon DEF Init, FlagType
<1>3. GateInv /\ OwnerInv /\ RingInv /\ ModeInv
  BY TesterIsTask DEF Init, GateInv, Inside, OwnerInv, RingInv, OnlyFrom, NoneFrom, ModeInv
<1>4. CountInv
  <2>1. InFlight = {}
    BY DEF Init, InFlight
  <2>2. Cardinality(InFlight) = 0 /\ Len(ring) = 0
    BY <2>1, FS_EmptySet DEF Init
  <2>3. Cardinality(Tasks) >= 1
    BY TasksFinite, TesterIsTask, FS_EmptySet
  <2> QED
    BY <2>2, <2>3, TasksFinite, LimitAssumption DEF CountInv
<1> QED
  BY <1>1, <1>2, <1>3, <1>4 DEF IInv

\* Every step keeps the inductive invariant.
LEMMA NextInv == IInv /\ [Next]_vars => IInv'
  BY NextData, NextFlag, NextGate, NextOwner, NextRing, NextMode DEF IInv

\* Both inductive invariants hold throughout.
LEMMA Invariance == Spec => [](IInv /\ CountInv)
<1>1. IInv /\ CountInv /\ [Next]_vars => (IInv /\ CountInv)'
  BY NextInv, NextCount DEF IInv
<1> QED
  BY <1>1, InitInv, PTL DEF Spec

\* The gate and the test keep their types.
THEOREM TypeCorrect == Spec => []TypeOK
<1>1. IInv => TypeOK
  BY DEF IInv, DataType, FlagType, TypeOK
<1> QED
  BY <1>1, Invariance, PTL

\* No frame of another task is on the ring while PTT is inhibited or the modem
\* in full duplex: the gate closes the window between the owner test of
\* send_tnc2_impl() and its hand-over, for any number of tasks.
THEOREM NoForeignFrame == Spec => []ForeignStaysOut
<1>1. IInv => ForeignStaysOut
  BY DEF IInv, RingInv, ModeInv, ForeignStaysOut
<1> QED
  BY <1>1, Invariance, PTL

\* The test's own frame is never on the ring with PTT released.
THEOREM TestOffAir == Spec => []TestStaysOffAir
<1>1. IInv => TestStaysOffAir
  BY DEF IInv, RingInv, ModeInv, TestStaysOffAir
<1> QED
  BY <1>1, Invariance, PTL

\* The backlog passes its limit by at most one frame for each other task.
THEOREM OvershootBounded == Spec => []Overshoot
<1>1. IInv /\ CountInv => Overshoot
  BY InFlightFinite, TasksFinite, LimitAssumption DEF IInv, DataType, CountInv, Overshoot
<1> QED
  BY <1>1, Invariance, PTL

\* The loop test takes no other task's frame off the ring.
THEOREM NoneSwallowed == Spec => NothingSwallowed
<1> DEFINE Kept == \/ ring = <<>> \/ OnlyFrom(Tester)
                   \/ \E t \in Tasks : ring' = Append(ring, t)
                   \/ tx = "frame" /\ ring' = Tail(ring)
<1>1. IInv /\ [Next]_vars => [test # "idle" /\ ring' # ring => Kept]_vars
  <2> SUFFICES ASSUME IInv, [Next]_vars, test # "idle", ring' # ring PROVE Kept
    OBVIOUS
  <2>1. (\E t \in Tasks : Send(t)) \/ Retire \/ GoDuplex \/ Restore
    BY DEF Next, Offer, Modem, LoopTest, CheckBacklog, Drain, EnterGate, CheckOwner, KeyUp,
      KeyDown, Save, TakeTransmitter, Step, LetTrafficOut, GiveUp, Inhibit, LiftInhibit,
      HandBack, vars
  <2>2. CASE GoDuplex \/ Restore
    BY <2>2 DEF GoDuplex, Restore, Step, IInv, RingInv
  <2>3. CASE Retire
    BY <2>3 DEF Retire
  <2>4. CASE \E t \in Tasks : Send(t)
    BY <2>4 DEF Send
  <2> QED
    BY <2>1, <2>2, <2>3, <2>4
<1> QED
  BY <1>1, Invariance, PTL DEF Spec, NothingSwallowed

\* What the run checks of the gate in one formula: foreign frames stay out of
\* the test, the test stays off the air, and the backlog overshoots its limit
\* by at most a frame a task.
THEOREM GateKept == Spec => []GateSound
<1> QED
  BY TypeCorrect, NoForeignFrame, TestOffAir, OvershootBounded, PTL DEF GateSound

(***************************************************************************)
(* The socket's way out: a line end on the wire for each frame reported    *)
(* sent, and that frame in front of it.                                    *)
(***************************************************************************)
\* The line ends up to a position, and all of them, in any stream.
EndsIn(w) == {k \in 1 .. Len(w) : w[k] = "end"}
EndsTo(w, k) == {j \in EndsIn(w) : j <= k}

\* What is on the wire agrees with what was reported.
Agrees(w, f) ==
  /\ Cardinality(EndsIn(w)) = Len(f)
  /\ \A k \in EndsIn(w) :
       \E from \in 1 .. k : f[Cardinality(EndsTo(w, k))] = SubSeq(w, from, k - 1)

\* A stream has finitely many line ends, each a number of their own.
LEMMA EndsFinite ==
  ASSUME NEW w \in Seq(Bytes)
  PROVE  /\ IsFiniteSet(EndsIn(w)) /\ Cardinality(EndsIn(w)) \in Nat
         /\ \A k \in EndsIn(w) : Cardinality(EndsTo(w, k)) \in 1 .. Cardinality(EndsIn(w))
<1>1. Len(w) \in Nat /\ IsFiniteSet(1 .. Len(w))
  BY FS_Interval
<1>2. IsFiniteSet(EndsIn(w)) /\ Cardinality(EndsIn(w)) \in Nat
  BY <1>1, FS_Subset, FS_CardinalityType DEF EndsIn
<1>3. ASSUME NEW k \in EndsIn(w)
      PROVE  Cardinality(EndsTo(w, k)) \in 1 .. Cardinality(EndsIn(w))
  <2>1. EndsTo(w, k) \subseteq EndsIn(w) /\ k \in EndsTo(w, k)
    BY <1>1 DEF EndsTo, EndsIn
  <2>2. /\ IsFiniteSet(EndsTo(w, k)) /\ Cardinality(EndsTo(w, k)) \in Nat
        /\ Cardinality(EndsTo(w, k)) <= Cardinality(EndsIn(w))
    BY <1>2, <2>1, FS_Subset, FS_CardinalityType
  <2>3. Cardinality(EndsTo(w, k)) # 0
    BY <2>1, <2>2, FS_EmptySet
  <2> QED
    BY <1>2, <2>2, <2>3
<1> QED
  BY <1>2, <1>3

\* What a stream begins with stays as it is.
LEMMA Beginning ==
  ASSUME NEW w \in Seq(Bytes), NEW e \in Seq(Bytes)
  PROVE  /\ w \o e \in Seq(Bytes) /\ Len(w \o e) = Len(w) + Len(e)
         /\ \A i \in 1 .. Len(w) : (w \o e)[i] = w[i]
         /\ \A i \in 1 .. Len(e) : (w \o e)[Len(w) + i] = e[i]
         /\ \A a \in 1 .. Len(w), b \in 0 .. Len(w) : SubSeq(w \o e, a, b) = SubSeq(w, a, b)
<1>1. /\ w \o e \in Seq(Bytes) /\ Len(w \o e) = Len(w) + Len(e)
      /\ \A i \in 1 .. Len(w) : (w \o e)[i] = w[i]
      /\ \A i \in 1 .. Len(e) : (w \o e)[Len(w) + i] = e[i]
  OBVIOUS
<1> DEFINE v == w \o e
<1> HIDE DEF v
<1>2. ASSUME NEW a \in 1 .. Len(w), NEW b \in 0 .. Len(w)
      PROVE  SubSeq(v, a, b) = SubSeq(w, a, b)
  <2>1. \A i \in a .. b : v[i] = w[i]
    BY <1>1 DEF v
  <2> QED
    BY <1>1, <2>1 DEF v
<1> QED
  BY <1>1, <1>2 DEF v

\* A line that is cut before its end adds no line.
LEMMA CutAddsNothing ==
  ASSUME NEW w \in Seq(Bytes), NEW f \in Seq(Frames), NEW e \in Seq(Bytes),
         \A i \in 1 .. Len(e) : e[i] # "end", Agrees(w, f)
  PROVE  Agrees(w \o e, f)
<1> DEFINE v == w \o e
<1>1. /\ v \in Seq(Bytes) /\ Len(v) = Len(w) + Len(e)
      /\ \A i \in 1 .. Len(w) : v[i] = w[i]
      /\ \A i \in 1 .. Len(e) : v[Len(w) + i] = e[i]
      /\ \A a \in 1 .. Len(w), b \in 0 .. Len(w) : SubSeq(v, a, b) = SubSeq(w, a, b)
  BY Beginning
<1> HIDE DEF v
<1>2. EndsIn(v) = EndsIn(w)
  <2>1. \A k \in 1 .. Len(v) : k \notin 1 .. Len(w) => v[k] # "end"
    <3> TAKE k \in 1 .. Len(v)
    <3> HAVE k \notin 1 .. Len(w)
    <3>1. k - Len(w) \in 1 .. Len(e) /\ k = Len(w) + (k - Len(w))
      BY <1>1
    <3> QED
      BY <1>1, <3>1
  <2>2. 1 .. Len(w) \subseteq 1 .. Len(v)
    BY <1>1
  <2> QED
    BY <1>1, <2>1, <2>2 DEF EndsIn
<1>3. \A k : EndsTo(v, k) = EndsTo(w, k)
  BY <1>2 DEF EndsTo
<1>4. ASSUME NEW k \in EndsIn(v)
      PROVE  \E from \in 1 .. k : f[Cardinality(EndsTo(v, k))] = SubSeq(v, from, k - 1)
  <2>1. k \in EndsIn(w) /\ k \in 1 .. Len(w)
    BY <1>2, <1>4 DEF EndsIn
  <2>2. PICK from \in 1 .. k : f[Cardinality(EndsTo(w, k))] = SubSeq(w, from, k - 1)
    BY <2>1 DEF Agrees
  <2>3. from \in 1 .. Len(w) /\ k - 1 \in 0 .. Len(w)
    BY <2>1
  <2>4. SubSeq(v, from, k - 1) = SubSeq(w, from, k - 1)
    BY <1>1, <2>3
  <2> QED
    BY <1>3, <2>2, <2>4
<1>5. Cardinality(EndsIn(v)) = Len(f)
  BY <1>2 DEF Agrees
<1> QED
  BY <1>4, <1>5 DEF Agrees, v

\* A whole line adds one, and its frame is the last of those reported.
LEMMA LineAddsOne ==
  ASSUME NEW w \in Seq(Bytes), NEW f \in Seq(Frames), NEW g \in Frames, g \in Seq(Bytes),
         \A i \in 1 .. Len(g) : g[i] # "end", Agrees(w, f)
  PROVE  Agrees(w \o Append(g, "end"), Append(f, g))
<1> DEFINE e == Append(g, "end")
           v == w \o e
           last == Len(w) + Len(g) + 1
           h == Append(f, g)
<1>0. "end" \in Bytes
  BY DEF Bytes
<1>a. /\ e \in Seq(Bytes) /\ Len(e) = Len(g) + 1 /\ Len(g) \in Nat /\ Len(w) \in Nat
      /\ \A i \in 1 .. Len(g) : e[i] = g[i]
      /\ e[Len(g) + 1] = "end"
  BY <1>0
<1>b. /\ h \in Seq(Frames) /\ Len(h) = Len(f) + 1 /\ Len(f) \in Nat
      /\ \A i \in 1 .. Len(f) : h[i] = f[i]
      /\ h[Len(f) + 1] = g
  OBVIOUS
<1> HIDE DEF e, h
<1>1. /\ v \in Seq(Bytes) /\ Len(v) = Len(w) + Len(e)
      /\ \A i \in 1 .. Len(w) : v[i] = w[i]
      /\ \A i \in 1 .. Len(e) : v[Len(w) + i] = e[i]
      /\ \A a \in 1 .. Len(w), b \in 0 .. Len(w) : SubSeq(v, a, b) = SubSeq(w, a, b)
  BY <1>a, Beginning
<1> HIDE DEF v
<1>2. Len(v) = last /\ last \in Nat /\ v[last] = "end" /\ last \in 1 .. Len(v)
  <2>1. Len(v) = last /\ last \in Nat /\ last \in 1 .. Len(v)
    BY <1>1, <1>a
  <2>2. Len(e) \in 1 .. Len(e) /\ last = Len(w) + Len(e)
    BY <1>a
  <2>3. v[last] = e[Len(e)]
    BY <1>1, <2>2, Zenon
  <2> QED
    BY <1>a, <2>1, <2>3
<1>3. \A i \in 1 .. Len(g) : v[Len(w) + i] = g[i]
  <2> TAKE i \in 1 .. Len(g)
  <2>1. i \in 1 .. Len(e)
    BY <1>a
  <2> QED
    BY <1>1, <1>a, <2>1
<1>4. EndsIn(v) = EndsIn(w) \cup {last} /\ last \notin EndsIn(w)
  <2>1. \A k \in 1 .. Len(v) : k \in 1 .. Len(w) \/ k = last \/ v[k] # "end"
    <3> TAKE k \in 1 .. Len(v)
    <3>1. CASE k \notin 1 .. Len(w) /\ k # last
      <4>1. PICK m \in Nat, n \in Nat : m = Len(w) /\ n = Len(g)
        BY <1>a
      <4>2. k \in 1 .. m + n + 1 /\ k \notin 1 .. m /\ k # m + n + 1
        BY <1>2, <3>1, <4>1
      <4>3. k - m \in 1 .. n /\ k = m + (k - m)
        BY <4>2
      <4> QED
        BY <1>3, <4>1, <4>3
    <3> QED
      BY <3>1
  <2>2. \A k \in 1 .. Len(w) : k \in 1 .. Len(v) /\ k # last /\ v[k] = w[k]
    BY <1>1, <1>a, <1>2
  <2> HIDE DEF last
  <2> QED
    BY <1>2, <2>1, <2>2 DEF EndsIn
<1>5. IsFiniteSet(EndsIn(w)) /\ Cardinality(EndsIn(w)) = Len(f)
  BY EndsFinite DEF Agrees
<1>6. Cardinality(EndsIn(v)) = Len(f) + 1
  BY <1>4, <1>5, FS_AddElement
<1>7. ASSUME NEW k \in EndsIn(w)
      PROVE  \E from \in 1 .. k : h[Cardinality(EndsTo(v, k))] = SubSeq(v, from, k - 1)
  <2>1. k \in 1 .. Len(w) /\ k < last
    BY <1>a DEF EndsIn
  <2>2. EndsTo(v, k) = EndsTo(w, k)
    <3>1. \A j \in EndsIn(w) : j \in 1 .. Len(w)
      BY DEF EndsIn
    <3>2. ~(last <= k)
      BY <1>2, <2>1
    <3> HIDE DEF last
    <3> QED
      BY <1>4, <3>2 DEF EndsTo
  <2>3. PICK from \in 1 .. k : f[Cardinality(EndsTo(w, k))] = SubSeq(w, from, k - 1)
    BY DEF Agrees
  <2>4. Cardinality(EndsTo(w, k)) \in 1 .. Len(f)
    BY <1>5, EndsFinite
  <2>5. from \in 1 .. Len(w) /\ k - 1 \in 0 .. Len(w)
    BY <2>1
  <2>6. SubSeq(v, from, k - 1) = SubSeq(w, from, k - 1)
    BY <1>1, <2>5
  <2> QED
    BY <1>b, <2>2, <2>3, <2>4, <2>6
<1>8. \E from \in 1 .. last : h[Cardinality(EndsTo(v, last))] = SubSeq(v, from, last - 1)
  <2>1. EndsTo(v, last) = EndsIn(v)
    <3>1. \A j \in EndsIn(v) : j <= last
      BY <1>2 DEF EndsIn
    <3> QED
      BY <3>1 DEF EndsTo
  <2>2. h[Cardinality(EndsTo(v, last))] = g
    BY <1>b, <1>6, <2>1
  <2>3. SubSeq(v, Len(w) + 1, last - 1) = g
    <3>1. last - 1 = Len(w) + Len(g) /\ last - 1 <= Len(v) /\ Len(w) + 1 \in 1 .. last
      BY <1>a, <1>2
    <3> DEFINE p == SubSeq(v, Len(w) + 1, Len(w) + Len(g))
    <3>2. p \in Seq(Bytes) /\ Len(p) = Len(g) /\ \A i \in 1 .. Len(g) : p[i] = v[Len(w) + i]
      BY <1>1, <1>a
    <3> HIDE DEF p
    <3>3. p \in [1 .. Len(g) -> Bytes] /\ g \in [1 .. Len(g) -> Bytes]
      BY <3>2
    <3>4. p = g
      BY <1>3, <3>2, <3>3
    <3> QED
      BY <3>1, <3>4 DEF p
  <2>4. Len(w) + 1 \in 1 .. last
    BY <1>a
  <2> QED
    BY <2>2, <2>3, <2>4
<1>9. \A k \in EndsIn(v) : \E from \in 1 .. k : h[Cardinality(EndsTo(v, k))] = SubSeq(v, from, k - 1)
  BY <1>4, <1>7, <1>8
<1> QED
  BY <1>6, <1>9, <1>b DEF Agrees, v, e, h

\* Onto the socket goes nothing, a part of a line without its end, or a line.
LEMMA WhatIsTaken ==
  ASSUME NEW g \in Seq(Bytes), NEW t \in 0 .. Len(Line(g)), Clean(g)
  PROVE  /\ t = Len(Line(g)) => SubSeq(Line(g), 1, t) = Append(g, "end")
         /\ t # Len(Line(g)) => /\ SubSeq(Line(g), 1, t) \in Seq(Bytes)
                               /\ \A i \in 1 .. Len(SubSeq(Line(g), 1, t)) :
                                    SubSeq(Line(g), 1, t)[i] # "end"
<1>0. "end" \in Bytes
  BY DEF Bytes
<1>1. /\ Line(g) \in Seq(Bytes) /\ Len(Line(g)) = Len(g) + 1 /\ Len(g) \in Nat
      /\ \A i \in 1 .. Len(g) : Line(g)[i] = g[i]
  BY <1>0 DEF Line
<1>2. \A i \in 1 .. Len(g) : g[i] # "end"
  BY DEF Clean
<1> DEFINE e == Line(g)
<1>3. SubSeq(e, 1, Len(e)) = e
  BY <1>1
<1> HIDE DEF e
<1>4. ASSUME t # Len(e)
      PROVE  /\ SubSeq(e, 1, t) \in Seq(Bytes)
             /\ \A i \in 1 .. Len(SubSeq(e, 1, t)) : SubSeq(e, 1, t)[i] # "end"
  <2>1. t \in 0 .. Len(g)
    BY <1>1, <1>4 DEF e
  <2>2. SubSeq(e, 1, t) \in Seq(Bytes) /\ Len(SubSeq(e, 1, t)) = t
        /\ \A i \in 1 .. t : SubSeq(e, 1, t)[i] = e[i]
    BY <1>1, <2>1 DEF e
  <2>3. \A i \in 1 .. t : e[i] # "end"
    BY <1>1, <1>2, <2>1 DEF e
  <2> QED
    BY <2>2, <2>3
<1> QED
  BY <1>3, <1>4 DEF e, Line

\* A frame offered keeps what is on the wire and what was reported in step.
LEMMA SendKeeps ==
  ASSUME WriteTypes, Agrees(wire, sent), NEW g \in Frames, SendToAprsIs(g)
  PROVE  /\ wire' \in Seq(Bytes) /\ sent' \in Seq(Frames) /\ Agrees(wire, sent)'
         /\ \A k \in DOMAIN sent' : Len(sent'[k]) <= Cap
<1>1. /\ wire \in Seq(Bytes) /\ sent \in Seq(Frames)
      /\ \A k \in DOMAIN sent : Len(sent[k]) <= Cap
  BY DEF WriteTypes
<1>2. g \in Seq(Bytes)
  BY BoundsAssumption DEF Frames
<1>3. CASE UNCHANGED <<wire, sent>>
  BY <1>1, <1>3
<1>4. CASE ~Refused(g) /\ ~UNCHANGED <<wire, sent>>
  <2>1. Clean(g) /\ Len(g) <= Cap
    BY <1>4 DEF Refused, FitsLine
  <2>2. PICK t \in 0 .. Len(Line(g)) :
          /\ wire' = wire \o SubSeq(Line(g), 1, t)
          /\ sent' = IF t = Len(Line(g)) THEN Append(sent, g) ELSE sent
    BY <1>4 DEF SendToAprsIs
  <2>3. \A i \in 1 .. Len(g) : g[i] # "end"
    BY <1>2, <2>1 DEF Clean
  <2>4. CASE t = Len(Line(g))
    <3>1. wire' = wire \o Append(g, "end") /\ sent' = Append(sent, g)
      BY <1>2, <2>1, <2>2, <2>4, WhatIsTaken
    <3>2. Agrees(wire \o Append(g, "end"), Append(sent, g))
      BY <1>1, <1>2, <2>3, LineAddsOne
    <3>3. Append(g, "end") \in Seq(Bytes)
      BY <1>2 DEF Bytes
    <3>4. wire \o Append(g, "end") \in Seq(Bytes)
      BY <1>1, <3>3
    <3>5. /\ Append(sent, g) \in Seq(Frames)
          /\ \A k \in DOMAIN Append(sent, g) : Len(Append(sent, g)[k]) <= Cap
      BY <1>1, <2>1
    <3> QED
      BY <3>1, <3>2, <3>4, <3>5
  <2>5. CASE t # Len(Line(g))
    <3> DEFINE e == SubSeq(Line(g), 1, t)
    <3>1. e \in Seq(Bytes) /\ \A i \in 1 .. Len(e) : e[i] # "end"
      BY <1>2, <2>1, <2>5, WhatIsTaken
    <3>2. wire' = wire \o e /\ sent' = sent
      BY <2>2, <2>5
    <3> HIDE DEF e
    <3>3. Agrees(wire \o e, sent)
      BY <1>1, <3>1, CutAddsNothing
    <3>4. wire \o e \in Seq(Bytes)
      BY <1>1, <3>1
    <3> QED
      BY <1>1, <3>2, <3>3, <3>4
  <2> QED
    BY <2>4, <2>5
<1> QED
  BY <1>3, <1>4 DEF SendToAprsIs

\* What the socket holds, and the rest of its types.
WriteInv == WriteTypes /\ Agrees(wire, sent)

\* An empty stream has no line.
LEMMA NothingYet == Agrees(<<>>, <<>>)
<1>1. EndsIn(<<>>) = {}
  BY DEF EndsIn
<1> QED
  BY <1>1, FS_EmptySet DEF Agrees

\* Every step of a session keeps it.
LEMMA WireStep == WriteInv /\ [WireNext]_wireVars => WriteInv'
<1> SUFFICES ASSUME WriteInv, [WireNext]_wireVars PROVE WriteInv'
  OBVIOUS
<1>1. WriteTypes /\ Agrees(wire, sent) /\ MaxSends \in Nat /\ MaxSessions \in Nat
  BY BoundsAssumption DEF WriteInv
<1>2. ASSUME NEW b, Connect(b) PROVE WriteInv'
  <2>1. open' = TRUE /\ sessions < MaxSessions /\ sessions' = sessions + 1
        /\ wire' = <<>> /\ sent' = <<>> /\ offered' = 0
    BY <1>2 DEF Connect
  <2>2. Agrees(wire, sent)'
    BY <2>1, NothingYet
  <2>3. sessions' \in 0 .. MaxSessions /\ offered' \in 0 .. MaxSends
    BY <1>1, <2>1 DEF WriteTypes
  <2>4. wire' \in Seq(Bytes) /\ sent' \in Seq(Frames) /\ DOMAIN sent' = {}
    BY <2>1
  <2> QED
    BY <2>1, <2>2, <2>3, <2>4 DEF WriteInv, WriteTypes
<1>3. ASSUME NEW g \in Frames, SendToAprsIs(g) PROVE WriteInv'
  <2>1. /\ wire' \in Seq(Bytes) /\ sent' \in Seq(Frames) /\ Agrees(wire, sent)'
        /\ \A k \in DOMAIN sent' : Len(sent'[k]) <= Cap
    BY <1>1, <1>3, SendKeeps
  <2>2. /\ offered < MaxSends /\ offered' = offered + 1
        /\ UNCHANGED <<open, sessions>>
    BY <1>3 DEF SendToAprsIs
  <2>3. offered' \in 0 .. MaxSends
    BY <1>1, <2>2 DEF WriteTypes
  <2> QED
    BY <1>1, <2>1, <2>2, <2>3 DEF WriteInv, WriteTypes
<1>4. ASSUME open' \in {open, FALSE}, UNCHANGED <<sessions, wire, sent, offered>>
      PROVE  WriteInv'
  BY <1>1, <1>4 DEF WriteInv, WriteTypes
<1>5. CASE Close
  BY <1>4, <1>5 DEF Close, written
<1>6. ASSUME NEW b, Recv(b) PROVE WriteInv'
  BY <1>4, <1>6 DEF Recv, written
<1>7. CASE UNCHANGED wireVars
  BY <1>4, <1>7 DEF wireVars, written
<1> QED
  BY <1>2, <1>3, <1>5, <1>6, <1>7 DEF WireNext

\* sendToAprsIs() and the socket agree: as many lines as frames reported sent,
\* each ending in its frame, for any line length, any frames and any time-outs.
THEOREM FramesKept == WireSpec => []FramesSound
<1>1. WireInit => WriteInv
  <2> SUFFICES ASSUME WireInit PROVE WriteInv
    OBVIOUS
  <2>1. wire = <<>> /\ sent = <<>> /\ offered = 0 /\ sessions = 0 /\ open = FALSE
    BY DEF WireInit
  <2>2. Agrees(wire, sent)
    BY <2>1, NothingYet
  <2>3. MaxSends \in Nat /\ MaxSessions \in Nat
    BY BoundsAssumption
  <2>4. wire \in Seq(Bytes) /\ sent \in Seq(Frames) /\ DOMAIN sent = {}
    BY <2>1
  <2>5. offered \in 0 .. MaxSends /\ sessions \in 0 .. MaxSessions
    BY <2>1, <2>3
  <2>6. \A k \in DOMAIN sent : Len(sent[k]) <= Cap
    BY <2>4
  <2>7. open \in BOOLEAN
    BY <2>1
  <2> QED
    BY <2>2, <2>4, <2>5, <2>6, <2>7 DEF WriteInv, WriteTypes
<1>2. WriteInv => FramesSound
  <2> SUFFICES ASSUME WriteInv PROVE FramesSound
    OBVIOUS
  <2>1. Ends = EndsIn(wire)
    BY DEF Ends, EndsIn, WriteInv, WriteTypes
  <2>2. \A k : {j \in Ends : j <= k} = EndsTo(wire, k)
    BY <2>1 DEF EndsTo
  <2> QED
    BY <2>1, <2>2 DEF WriteInv, FramesSound, OneLineAFrame, LastFrameWhole, Agrees
<1> QED
  BY <1>1, <1>2, WireStep, PTL DEF WireSpec

-----------------------------------------------------------------------------
(* The gate to APRS-IS: igate.c, aprs_service.c                            *)


\* What the digipeater may have made of the frame in hand.
Rewritten(f, g) ==
  /\ f.src = g.src /\ f.body = g.body /\ DOMAIN f.path = DOMAIN g.path
  /\ \A i \in DOMAIN g.path :
       f.path[i] = g.path[i] \/ (g.path[i].call = "wide" /\ f.path[i].call = "own")

\* The frame in hand is the one received but for a hop, and while no page was saved the log
\* was asked with the settings the gate is asked with.
HandInv ==
  stage \in {"heard", "repeated", "gated"} =>
    /\ received \in Traffic /\ received.src \notin Unconfigured
    /\ stage = "heard" => frame = received
    /\ Rewritten(frame, received)
    /\ still => (LogAccepts(received) => shown)

\* What is on its way to the server has passed the gate.
Passed ==
  stage = "gated" =>
    /\ still => LogAccepts(received)
    /\ KeptOff

TallyInv ==
  /\ counts \in [Counters -> Nat] /\ ownLines \in Nat
  /\ Accounted

GateUpInv ==
  /\ stage \in {"idle", "heard", "repeated", "gated"} /\ still \in BOOLEAN /\ shown \in BOOLEAN
  /\ HandInv /\ Passed /\ TallyInv

\* A non-empty set of naturals has a least element.
LEMMA LeastOne ==
  ASSUME NEW S \in SUBSET Nat, S # {}
  PROVE  \E m \in S : \A j \in S : m <= j
<1> DEFINE R == {p \in Nat \X Nat : p[1] < p[2]}
<1>1. IsWellFoundedOn(R, Nat)
  BY NatLessThanWellFounded, Zenon DEF OpToRel
<1>2. PICK x \in S : \A y \in S : ~(<<y, x>> \in R)
  <2> HIDE DEF R
  <2> QED
    BY <1>1, WFMin
<1>3. \A y \in S : ~(y < x)
  BY <1>2
<1> QED
  BY <1>3

\* The first reason is none only if no reason applies.
LEMMA FirstOfNone ==
  ASSUME NEW r, DOMAIN r \subseteq Nat, \A i \in DOMAIN r : r[i][2] # "none", FirstOf(r) = "none"
  PROVE  \A i \in DOMAIN r : ~r[i][1]
<1> DEFINE hits == {i \in DOMAIN r : r[i][1]}
<1>1. SUFFICES ASSUME hits # {} PROVE FALSE
  OBVIOUS
<1>2. hits \in SUBSET Nat
  OBVIOUS
<1> DEFINE k == CHOOSE i \in hits : \A j \in hits : i <= j
<1>3. k \in hits
  <2> HIDE DEF hits
  <2> QED
    BY <1>1, <1>2, LeastOne
<1>4. FirstOf(r) = r[k][2]
  BY <1>1 DEF FirstOf
<1> HIDE DEF k
<1> QED
  BY <1>3, <1>4

LEMMA NoReason ==
  ASSUME NEW r, \A i \in DOMAIN r : ~r[i][1]
  PROVE  FirstOf(r) = "none"
<1> QED
  BY DEF FirstOf

\* The filters of one packet.
LEMMA FiltersAre ==
  ASSUME NEW f
  PROVE  /\ FilterReasons(f) = << FilterReasons(f)[1], FilterReasons(f)[2], FilterReasons(f)[3],
                                  FilterReasons(f)[4] >>
         /\ \A i \in 1 .. 4 : FilterReasons(f)[i][2] # "none"
<1>1. FilterReasons(f)[1][2] = "type filter" /\ FilterReasons(f)[2][2] = "range filter"
  BY DEF FilterReasons
<1>2. FilterReasons(f)[3][2] = "prefix filter" /\ FilterReasons(f)[4][2] = "callsign filter"
  BY DEF FilterReasons
<1>3. \A i \in 1 .. 4 : i = 1 \/ i = 2 \/ i = 3 \/ i = 4
  OBVIOUS
<1>4. \A i \in 1 .. 4 : FilterReasons(f)[i][2] # "none"
  BY <1>1, <1>2, <1>3
<1>5. ASSUME NEW a, NEW b, NEW c, NEW d, NEW r, r = <<a, b, c, d>>
      PROVE  r = <<r[1], r[2], r[3], r[4]>>
  BY <1>5
<1> QED
  BY <1>4, <1>5 DEF FilterReasons

\* A list of reasons in three parts.
LEMMA InParts ==
  ASSUME NEW a1, NEW a2, NEW a3, NEW a4, NEW a5, NEW a6, NEW a7, NEW b1, NEW b2, NEW b3, NEW b4, NEW c,
         NEW r, r = <<a1, a2, a3, a4, a5, a6, a7>> \o <<b1, b2, b3, b4>> \o <<c>>
  PROVE  /\ DOMAIN r = 1 .. 12
         /\ r[1] = a1 /\ r[2] = a2 /\ r[3] = a3 /\ r[4] = a4 /\ r[5] = a5 /\ r[6] = a6 /\ r[7] = a7
         /\ r[8] = b1 /\ r[9] = b2 /\ r[10] = b3 /\ r[11] = b4 /\ r[12] = c
<1> QED
  OBVIOUS
\* Two packets that differ in their paths only pass the same filters.
LEMMA FiltersSame ==
  ASSUME NEW f, NEW g, f.src = g.src, f.body = g.body
  PROVE  FilterReasons(f) = FilterReasons(g)
<1> QED
  BY DEF FilterReasons

\* The reasons the gate has past the duplicate cache, one by one.
LEMMA LateReasons ==
  ASSUME NEW f, FirstOf(Late(f)) = "none"
  PROVE  /\ ~Barred(f) /\ SatelliteUsed(f)
         /\ Wrapped(f) => Unwraps(f)
         /\ EffectiveView(f).body.kind # "query"
         /\ FirstOf(FilterReasons(EffectiveView(f))) = "none"
<1> DEFINE packet == EffectiveView(f)
           fs == FilterReasons(packet)
           a1 == <<f.short, "too short">>
           a2 == <<Barred(f), "path token">>
           a3 == <<~SatelliteUsed(f), "satellite not used">>
           a4 == <<Wrapped(f) /\ ~f.body.header, "too short">>
           a5 == <<Wrapped(f) /\ Loop(f), "loop">>
           a6 == <<Wrapped(f) /\ Nested(f), "nested">>
           a7 == <<packet.body.kind = "query", "generic query">>
           c1 == <<OverLong(f), "too long">>
           r == Late(f)
<1>1. fs = <<fs[1], fs[2], fs[3], fs[4]>> /\ \A i \in 1 .. 4 : fs[i][2] # "none"
  BY FiltersAre
<1>2. r = <<a1, a2, a3, a4, a5, a6, a7>> \o fs \o <<c1>>
  BY DEF Late
<1>3. /\ a1[2] # "none" /\ a2[2] # "none" /\ a3[2] # "none" /\ a4[2] # "none"
      /\ a5[2] # "none" /\ a6[2] # "none" /\ a7[2] # "none" /\ c1[2] # "none"
  OBVIOUS
<1>4. /\ a2[1] <=> Barred(f)
      /\ a3[1] <=> ~SatelliteUsed(f)
      /\ a4[1] <=> (Wrapped(f) /\ ~f.body.header)
      /\ a5[1] <=> (Wrapped(f) /\ Loop(f))
      /\ a6[1] <=> (Wrapped(f) /\ Nested(f))
      /\ a7[1] <=> packet.body.kind = "query"
  OBVIOUS
<1> HIDE DEF fs, a1, a2, a3, a4, a5, a6, a7, c1, r
<1>5. r = <<a1, a2, a3, a4, a5, a6, a7>> \o <<fs[1], fs[2], fs[3], fs[4]>> \o <<c1>>
  BY <1>1, <1>2
<1>6. /\ DOMAIN r = 1 .. 12
      /\ r[1] = a1 /\ r[2] = a2 /\ r[3] = a3 /\ r[4] = a4 /\ r[5] = a5 /\ r[6] = a6 /\ r[7] = a7
      /\ r[8] = fs[1] /\ r[9] = fs[2] /\ r[10] = fs[3] /\ r[11] = fs[4] /\ r[12] = c1
  BY <1>5, InParts
<1>7. \A i \in DOMAIN r : r[i][2] # "none"
  <2>1. \A i \in 1 .. 12 : \/ i = 1 \/ i = 2 \/ i = 3 \/ i = 4 \/ i = 5 \/ i = 6 \/ i = 7
                           \/ i = 8 \/ i = 9 \/ i = 10 \/ i = 11 \/ i = 12
    OBVIOUS
  <2>2. fs[1][2] # "none" /\ fs[2][2] # "none" /\ fs[3][2] # "none" /\ fs[4][2] # "none"
    BY <1>1
  <2> QED
    BY <1>3, <1>6, <2>1, <2>2
<1>8. \A i \in DOMAIN r : ~r[i][1]
  <2>1. FirstOf(r) = "none" /\ DOMAIN r \subseteq Nat
    BY <1>6 DEF r
  <2> QED
    BY <1>7, <2>1, FirstOfNone
<1>9. ~a2[1] /\ ~a3[1] /\ ~a4[1] /\ ~a5[1] /\ ~a6[1] /\ ~a7[1]
  BY <1>6, <1>8
<1>10. FirstOf(fs) = "none"
  <2>1. ~fs[1][1] /\ ~fs[2][1] /\ ~fs[3][1] /\ ~fs[4][1]
    BY <1>6, <1>8
  <2>2. DOMAIN fs = 1 .. 4
    BY <1>1
  <2>3. \A i \in 1 .. 4 : i = 1 \/ i = 2 \/ i = 3 \/ i = 4
    OBVIOUS
  <2> QED
    BY <2>1, <2>2, <2>3, NoReason
<1> QED
  BY <1>4, <1>9, <1>10 DEF Unwraps, fs

\* A frame has its fields, and a wrapped one its inner path.
LEMMA FrameShape ==
  ASSUME NEW f \in Traffic
  PROVE  /\ f.path \in Seq(Hop)
         /\ DOMAIN f = {"src", "path", "body", "ui", "short", "long"}
<1>1. f \in [src : Calls, path : Seq(Hop), body : {f.body}, ui : BOOLEAN, short : BOOLEAN, long : BOOLEAN]
  BY UplinkAssumption
<1> QED
  BY <1>1

\* What the digipeater does to a path leaves everything a filter reads.
LEMMA RepeatRewrites ==
  ASSUME NEW f \in Traffic, Repeatable(f.path), NEW g,
         g = [f EXCEPT !.path[Next1(f.path)] = [call |-> "own", used |-> TRUE]]
  PROVE  Rewritten(g, f)
<1> DEFINE own == [call |-> "own", used |-> TRUE]
           k == Next1(f.path)
<1>1. f.path \in Seq(Hop) /\ DOMAIN f = {"src", "path", "body", "ui", "short", "long"}
  BY FrameShape
<1>2. f.path[k].call = "wide"
  BY DEF Repeatable
<1>3. own.call = "own"
  OBVIOUS
<1> HIDE DEF k, own
<1>4. g.src = f.src /\ g.body = f.body /\ g.path = [f.path EXCEPT ![k] = own]
  BY <1>1 DEF k, own
<1>5. DOMAIN g.path = DOMAIN f.path
  BY <1>1, <1>4
<1>6. \A i \in DOMAIN f.path : g.path[i] = IF i = k THEN own ELSE f.path[i]
  BY <1>1, <1>4
<1> QED
  BY <1>2, <1>3, <1>4, <1>5, <1>6 DEF Rewritten

\* What a path says that has to be kept off, another says that differs by a repeated hop.
LEMMA KeptThrough ==
  ASSUME NEW f, NEW g, Rewritten(f, g)
  PROVE  /\ ~Barred(f) => ~Barred(g)
         /\ SatelliteUsed(f) => SatelliteUsed(g)
         /\ Wrapped(f) <=> Wrapped(g)
         /\ Unwraps(f) <=> Unwraps(g)
         /\ FilterReasons(EffectiveView(f)) = FilterReasons(EffectiveView(g))
<1>1. f.src = g.src /\ f.body = g.body /\ DOMAIN f.path = DOMAIN g.path
  BY DEF Rewritten
<1>2. \A i \in DOMAIN g.path :
        f.path[i] = g.path[i] \/ (g.path[i].call = "wide" /\ f.path[i].call = "own")
  BY DEF Rewritten
<1>3. ~Barred(f) => ~Barred(g)
  BY <1>1, <1>2 DEF Barred
<1>4. SatelliteUsed(f) => SatelliteUsed(g)
  BY <1>1, <1>2 DEF SatelliteUsed
<1>5. (Wrapped(f) <=> Wrapped(g)) /\ (Unwraps(f) <=> Unwraps(g))
  BY <1>1 DEF Wrapped, Unwraps, Loop, Nested
<1>6. FilterReasons(EffectiveView(f)) = FilterReasons(EffectiveView(g))
  <2>1. CASE Unwraps(g)
    BY <1>1, <1>5, <2>1 DEF EffectiveView
  <2>2. CASE ~Unwraps(g)
    <3>1. EffectiveView(f) = f /\ EffectiveView(g) = g
      BY <1>5, <2>2 DEF EffectiveView
    <3> QED
      BY <1>1, <3>1, FiltersSame
  <2> QED
    BY <2>1, <2>2
<1> QED
  BY <1>3, <1>4, <1>5, <1>6

\* A frame the gate lets through is one the log lets through, with nothing in it that has to
\* be kept off the Internet.
LEMMA GatedPasses ==
  ASSUME NEW f, NEW g \in Traffic, Rewritten(f, g), FirstOf(Early(f)) = "none",
         FirstOf(Late(f)) = "none", g.src \notin Unconfigured
  PROVE  /\ LogAccepts(g)
         /\ \A p \in {g.path, LineOf(f).path} : \A i \in DOMAIN p : p[i].call # "tcpip"
         /\ \A i \in DOMAIN g.path : g.path[i].call # "nogate"
         /\ \A i \in DOMAIN g.path : g.path[i].call = "sat" => g.path[i].used
         /\ LineOf(f).body.kind \notin {"query", "third"}
         /\ g.src \notin Placeholders \cup Unconfigured
<1>1. /\ ~Barred(f) /\ SatelliteUsed(f)
      /\ Wrapped(f) => Unwraps(f)
      /\ EffectiveView(f).body.kind # "query"
      /\ FirstOf(FilterReasons(EffectiveView(f))) = "none"
  BY LateReasons
<1>2. /\ ~Barred(g) /\ SatelliteUsed(g)
      /\ FirstOf(FilterReasons(EffectiveView(g))) = "none"
  BY <1>1, KeptThrough
<1>3. LogAccepts(g)
  BY <1>2 DEF LogAccepts
<1>4. LineOf(f).path = EffectiveView(f).path /\ LineOf(f).body = EffectiveView(f).body
  BY DEF LineOf
<1>5. \A i \in DOMAIN LineOf(f).path : LineOf(f).path[i].call # "tcpip"
  <2>1. CASE Unwraps(f)
    BY <1>4, <2>1 DEF EffectiveView, Unwraps, Loop
  <2>2. CASE ~Unwraps(f)
    BY <1>1, <1>4, <2>2 DEF EffectiveView, Barred
  <2> QED
    BY <2>1, <2>2
<1>6. LineOf(f).body.kind \notin {"query", "third"}
  <2>1. LineOf(f).body.kind # "third"
    <3>1. CASE Unwraps(f)
      BY <1>4, <3>1 DEF EffectiveView, Unwraps, Nested
    <3>2. CASE ~Unwraps(f)
      BY <1>1, <1>4, <3>2 DEF EffectiveView, Wrapped
    <3> QED
      BY <3>1, <3>2
  <2> QED
    BY <1>1, <1>4, <2>1
<1>7. g.src \notin Placeholders
  <2> DEFINE r == Early(f)
             e1 == <<f.src \in Placeholders, "placeholder">>
             e2 == <<~f.ui, "not APRS">>
  <2>1. e1[2] # "none" /\ e2[2] # "none" /\ (e1[1] <=> f.src \in Placeholders)
    OBVIOUS
  <2>2. r = <<e1, e2>>
    BY DEF Early
  <2> HIDE DEF r, e1, e2
  <2>3. DOMAIN r = 1 .. 2 /\ r[1] = e1 /\ r[2] = e2
    BY <2>2
  <2>4. \A i \in 1 .. 2 : i = 1 \/ i = 2
    OBVIOUS
  <2>5. \A i \in DOMAIN r : r[i][2] # "none"
    BY <2>1, <2>3, <2>4
  <2>6. FirstOf(r) = "none" /\ DOMAIN r \subseteq Nat
    BY <2>3 DEF r
  <2>7. \A i \in DOMAIN r : ~r[i][1]
    BY <2>5, <2>6, FirstOfNone
  <2>8. ~e1[1]
    BY <2>3, <2>7
  <2> QED
    BY <2>1, <2>8 DEF Rewritten
<1> QED
  BY <1>2, <1>3, <1>5, <1>6, <1>7 DEF Barred, SatelliteUsed

-----------------------------------------------------------------------------
(* The counters *)

LEMMA Counting ==
  ASSUME counts \in [Counters -> Nat], NEW which, Count(which)
  PROVE  /\ counts' \in [Counters -> Nat]
         /\ \A c \in Counters : counts'[c] = IF c \in which THEN counts[c] + 1 ELSE counts[c]
<1>1. counts' = [c \in Counters |-> counts[c] + (IF c \in which THEN 1 ELSE 0)]
  BY DEF Count
<1>2. \A c \in Counters : counts[c] + (IF c \in which THEN 1 ELSE 0)
                          = IF c \in which THEN counts[c] + 1 ELSE counts[c]
  OBVIOUS
<1> QED
  BY <1>1, <1>2

LEMMA CountersAre ==
  Counters = {"rx", "dup", "tx", "isTx", "messages", "drops"}
<1> QED
  BY DEF Counters

\* A step that counts nothing, and leaves nothing to be sent or the line there was.
LEMMA CountRests ==
  ASSUME TallyInv, counts' = counts, ownLines' = ownLines, stage' = "gated" <=> stage = "gated"
  PROVE  TallyInv'
<1> QED
  BY DEF TallyInv, Accounted

LEMMA JudgeCounts ==
  ASSUME TallyInv, stage = "repeated", ownLines' = ownLines,
         \/ stage' = "idle" /\ counts' = counts
         \/ stage' = "idle" /\ Count({"rx", "drops"})
         \/ stage' = "idle" /\ Count({"rx", "dup"})
         \/ stage' = "gated" /\ Count({"rx"})
  PROVE  TallyInv'
<1>0. /\ counts \in [Counters -> Nat] /\ ownLines \in Nat
      /\ counts["rx"] + ownLines = counts["dup"] + counts["isTx"] + counts["drops"]
      /\ counts["messages"] <= counts["tx"] /\ counts["tx"] <= counts["isTx"]
  BY CountersAre DEF TallyInv, Accounted
<1>1. /\ counts["rx"] \in Nat /\ counts["dup"] \in Nat /\ counts["isTx"] \in Nat /\ counts["drops"] \in Nat
      /\ counts["messages"] \in Nat /\ counts["tx"] \in Nat
  BY <1>0, CountersAre
<1>2. CASE stage' = "idle" /\ counts' = counts
  BY <1>0, <1>2, CountRests
<1>3. CASE stage' = "idle" /\ Count({"rx", "drops"})
  <2>1. counts' \in [Counters -> Nat]
        /\ counts'["rx"] = counts["rx"] + 1 /\ counts'["drops"] = counts["drops"] + 1
        /\ counts'["dup"] = counts["dup"] /\ counts'["isTx"] = counts["isTx"]
        /\ counts'["messages"] = counts["messages"] /\ counts'["tx"] = counts["tx"]
    BY <1>0, <1>3, Counting, CountersAre
  <2> QED
    BY <1>0, <1>1, <1>3, <2>1 DEF TallyInv, Accounted
<1>4. CASE stage' = "idle" /\ Count({"rx", "dup"})
  <2>1. counts' \in [Counters -> Nat]
        /\ counts'["rx"] = counts["rx"] + 1 /\ counts'["drops"] = counts["drops"]
        /\ counts'["dup"] = counts["dup"] + 1 /\ counts'["isTx"] = counts["isTx"]
        /\ counts'["messages"] = counts["messages"] /\ counts'["tx"] = counts["tx"]
    BY <1>0, <1>4, Counting, CountersAre
  <2> QED
    BY <1>0, <1>1, <1>4, <2>1 DEF TallyInv, Accounted
<1>5. CASE stage' = "gated" /\ Count({"rx"})
  <2>1. counts' \in [Counters -> Nat]
        /\ counts'["rx"] = counts["rx"] + 1 /\ counts'["drops"] = counts["drops"]
        /\ counts'["dup"] = counts["dup"] /\ counts'["isTx"] = counts["isTx"]
        /\ counts'["messages"] = counts["messages"] /\ counts'["tx"] = counts["tx"]
    BY <1>0, <1>5, Counting, CountersAre
  <2> QED
    BY <1>0, <1>1, <1>5, <2>1 DEF TallyInv, Accounted
<1> QED
  BY <1>2, <1>3, <1>4, <1>5

\* A line is sent or dropped: a frame's, or one of the station's own.
LEMMA SendCounts ==
  ASSUME TallyInv, NEW ok \in BOOLEAN, NEW ours, ours \in {{}, {"tx"}, {"tx", "messages"}},
         Count(SentCounts(ok, ours)),
         \/ stage = "gated" /\ stage' = "idle" /\ ownLines' = ownLines
         \/ (stage' = "gated" <=> stage = "gated") /\ ownLines' = ownLines + 1 /\ ours = {}
  PROVE  TallyInv'
<1> DEFINE pending == IF stage = "gated" THEN 1 ELSE 0
           pends == IF stage' = "gated" THEN 1 ELSE 0
<1>0. /\ counts \in [Counters -> Nat] /\ ownLines \in Nat
      /\ counts["messages"] <= counts["tx"] /\ counts["tx"] <= counts["isTx"]
  BY DEF TallyInv, Accounted
<1>a. counts["rx"] + ownLines = counts["dup"] + counts["isTx"] + counts["drops"] + pending
  BY CountersAre DEF TallyInv, Accounted
<1>b. PICK rx \in Nat, dup \in Nat, arrived \in Nat, lost \in Nat, own \in Nat, old \in Nat :
        /\ rx = counts["rx"] /\ dup = counts["dup"] /\ arrived = counts["isTx"] /\ lost = counts["drops"]
        /\ own = ownLines /\ old = pending
  BY <1>0, CountersAre
<1>1. /\ counts["rx"] \in Nat /\ counts["dup"] \in Nat /\ counts["isTx"] \in Nat /\ counts["drops"] \in Nat
      /\ counts["messages"] \in Nat /\ counts["tx"] \in Nat
  BY <1>0, CountersAre
<1>2. PICK owns \in Nat, next \in Nat :
        owns = ownLines' /\ next = pends
  BY <1>0
<1>c. owns + old = own + next + 1
  <2>1. CASE stage = "gated" /\ stage' = "idle" /\ ownLines' = ownLines
    <3>1. old = 1 /\ next = 0 /\ owns = own
      BY <1>b, <1>2, <2>1
    <3> QED
      BY <3>1
  <2>2. CASE (stage' = "gated" <=> stage = "gated") /\ ownLines' = ownLines + 1 /\ ours = {}
    <3>1. old = next
      BY <1>b, <1>2, <2>2
    <3>2. owns = own + 1
      BY <1>b, <1>2, <2>2
    <3> QED
      BY <3>1, <3>2
  <2> QED
    BY <2>1, <2>2
<1>3. counts' \in [Counters -> Nat]
      /\ \A c \in Counters : counts'[c] = IF c \in SentCounts(ok, ours) THEN counts[c] + 1 ELSE counts[c]
  BY <1>0, Counting
<1> HIDE DEF pending, pends
<1>4. CASE ok
  <2>1. SentCounts(ok, ours) = {"isTx"} \cup ours
    BY <1>4 DEF SentCounts
  <2>2. counts'["rx"] = counts["rx"] /\ counts'["drops"] = counts["drops"]
        /\ counts'["dup"] = counts["dup"] /\ counts'["isTx"] = counts["isTx"] + 1
    BY <1>3, <2>1, CountersAre
  <2>3. counts'["messages"] <= counts'["tx"] /\ counts'["tx"] <= counts'["isTx"]
    <3>1. CASE ours = {}
      BY <1>0, <1>1, <1>3, <2>1, <2>2, <3>1, CountersAre
    <3>2. CASE ours = {"tx"}
      BY <1>0, <1>1, <1>3, <2>1, <2>2, <3>2, CountersAre
    <3>3. CASE ours = {"tx", "messages"}
      BY <1>0, <1>1, <1>3, <2>1, <2>2, <3>3, CountersAre
    <3> QED
      BY <3>1, <3>2, <3>3
  <2>4. counts'["rx"] + ownLines' = counts'["dup"] + counts'["isTx"] + counts'["drops"] + pends
    <3>1. rx + own = dup + arrived + lost + old
      BY <1>a, <1>b
    <3>2. rx + owns = dup + (arrived + 1) + lost + next
      BY <1>c, <3>1
    <3> QED
      BY <1>b, <1>2, <2>2, <3>2
  <2> QED
    BY <1>2, <1>3, <2>3, <2>4 DEF TallyInv, Accounted, pends
<1>5. CASE ~ok
  <2>1. SentCounts(ok, ours) = {"drops"}
    BY <1>5 DEF SentCounts
  <2>2. counts'["rx"] = counts["rx"] /\ counts'["drops"] = counts["drops"] + 1
        /\ counts'["dup"] = counts["dup"] /\ counts'["isTx"] = counts["isTx"]
        /\ counts'["messages"] = counts["messages"] /\ counts'["tx"] = counts["tx"]
    BY <1>3, <2>1, CountersAre
  <2>4. counts'["rx"] + ownLines' = counts'["dup"] + counts'["isTx"] + counts'["drops"] + pends
    <3>1. rx + own = dup + arrived + lost + old
      BY <1>a, <1>b
    <3>2. rx + owns = dup + arrived + (lost + 1) + next
      BY <1>c, <3>1
    <3> QED
      BY <1>b, <1>2, <2>2, <3>2
  <2> QED
    BY <1>0, <1>2, <1>3, <2>2, <2>4 DEF TallyInv, Accounted, pends
<1> QED
  BY <1>4, <1>5

-----------------------------------------------------------------------------
(* The steps *)

\* On the same settings the log says the same of a frame.
LEMMA SettingsStay ==
  ASSUME config' = config, NEW f
  PROVE  LogAccepts(f)' <=> LogAccepts(f)
<1>1. ASSUME NEW g PROVE FilterReasons(g)' = FilterReasons(g)
  BY DEF FilterReasons, On, Budlist
<1>2. EffectiveView(f)' = EffectiveView(f) /\ (SatelliteUsed(f)' <=> SatelliteUsed(f))
  BY DEF EffectiveView, Unwraps, Wrapped, Loop, Nested, SatelliteUsed
<1>3. FilterReasons(EffectiveView(f))' = FilterReasons(EffectiveView(f))
  BY <1>1, <1>2
<1>4. (FirstOf(FilterReasons(EffectiveView(f))) = "none")'
        <=> FirstOf(FilterReasons(EffectiveView(f))) = "none"
  BY <1>3
<1>5. On("logFiltered")' <=> On("logFiltered")
  BY DEF On
<1> QED
  BY <1>2, <1>4, <1>5 DEF LogAccepts

\* A step that leaves the frame in hand as it is.
LEMMA HandRests ==
  ASSUME HandInv, Passed, still \in BOOLEAN, UNCHANGED <<stage, frame, tnc2, received, shown>>,
         still' = FALSE \/ (still' = still /\ config' = config)
  PROVE  HandInv' /\ Passed'
<1>1. still' => still /\ (LogAccepts(received)' <=> LogAccepts(received))
  BY SettingsStay
<1>2. Rewritten(frame, received)' <=> Rewritten(frame, received)
  BY DEF Rewritten
<1>3. HandInv'
  BY <1>1, <1>2 DEF HandInv
<1>4. KeptOff' <=> KeptOff
  BY DEF KeptOff
<1>5. Passed'
  BY <1>1, <1>4 DEF Passed
<1> QED
  BY <1>3, <1>5

\* With no frame in hand there is nothing to keep.
LEMMA HandEmpty ==
  ASSUME stage' = "idle"
  PROVE  HandInv' /\ Passed'
<1> QED
  BY DEF HandInv, Passed

LEMMA ReceiveKeeps ==
  ASSUME GateUpInv, NEW f \in Traffic, Receive(f)
  PROVE  GateUpInv'
<1>0. stage = "idle" /\ TallyInv
  BY DEF GateUpInv, Receive
<1>1. CASE f.src \in Unconfigured
  <2>1. stage' = "idle" /\ still' = TRUE /\ shown' = FALSE /\ counts' = counts /\ ownLines' = ownLines
    BY <1>1 DEF Receive, Idle
  <2>2. TallyInv'
    BY <1>0, <2>1, CountRests
  <2> QED
    BY <2>1, <2>2, HandEmpty DEF GateUpInv
<1>2. CASE f.src \notin Unconfigured
  <2>1. /\ stage' = "heard" /\ frame' = f /\ received' = f
        /\ shown' = LogAccepts(f) /\ still' = TRUE /\ config' = config
        /\ counts' = counts /\ ownLines' = ownLines
    BY <1>2 DEF Receive, settings
  <2>2. TallyInv'
    BY <1>0, <2>1, CountRests
  <2>3. shown' \in BOOLEAN /\ (LogAccepts(f) => shown')
    BY <2>1 DEF LogAccepts
  <2>4. HandInv'
    <3>1. LogAccepts(f)' <=> LogAccepts(f)
      BY <2>1, SettingsStay
    <3>2. Rewritten(frame, received)'
      BY <2>1 DEF Rewritten
    <3> QED
      BY <1>2, <2>1, <2>3, <3>1, <3>2 DEF HandInv
  <2>5. Passed'
    BY <2>1 DEF Passed
  <2> QED
    BY <2>1, <2>2, <2>3, <2>4, <2>5 DEF GateUpInv
<1> QED
  BY <1>1, <1>2

LEMMA DigipeatKeeps ==
  ASSUME GateUpInv, Digipeat
  PROVE  GateUpInv'
<1>0. TallyInv /\ HandInv /\ still \in BOOLEAN /\ shown \in BOOLEAN
  BY DEF GateUpInv
<1>1. stage = "heard" /\ stage' = "repeated" /\ counts' = counts /\ ownLines' = ownLines
      /\ shown' = shown /\ received' = received /\ still' = still /\ config' = config
  BY DEF Digipeat, settings, bounds
<1>2. TallyInv'
  BY <1>0, <1>1, CountRests
<1>3. received \in Traffic /\ received.src \notin Unconfigured /\ frame = received
      /\ (still => (LogAccepts(received) => shown))
  BY <1>0, <1>1 DEF HandInv
<1>4. Rewritten(frame', received)
  <2>1. CASE Repeatable(frame.path)
             /\ frame' = [frame EXCEPT !.path[Next1(frame.path)] = [call |-> "own", used |-> TRUE]]
    BY <1>3, <2>1, RepeatRewrites
  <2>2. CASE frame' = frame
    BY <1>3, <2>2 DEF Rewritten
  <2> QED
    BY <2>1, <2>2 DEF Digipeat
<1>5. LogAccepts(received)' <=> LogAccepts(received)
  BY <1>1, SettingsStay
<1>6. HandInv'
  <2>1. Rewritten(frame, received)'
    BY <1>1, <1>4 DEF Rewritten
  <2> QED
    BY <1>1, <1>3, <1>5, <2>1 DEF HandInv
<1> QED
  BY <1>0, <1>1, <1>2, <1>6 DEF GateUpInv, Passed

LEMMA JudgeKeeps ==
  ASSUME GateUpInv, Judge
  PROVE  GateUpInv'
<1>0. TallyInv /\ HandInv /\ still \in BOOLEAN /\ shown \in BOOLEAN
  BY DEF GateUpInv
<1>1. stage = "repeated" /\ config' = config /\ ownLines' = ownLines
  BY DEF Judge, settings, bounds
<1>2. \/ Idle /\ counts' = counts
      \/ Idle /\ Count({"rx", "drops"})
      \/ Idle /\ Count({"rx", "dup"})
      \/ /\ FirstOf(Early(frame)) = "none" /\ FirstOf(Late(frame)) = "none"
         /\ stage' = "gated" /\ tnc2' = LineOf(frame) /\ Count({"rx"})
         /\ UNCHANGED <<frame, shown, received, still>>
  BY DEF Judge
<1>3. TallyInv'
  <2>1. \/ stage' = "idle" /\ counts' = counts
        \/ stage' = "idle" /\ Count({"rx", "drops"})
        \/ stage' = "idle" /\ Count({"rx", "dup"})
        \/ stage' = "gated" /\ Count({"rx"})
    BY <1>2 DEF Idle
  <2> QED
    BY <1>0, <1>1, <2>1, JudgeCounts
<1>4. CASE Idle
  <2>1. stage' = "idle" /\ still' = TRUE /\ shown' = FALSE
    BY <1>4 DEF Idle
  <2> QED
    BY <1>3, <2>1, HandEmpty DEF GateUpInv
<1>5. CASE /\ FirstOf(Early(frame)) = "none" /\ FirstOf(Late(frame)) = "none"
           /\ stage' = "gated" /\ tnc2' = LineOf(frame)
           /\ UNCHANGED <<frame, shown, received, still>>
  <2>1. received \in Traffic /\ received.src \notin Unconfigured /\ Rewritten(frame, received)
        /\ (still => (LogAccepts(received) => shown))
    BY <1>0, <1>1 DEF HandInv
  <2>2. /\ LogAccepts(received)
        /\ \A p \in {received.path, tnc2'.path} : \A i \in DOMAIN p : p[i].call # "tcpip"
        /\ \A i \in DOMAIN received.path : received.path[i].call # "nogate"
        /\ \A i \in DOMAIN received.path : received.path[i].call = "sat" => received.path[i].used
        /\ tnc2'.body.kind \notin {"query", "third"}
        /\ received.src \notin Placeholders \cup Unconfigured
    BY <1>5, <2>1, GatedPasses
  <2>3. LogAccepts(received)' <=> LogAccepts(received)
    BY <1>1, <1>5, SettingsStay
  <2>4. HandInv'
    <3>1. Rewritten(frame, received)'
      BY <1>5, <2>1 DEF Rewritten
    <3> QED
      BY <1>5, <2>1, <2>3, <3>1 DEF HandInv
  <2>5. KeptOff'
    BY <1>5, <2>2 DEF KeptOff
  <2>6. Passed'
    BY <2>2, <2>3, <2>5 DEF Passed
  <2> QED
    BY <1>0, <1>3, <1>5, <2>4, <2>6 DEF GateUpInv
<1> QED
  BY <1>2, <1>4, <1>5

LEMMA SendLineKeeps ==
  ASSUME GateUpInv, SendLine
  PROVE  GateUpInv'
<1>1. stage = "gated" /\ stage' = "idle" /\ ownLines' = ownLines /\ still' = TRUE /\ shown' = FALSE
  BY DEF SendLine, Idle, bounds
<1>2. TallyInv'
  <2> DEFINE ours == {"tx"} \cup (IF tnc2.body.kind = "message" THEN {"messages"} ELSE {})
  <2>1. ours \in {{}, {"tx"}, {"tx", "messages"}}
    OBVIOUS
  <2>2. PICK ok \in BOOLEAN : Count(SentCounts(ok, ours))
    BY DEF SendLine
  <2> HIDE DEF ours
  <2> QED
    BY <1>1, <2>1, <2>2, SendCounts DEF GateUpInv
<1> QED
  BY <1>1, <1>2, HandEmpty DEF GateUpInv

LEMMA SendOwnKeeps ==
  ASSUME GateUpInv, SendOwn
  PROVE  GateUpInv'
<1>1. ownLines' = ownLines + 1 /\ UNCHANGED <<stage, frame, tnc2, received, shown, still, config>>
  BY DEF SendOwn, hand, settings
<1>2. TallyInv'
  <2>1. PICK ok \in BOOLEAN : Count(SentCounts(ok, {}))
    BY DEF SendOwn
  <2> QED
    BY <1>1, <2>1, SendCounts DEF GateUpInv
<1>3. HandInv' /\ Passed'
  BY <1>1, HandRests DEF GateUpInv
<1> QED
  BY <1>1, <1>2, <1>3 DEF GateUpInv

LEMMA GateUpStart == UplinkInit => GateUpInv
<1> SUFFICES ASSUME UplinkInit PROVE GateUpInv
  OBVIOUS
<1>1. stage = "idle" /\ shown = FALSE /\ still = TRUE
  BY DEF UplinkInit
<1>2. HandInv /\ Passed
  BY <1>1 DEF HandInv, Passed
<1>3. TallyInv
  <2>1. counts \in [Counters -> Nat] /\ ownLines \in Nat
    BY DEF UplinkInit
  <2>2. Accounted
    BY <1>1, CountersAre DEF UplinkInit, Accounted
  <2> QED
    BY <2>1, <2>2 DEF TallyInv
<1> QED
  BY <1>1, <1>2, <1>3 DEF GateUpInv

LEMMA GateUpStep == GateUpInv /\ [UplinkNext]_uplinkVars => GateUpInv'
<1> SUFFICES ASSUME GateUpInv, [UplinkNext]_uplinkVars PROVE GateUpInv'
  OBVIOUS
<1>a. ASSUME UNCHANGED <<stage, frame, tnc2, received, shown, counts, ownLines>>,
             still' = FALSE \/ (still' = still /\ config' = config)
      PROVE  GateUpInv'
  <2>1. TallyInv'
    BY <1>a, CountRests DEF GateUpInv
  <2>2. HandInv' /\ Passed'
    BY <1>a, HandRests DEF GateUpInv
  <2>3. still' \in BOOLEAN /\ shown' \in BOOLEAN
    BY <1>a DEF GateUpInv
  <2> QED
    BY <1>a, <2>1, <2>2, <2>3 DEF GateUpInv
<1>1. CASE \E f \in Traffic : Receive(f)
  BY <1>1, ReceiveKeeps
<1>2. CASE Digipeat
  BY <1>2, DigipeatKeeps
<1>3. CASE Judge
  BY <1>3, JudgeKeeps
<1>4. CASE SendLine
  BY <1>4, SendLineKeeps
<1>5. CASE SendOwn
  BY <1>5, SendOwnKeeps
<1>6. CASE \E c \in Online : ServerLine(c)
  BY <1>6, <1>a DEF ServerLine, hand, settings
<1>7. CASE SavePage
  BY <1>7, <1>a DEF SavePage, bounds
<1>8. CASE Forget
  BY <1>8, <1>a DEF Forget, hand, settings, bounds
<1>9. CASE Clock
  BY <1>9, <1>a DEF Clock, hand, settings, bounds
<1>10. CASE UNCHANGED uplinkVars
  BY <1>10, <1>a DEF uplinkVars, hand, settings, bounds
<1> QED
  BY <1>1, <1>2, <1>3, <1>4, <1>5, <1>6, <1>7, <1>8, <1>9, <1>10 DEF UplinkNext

\* While the log is filtered what goes to the server was shown; every frame considered is
\* counted once, as a duplicate, as sent or as dropped; and what was on the Internet, asked to
\* stay off it or is a query to everybody does not reach the server, wrapped or not: for any
\* frames, settings and page saves, with the digipeater between the log and the gate
\* (igate.c:534-1076, aprs_service.c:779-931).
THEOREM UplinkGateKept == UplinkSpec => []UplinkSound
<1>1. UplinkInit => GateUpInv
  BY GateUpStart
<1>2. GateUpInv => UplinkSound
  <2> SUFFICES ASSUME GateUpInv PROVE UplinkSound
    OBVIOUS
  <2>1. GatedIsShown
    BY DEF GateUpInv, HandInv, Passed, GatedIsShown
  <2>2. KeptOff
    BY DEF GateUpInv, Passed, KeptOff
  <2>3. Accounted
    BY DEF GateUpInv, TallyInv
  <2> QED
    BY <2>1, <2>2, <2>3 DEF UplinkSound
<1> QED
  BY <1>1, <1>2, GateUpStep, PTL DEF UplinkSpec

-----------------------------------------------------------------------------
(* What the gate promises                                                  *)

\* Every row of a station says this many hops, if the air stamped it.
SaysHops(list, call, n) ==
  \A i \in HeardRows(list, call) : list[i].rf # 0 => list[i].hops = n

\* The table is one, and says of the sender in hand what his frame said.
TableInv ==
  /\ now \in Nat /\ heard \in Seq(Row) /\ OneRowEach(heard)
  /\ stage \in {"heard", "repeated"} => SaysHops(heard, received.src, Hops(received))

\* The sender of a frame from the air is in the table with that frame's hops.
LEMMA AirSays ==
  ASSUME NEW list \in Seq(Row), OneRowEach(list), NEW time \in Nat, NEW c \in Calls,
         NEW told, FrameTold(told), told.rf
  PROVE  SaysHops(Added(list, time, c, told), c, told.hops)
<1> DEFINE new == Added(list, time, c, told)
           h == HeardRow(list, c)
<1>1. /\ new[1] = Stamped(h, time, told)
      /\ \A j \in DOMAIN new : j # 1 => new[j].call # c
  BY AddedIs
<1>2. h \in Row
  BY HeardRowIs
<1> HIDE DEF new, h
<1>3. Stamped(h, time, told).hops = told.hops
  BY <1>2, StampedIsRow
<1>4. ASSUME NEW i \in HeardRows(new, c) PROVE new[i].hops = told.hops
  BY <1>1, <1>3 DEF HeardRows
<1> QED
  BY <1>4 DEF SaysHops, new

\* A line of the server leaves that as it is, whoever it is from.
LEMMA ServerSays ==
  ASSUME NEW list \in Seq(Row), OneRowEach(list), NEW time \in Nat, NEW c \in Calls,
         NEW told, FrameTold(told), ~told.rf, NEW d, NEW n, SaysHops(list, d, n)
  PROVE  SaysHops(Added(list, time, c, told), d, n)
<1> DEFINE new == Added(list, time, c, told)
           h == HeardRow(list, c)
<1>1. /\ new[1] = Stamped(h, time, told) /\ new[1].call = c
      /\ \A j \in DOMAIN new : j # 1 => \E i \in DOMAIN list : list[i] = new[j]
  BY AddedIs
<1>2. /\ h \in Row
      /\ \A i \in DOMAIN list : list[i].call = c => h = list[i]
      /\ HeardRows(list, c) = {} => h.rf = 0
  BY HeardRowIs
<1> HIDE DEF new, h
<1>3. Stamped(h, time, told).rf = h.rf /\ Stamped(h, time, told).hops = h.hops
  BY <1>2, StampedIsRow
<1>4. ASSUME NEW i \in HeardRows(new, d), new[i].rf # 0
      PROVE  new[i].hops = n
  <2>1. i \in DOMAIN new /\ new[i].call = d
    BY DEF HeardRows
  <2>2. CASE i = 1
    <3>1. h.rf # 0 /\ d = c /\ new[i].hops = h.hops
      BY <1>1, <1>3, <1>4, <2>1, <2>2
    <3>2. PICK k \in HeardRows(list, c) : TRUE
      BY <1>2, <3>1
    <3>3. k \in HeardRows(list, d) /\ h = list[k]
      BY <1>2, <3>1, <3>2 DEF HeardRows
    <3> QED
      BY <3>1, <3>3 DEF SaysHops
  <2>3. CASE i # 1
    <3>1. PICK k \in DOMAIN list : list[k] = new[i]
      BY <1>1, <2>1, <2>3
    <3>2. k \in HeardRows(list, d)
      BY <2>1, <3>1 DEF HeardRows
    <3> QED
      BY <1>4, <3>1, <3>2 DEF SaysHops
  <2> QED
    BY <2>2, <2>3
<1> QED
  BY <1>4 DEF SaysHops, new

\* A frame used a number of its hops.
LEMMA HopsAre ==
  ASSUME NEW f \in Traffic
  PROVE  Hops(f) \in Nat /\ f.src \in Calls
<1>1. f \in [src : Calls, path : Seq(Hop), body : {f.body}, ui : BOOLEAN, short : BOOLEAN, long : BOOLEAN]
  BY UplinkAssumption
<1>2. f.src \in Calls /\ f.path \in Seq(Hop)
  BY <1>1
<1> DEFINE used == {i \in DOMAIN f.path : f.path[i].used}
<1>3. IsFiniteSet(1 .. Len(f.path)) /\ used \subseteq 1 .. Len(f.path)
  <2>1. Len(f.path) \in Nat /\ DOMAIN f.path = 1 .. Len(f.path)
    BY <1>2
  <2> QED
    BY <2>1, FS_Interval
<1>4. IsFiniteSet(used)
  <2> HIDE DEF used
  <2> QED
    BY <1>3, FS_Subset
<1>5. Cardinality(used) \in Nat
  <2> HIDE DEF used
  <2> QED
    BY <1>4, FS_CardinalityType
<1> QED
  BY <1>2, <1>5 DEF Hops

LEMMA TableStart == UplinkInit => TableInv
<1> SUFFICES ASSUME UplinkInit PROVE TableInv
  OBVIOUS
<1>1. heard = <<>> /\ now = 1 /\ stage = "idle"
  BY DEF UplinkInit
<1>2. heard \in Seq(Row) /\ DOMAIN heard = {}
  BY <1>1
<1> QED
  BY <1>1, <1>2 DEF TableInv, OneRowEach

\* A step that leaves the table and the frame in hand, or lets the frame go.
LEMMA TableRests ==
  ASSUME TableInv, heard' = heard, now' \in Nat,
         \/ stage' \in {"idle", "gated"}
         \/ stage \in {"heard", "repeated"} /\ received' = received
         \/ stage' = stage /\ received' = received
  PROVE  TableInv'
<1>1. heard' \in Seq(Row) /\ OneRowEach(heard')
  BY DEF TableInv
<1>2. stage' \in {"heard", "repeated"} =>
        stage \in {"heard", "repeated"} /\ received' = received
  OBVIOUS
<1>3. stage' \in {"heard", "repeated"} => SaysHops(heard', received'.src, Hops(received'))
  BY <1>2 DEF TableInv
<1>4. Hops(received)' = Hops(received') /\ SaysHops(heard, received.src, Hops(received))'
        = SaysHops(heard', received'.src, Hops(received'))
  BY DEF Hops, SaysHops, HeardRows
<1>5. OneRowEach(heard)' <=> OneRowEach(heard')
  BY DEF OneRowEach
<1> QED
  BY <1>1, <1>3, <1>4, <1>5 DEF TableInv

LEMMA ReceiveTells ==
  ASSUME TableInv, NEW f \in Traffic, Receive(f)
  PROVE  TableInv'
<1> DEFINE told == [rf |-> TRUE, direct |-> Hops(f) = 0, hops |-> Hops(f), tcpip |-> FALSE, bm |-> FALSE]
<1>1. heard' = Added(heard, now, f.src, told) /\ now' = now
  BY DEF Receive
<1>2. Hops(f) \in Nat /\ f.src \in Calls
  BY HopsAre
<1>3. FrameTold(told) /\ told.rf /\ told.hops = Hops(f)
  BY <1>2 DEF FrameTold
<1>4. now \in Nat /\ heard \in Seq(Row) /\ OneRowEach(heard)
  BY DEF TableInv
<1> HIDE DEF told
<1>5. heard' \in Seq(Row) /\ OneRowEach(heard')
  BY <1>1, <1>2, <1>3, <1>4, AddedIs
<1>6. SaysHops(heard', f.src, Hops(f))
  BY <1>1, <1>2, <1>3, <1>4, AirSays
<1>7. stage' = "idle" \/ received' = f
  BY DEF Receive, Idle
<1>8. stage' \in {"heard", "repeated"} => SaysHops(heard', received'.src, Hops(received'))
  BY <1>6, <1>7
<1> QED
  BY <1>1, <1>4, <1>5, <1>8 DEF TableInv

LEMMA ServerTells ==
  ASSUME TableInv, NEW c \in Online, ServerLine(c)
  PROVE  TableInv'
<1> DEFINE told == [rf |-> FALSE, direct |-> FALSE, hops |-> 0, tcpip |-> TRUE, bm |-> FALSE]
<1>1. heard' = Added(heard, now, c, told) /\ now' = now /\ stage' = stage /\ received' = received
  BY DEF ServerLine, hand
<1>2. FrameTold(told) /\ ~told.rf /\ c \in Calls
  BY UplinkAssumption DEF FrameTold
<1>3. now \in Nat /\ heard \in Seq(Row) /\ OneRowEach(heard)
  BY DEF TableInv
<1> HIDE DEF told
<1>4. heard' \in Seq(Row) /\ OneRowEach(heard')
  BY <1>1, <1>2, <1>3, AddedIs
<1>5. ASSUME stage' \in {"heard", "repeated"}
      PROVE  SaysHops(heard', received'.src, Hops(received'))
  <2>1. SaysHops(heard, received.src, Hops(received))
    BY <1>1, <1>5 DEF TableInv
  <2> QED
    BY <1>1, <1>2, <1>3, <2>1, ServerSays
<1> QED
  BY <1>1, <1>3, <1>4, <1>5 DEF TableInv

LEMMA TableStep == TableInv /\ [UplinkNext]_uplinkVars => TableInv'
<1> SUFFICES ASSUME TableInv, [UplinkNext]_uplinkVars PROVE TableInv'
  OBVIOUS
<1>0. now \in Nat
  BY DEF TableInv
<1>1. CASE \E f \in Traffic : Receive(f)
  BY <1>1, ReceiveTells
<1>2. CASE Digipeat
  <2>1. heard' = heard /\ now' = now /\ stage = "heard" /\ received' = received
    BY <1>2 DEF Digipeat
  <2> QED
    BY <1>0, <2>1, TableRests
<1>3. CASE Judge
  <2>1. heard' = heard /\ now' = now /\ (stage' = "idle" \/ stage' = "gated")
    BY <1>3 DEF Judge, Idle
  <2> QED
    BY <1>0, <2>1, TableRests
<1>4. CASE SendLine
  <2>1. heard' = heard /\ now' = now /\ stage' = "idle"
    BY <1>4 DEF SendLine, Idle
  <2> QED
    BY <1>0, <2>1, TableRests
<1>5. CASE \E c \in Online : ServerLine(c)
  BY <1>5, ServerTells
<1>6. CASE Clock
  <2>1. heard' = heard /\ stage' = stage /\ received' = received
    BY <1>6 DEF Clock, hand
  <2>2. now' \in Nat
    BY <1>0, <1>6, HeardNumbers DEF Clock, ClockRuns, ClockSet
  <2> QED
    BY <2>1, <2>2, TableRests
<1>7. CASE SendOwn \/ SavePage \/ Forget \/ UNCHANGED uplinkVars
  <2>1. heard' = heard /\ now' = now /\ stage' = stage /\ received' = received
    BY <1>7 DEF SendOwn, SavePage, Forget, uplinkVars, hand
  <2> QED
    BY <1>0, <2>1, TableRests
<1> QED
  BY <1>1, <1>2, <1>3, <1>4, <1>5, <1>6, <1>7 DEF UplinkNext

\* Only the judgement gates, and what it gates is in hand.
LEMMA OnlyJudged ==
  ASSUME [UplinkNext]_uplinkVars, stage # "gated", stage' = "gated"
  PROVE  stage = "repeated" /\ tnc2' = LineOf(frame)
<1>1. Judge
  <2>1. ~(\E f \in Traffic : Receive(f)) /\ ~Digipeat /\ ~SendLine
    BY DEF Receive, Idle, Digipeat, SendLine
  <2>2. ~SendOwn /\ ~(\E c \in Online : ServerLine(c)) /\ ~SavePage /\ ~Forget /\ ~Clock
        /\ ~UNCHANGED uplinkVars
    BY DEF SendOwn, ServerLine, SavePage, Forget, Clock, uplinkVars, hand
  <2> QED
    BY <2>1, <2>2 DEF UplinkNext
<1> QED
  BY <1>1 DEF Judge, Idle

\* Whoever is gated as qAR, directly and from within the hops messages are gated over, would
\* be sent a message that came for him now, unless the table gave up his row or it aged while
\* the digipeater was at work: for any frames, table size, windows, lines of the server and
\* settings (igate.c:843-858, aprs_service.c:779-931).
THEOREM PromiseHolds == UplinkSpec => PromiseWithinReach
<1>1. GateUpInv /\ TableInv /\ [UplinkNext]_uplinkVars =>
        (Promises /\ PlainFromWithin => Deliverable(tnc2'.src))
  <2> SUFFICES ASSUME GateUpInv, TableInv, [UplinkNext]_uplinkVars, Promises, PlainFromWithin
               PROVE  Deliverable(tnc2'.src)
    OBVIOUS
  <2>1. stage = "repeated" /\ tnc2' = LineOf(frame) /\ tnc2'.q = "qAR"
    BY OnlyJudged DEF Promises
  <2>2. EffectiveView(frame) = frame
    BY DEF PlainFromWithin, EffectiveView, Unwraps
  <2>3. tnc2'.src = frame.src /\ QConstruct(frame.src) = "qAR"
    BY <2>1, <2>2 DEF LineOf
  <2>4. ~HeardInet(heard, now, frame.src, Window)
    BY <2>3 DEF QConstruct
  <2>5. frame.src = received.src /\ received \in Traffic
    BY <2>1 DEF GateUpInv, HandInv, Rewritten
  <2>6. Hops(received) <= MaxHops /\ Recent(now, HeardRow(heard, frame.src).rf, Window)
    BY <2>3 DEF PlainFromWithin
  <2>7. HeardRows(heard, frame.src) # {}
    <3>1. HeardRow(heard, frame.src).rf # 0
      BY <2>6 DEF Recent
    <3>2. frame.src \in Calls /\ heard \in Seq(Row) /\ OneRowEach(heard)
      BY <2>5, HopsAre DEF TableInv
    <3> QED
      BY <3>1, <3>2, HeardRowIs
  <2>8. PICK k \in HeardRows(heard, frame.src) : HeardRow(heard, frame.src) = heard[k]
    BY <2>7 DEF HeardRow
  <2>9. Recent(now, heard[k].rf, Window) /\ heard[k].rf # 0
    BY <2>6, <2>8 DEF Recent
  <2>10. heard[k].hops = Hops(received)
    BY <2>1, <2>5, <2>8, <2>9 DEF TableInv, SaysHops
  <2>11. HeardRf(heard, now, frame.src, Window, MaxHops)
    BY <2>6, <2>8, <2>9, <2>10 DEF HeardRf
  <2> QED
    BY <2>3, <2>4, <2>11 DEF Deliverable
<1>2. UplinkInit => GateUpInv
  BY GateUpStart
<1> QED
  BY <1>1, <1>2, TableStart, TableStep, GateUpStep, PTL DEF UplinkSpec, PromiseWithinReach

-----------------------------------------------------------------------------
(* The lines off the socket of one session *)

\* The letters since the last end of a line are the last t of the stream.
Hanging(s, t) ==
  /\ t \in 0 .. Len(s)
  /\ \A k \in DOMAIN s : k > Len(s) - t => s[k] # "end"
  /\ t < Len(s) => s[Len(s) - t] = "end"

\* The run they are.
LastRun(s, t) == <<Len(s) - t + 1, Len(s)>>

LEMMA RunIs ==
  ASSUME NEW s \in Seq(Bytes), NEW r
  PROVE  r \in Runs(s) <=>
           \E a, b \in 1 .. Len(s) :
             /\ r = <<a, b>> /\ a <= b /\ \A k \in a .. b : s[k] # "end"
             /\ a > 1 => s[a - 1] = "end"
             /\ b < Len(s) => s[b + 1] = "end"
<1>1. DOMAIN s = 1 .. Len(s)
  OBVIOUS
<1>2. ASSUME r \in Runs(s)
      PROVE  \E a, b \in 1 .. Len(s) :
             /\ r = <<a, b>> /\ a <= b /\ \A k \in a .. b : s[k] # "end"
             /\ a > 1 => s[a - 1] = "end"
             /\ b < Len(s) => s[b + 1] = "end"
  BY <1>1, <1>2 DEF Runs
<1>3. ASSUME NEW a \in 1 .. Len(s), NEW b \in 1 .. Len(s),
             r = <<a, b>> /\ a <= b /\ (\A k \in a .. b : s[k] # "end"),
             a > 1 => s[a - 1] = "end",
             b < Len(s) => s[b + 1] = "end"
      PROVE  r \in Runs(s)
  <2>1. r \in (DOMAIN s) \X (DOMAIN s) /\ r[1] = a /\ r[2] = b
    BY <1>1, <1>3
  <2> QED
    BY <1>3, <2>1 DEF Runs
<1> QED
  BY <1>2, <1>3

\* What hangs over is the last run, and the only one that has not ended.
LEMMA OpenRun ==
  ASSUME NEW s \in Seq(Bytes), NEW t, Hanging(s, t)
  PROVE  /\ t # 0 => LastRun(s, t) \in Runs(s)
         /\ \A r \in Runs(s) : r[2] = Len(s) => t # 0 /\ r = LastRun(s, t)
<1>0. Len(s) \in Nat /\ t \in Nat /\ t <= Len(s) /\ DOMAIN s = 1 .. Len(s)
  BY DEF Hanging
<1>1. t # 0 => LastRun(s, t) \in Runs(s)
  <2> SUFFICES ASSUME t # 0 PROVE LastRun(s, t) \in Runs(s)
    OBVIOUS
  <2> DEFINE a == Len(s) - t + 1
             b == Len(s)
  <2>1. a \in 1 .. Len(s) /\ b \in 1 .. Len(s) /\ a <= b /\ a - 1 = Len(s) - t
    BY <1>0
  <2>2. \A k \in a .. b : s[k] # "end"
    BY <1>0 DEF Hanging
  <2>3. a > 1 => s[a - 1] = "end"
    BY <1>0, <2>1 DEF Hanging
  <2>4. ~(b < Len(s)) /\ LastRun(s, t) = <<a, b>>
    BY <1>0 DEF LastRun
  <2> HIDE DEF a, b
  <2> QED
    BY <2>1, <2>2, <2>3, <2>4, RunIs
<1>2. ASSUME NEW r \in Runs(s), r[2] = Len(s)
      PROVE  t # 0 /\ r = LastRun(s, t)
  <2>1. PICK a, b \in 1 .. Len(s) :
          /\ r = <<a, b>> /\ a <= b /\ \A k \in a .. b : s[k] # "end"
          /\ a > 1 => s[a - 1] = "end"
    BY <1>2, RunIs
  <2>2. b = Len(s)
    BY <1>2, <2>1
  <2>3. t # 0
    <3>1. t = 0 => s[Len(s)] = "end"
      BY <1>0, <2>1 DEF Hanging
    <3> QED
      BY <1>0, <2>1, <2>2, <3>1
  <2>4. ~(a < Len(s) - t + 1)
    <3> SUFFICES ASSUME a < Len(s) - t + 1 PROVE FALSE
      OBVIOUS
    <3>1. Len(s) - t \in a .. b /\ t < Len(s)
      BY <1>0, <2>1, <2>2, <2>3
    <3> QED
      BY <2>1, <3>1 DEF Hanging
  <2>5. ~(a > Len(s) - t + 1)
    <3> SUFFICES ASSUME a > Len(s) - t + 1 PROVE FALSE
      OBVIOUS
    <3>1. a - 1 \in DOMAIN s /\ a - 1 > Len(s) - t /\ a > 1
      BY <1>0, <2>1
    <3> QED
      BY <2>1, <3>1 DEF Hanging
  <2> QED
    BY <1>0, <2>1, <2>2, <2>3, <2>4, <2>5 DEF LastRun
<1> QED
  BY <1>1, <1>2

\* The end of a line ends the last run and begins none.
LEMMA RunsEnd ==
  ASSUME NEW s \in Seq(Bytes)
  PROVE  Runs(Append(s, "end")) = Runs(s) /\ Hanging(Append(s, "end"), 0)
<1> DEFINE z == Append(s, "end")
<1>1. /\ z \in Seq(Bytes) /\ Len(z) = Len(s) + 1 /\ Len(s) \in Nat
      /\ z[Len(z)] = "end" /\ \A k \in 1 .. Len(s) : z[k] = s[k]
  BY DEF Bytes
<1> HIDE DEF z
<1>2. ASSUME NEW r PROVE r \in Runs(z) <=> r \in Runs(s)
  <2>1. ASSUME r \in Runs(s) PROVE r \in Runs(z)
    <3>1. PICK a, b \in 1 .. Len(s) :
             /\ r = <<a, b>> /\ a <= b /\ \A k \in a .. b : s[k] # "end"
             /\ a > 1 => s[a - 1] = "end"
             /\ b < Len(s) => s[b + 1] = "end"
      BY <2>1, RunIs
    <3>2. a \in 1 .. Len(z) /\ b \in 1 .. Len(z)
      BY <1>1
    <3>3. \A k \in a .. b : z[k] # "end"
      BY SMTT(20), <1>1, <3>1
    <3>4. a > 1 => z[a - 1] = "end"
      BY <1>1, <3>1
    <3>5. z[b + 1] = "end"
      BY SMTT(20), <1>1, <3>1
    <3> QED
      BY <1>1, <3>1, <3>2, <3>3, <3>4, <3>5, RunIs
  <2>2. ASSUME r \in Runs(z) PROVE r \in Runs(s)
    <3>1. PICK a, b \in 1 .. Len(z) :
             /\ r = <<a, b>> /\ a <= b /\ \A k \in a .. b : z[k] # "end"
             /\ a > 1 => z[a - 1] = "end"
             /\ b < Len(z) => z[b + 1] = "end"
      BY ZenonT(30), <1>1, <2>2, RunIs
    <3>2. b # Len(z)
      BY <1>1, <3>1
    <3>3. a \in 1 .. Len(s) /\ b \in 1 .. Len(s)
      BY <1>1, <3>1, <3>2
    <3>4. \A k \in a .. b : s[k] # "end"
      BY <1>1, <3>1, <3>3
    <3>5. a > 1 => s[a - 1] = "end"
      BY <1>1, <3>1, <3>3
    <3>6. b < Len(s) => s[b + 1] = "end"
      BY <1>1, <3>1, <3>3
    <3> QED
      BY <3>1, <3>3, <3>4, <3>5, <3>6, RunIs
  <2> QED
    BY <2>1, <2>2
<1>3. Runs(z) = Runs(s)
  <2>1. Runs(z) \subseteq Runs(s) /\ Runs(s) \subseteq Runs(z)
    BY <1>2
  <2> QED
    BY <2>1
<1>4. Hanging(z, 0)
  BY <1>1 DEF Hanging
<1> QED
  BY <1>3, <1>4 DEF z

\* A letter makes the last run one longer, or begins one.
LEMMA RunsLetter ==
  ASSUME NEW s \in Seq(Bytes), NEW t, Hanging(s, t), NEW c \in Bytes, c # "end"
  PROVE  /\ Hanging(Append(s, c), t + 1)
         /\ Runs(Append(s, c)) = (Runs(s) \ {LastRun(s, t)}) \cup {LastRun(Append(s, c), t + 1)}
<1> DEFINE z == Append(s, c)
<1>0. Len(s) \in Nat /\ t \in Nat /\ t <= Len(s) /\ DOMAIN s = 1 .. Len(s)
  BY DEF Hanging
<1>1. /\ z \in Seq(Bytes) /\ Len(z) = Len(s) + 1 /\ DOMAIN z = 1 .. Len(s) + 1
      /\ z[Len(z)] = c /\ \A k \in 1 .. Len(s) : z[k] = s[k]
  OBVIOUS
<1> HIDE DEF z
<1>2. Hanging(z, t + 1)
  <2>1. t + 1 \in 0 .. Len(z) /\ Len(z) - (t + 1) = Len(s) - t
    BY <1>0, <1>1
  <2>2. ASSUME NEW k \in DOMAIN z, k > Len(s) - t PROVE z[k] # "end"
    <3>1. CASE k = Len(z)
      BY <1>1, <3>1
    <3>2. CASE k # Len(z)
      <4>1. k \in DOMAIN s /\ z[k] = s[k]
        BY <1>0, <1>1, <3>2
      <4> QED
        BY <2>2, <4>1 DEF Hanging
    <3> QED
      BY <3>1, <3>2
  <2>3. t + 1 < Len(z) => z[Len(s) - t] = "end"
    BY <1>0, <1>1 DEF Hanging
  <2> QED
    BY <2>1, <2>2, <2>3 DEF Hanging
<1>3. LastRun(z, t + 1) \in Runs(z) /\ LastRun(z, t + 1) = <<Len(s) - t + 1, Len(s) + 1>>
  <2>1. t + 1 # 0 /\ Len(z) - (t + 1) + 1 = Len(s) - t + 1
    BY <1>0, <1>1
  <2> QED
    BY <1>1, <1>2, <2>1, OpenRun DEF LastRun
<1>4. ASSUME NEW r \in Runs(s), r # LastRun(s, t) PROVE r \in Runs(z)
  <2>1. PICK a, b \in 1 .. Len(s) :
           /\ r = <<a, b>> /\ a <= b /\ \A k \in a .. b : s[k] # "end"
           /\ a > 1 => s[a - 1] = "end"
           /\ b < Len(s) => s[b + 1] = "end"
    BY <1>4, RunIs
  <2>2. b < Len(s)
    <3>1. r[2] = b
      BY <2>1
    <3>2. b # Len(s)
      BY <1>4, <3>1, OpenRun
    <3> DEFINE n == Len(s)
    <3>3. b # n
      BY <3>2
    <3>4. n \in Nat
      BY <1>0
    <3>5. b \in Nat
      OBVIOUS
    <3>6. b <= n
      BY <1>0
    <3> HIDE DEF n
    <3>7. b < n
      BY <3>3, <3>4, <3>5, <3>6
    <3> QED
      BY <3>7 DEF n
  <2>3. a \in 1 .. Len(z) /\ b \in 1 .. Len(z)
    BY <1>0, <1>1
  <2>4. \A k \in a .. b : z[k] # "end"
    BY <1>0, <1>1, <2>1
  <2>5. a > 1 => z[a - 1] = "end"
    BY <1>0, <1>1, <2>1
  <2>6. z[b + 1] = "end"
    BY <1>0, <1>1, <2>1, <2>2
  <2> QED
    BY <1>1, <2>1, <2>3, <2>4, <2>5, <2>6, RunIs
<1>5. ASSUME NEW r \in Runs(z), r # LastRun(z, t + 1)
      PROVE  r \in Runs(s) /\ r # LastRun(s, t)
  <2>1. PICK a, b \in 1 .. Len(z) :
           /\ r = <<a, b>> /\ a <= b /\ \A k \in a .. b : z[k] # "end"
           /\ a > 1 => z[a - 1] = "end"
           /\ b < Len(z) => z[b + 1] = "end"
    BY <1>1, <1>5, RunIs
  <2>2. b < Len(z)
    <3>1. r[2] = b
      BY <2>1
    <3>2. b # Len(z)
      BY <1>1, <1>2, <1>5, <3>1, OpenRun
    <3> QED
      BY <1>0, <1>1, <2>1, <3>2
  <2>3. b # Len(s)
    BY <1>0, <1>1, <2>1, <2>2
  <2>4. a \in 1 .. Len(s) /\ b \in 1 .. Len(s)
    BY <1>0, <1>1, <2>1, <2>2
  <2>5. \A k \in a .. b : s[k] # "end"
    BY <1>0, <1>1, <2>1, <2>4
  <2>6. a > 1 => s[a - 1] = "end"
    BY SMTT(20), <1>0, <1>1, <2>1, <2>4
  <2>7. b < Len(s) => s[b + 1] = "end"
    BY <1>0, <1>1, <2>1, <2>2, <2>4
  <2>8. r \in Runs(s)
    BY <2>1, <2>4, <2>5, <2>6, <2>7, RunIs
  <2>9. r # LastRun(s, t)
    BY <2>1, <2>3 DEF LastRun
  <2> QED
    BY <2>8, <2>9
<1>6. LastRun(s, t) \notin Runs(z) \/ LastRun(s, t) = LastRun(z, t + 1)
  BY <1>5
<1>7. LastRun(s, t) # LastRun(z, t + 1)
  <2>1. LastRun(s, t)[2] = Len(s) /\ LastRun(z, t + 1)[2] = Len(s) + 1
    BY <1>1 DEF LastRun
  <2> QED
    BY <1>0, <2>1
<1>8. Runs(z) = (Runs(s) \ {LastRun(s, t)}) \cup {LastRun(z, t + 1)}
  BY <1>3, <1>4, <1>5
<1> QED
  BY <1>2, <1>8 DEF z

\* The runs of a stream are few, and each is a pair.
LEMMA RunsFinite ==
  ASSUME NEW s \in Seq(Bytes)
  PROVE  IsFiniteSet(Runs(s)) /\ \A r \in Runs(s) : r[1] \in 1 .. Len(s) /\ r[2] \in 1 .. Len(s) /\ r[1] <= r[2]
<1>1. Len(s) \in Nat /\ DOMAIN s = 1 .. Len(s)
  OBVIOUS
<1>2. IsFiniteSet(1 .. Len(s))
  BY <1>1, FS_Interval
<1>3. IsFiniteSet((1 .. Len(s)) \X (1 .. Len(s)))
  BY <1>2, FS_Product
<1>4. Runs(s) \subseteq (1 .. Len(s)) \X (1 .. Len(s))
  BY <1>1 DEF Runs
<1>5. IsFiniteSet(Runs(s))
  BY <1>3, <1>4, FS_Subset
<1>6. \A r \in Runs(s) : r[1] \in 1 .. Len(s) /\ r[2] \in 1 .. Len(s) /\ r[1] <= r[2]
  BY <1>1 DEF Runs
<1> QED
  BY <1>5, <1>6

\* A line over its length is too long where it overflows.
LEMMA LastTooLong ==
  ASSUME NEW s \in Seq(Bytes), NEW t, Hanging(s, t)
  PROVE  TooLong(LastRun(s, t)) <=> t > Cap
<1>1. Len(s) \in Nat /\ t \in Nat /\ t <= Len(s)
  BY DEF Hanging
<1> QED
  BY <1>1, CapAssumption DEF TooLong, LastRun

\* The whole lines after an end and after a letter.
LEMMA WholeEnd ==
  ASSUME NEW s \in Seq(Bytes), NEW t, Hanging(s, t)
  PROVE  /\ Whole(Append(s, "end")) = Whole(s) \cup (IF t # 0 /\ t <= Cap THEN {LastRun(s, t)} ELSE {})
         /\ \A q \in Whole(s) : q[1] < LastRun(s, t)[1]
<1> DEFINE z == Append(s, "end")
           open1 == LastRun(s, t)
<1>0. Len(s) \in Nat /\ t \in Nat /\ t <= Len(s) /\ Len(z) = Len(s) + 1 /\ Cap \in Nat
  BY CapAssumption DEF Hanging
<1>1. Runs(z) = Runs(s)
  BY RunsEnd
<1>2. \A r \in Runs(s) : r[1] \in 1 .. Len(s) /\ r[2] \in 1 .. Len(s) /\ r[1] <= r[2]
  BY RunsFinite
<1>3. /\ t # 0 => open1 \in Runs(s)
      /\ \A r \in Runs(s) : r[2] = Len(s) => t # 0 /\ r = open1
  BY OpenRun
<1>4. TooLong(open1) <=> t > Cap
  BY LastTooLong
<1>5. open1[1] = Len(s) - t + 1 /\ open1[2] = Len(s)
  BY DEF LastRun
<1> HIDE DEF z, open1
<1>6. Whole(z) = {r \in Runs(s) : ~TooLong(r)}
  BY <1>0, <1>1, <1>2 DEF Whole, Ended
<1>7. \A r \in Runs(s) : r[2] < Len(s) \/ (t # 0 /\ r = open1)
  BY <1>0, <1>2, <1>3
<1>8. Whole(z) = Whole(s) \cup (IF t # 0 /\ t <= Cap THEN {open1} ELSE {})
  BY <1>0, <1>3, <1>4, <1>6, <1>7 DEF Whole, Ended
<1>9. ASSUME NEW q \in Whole(s) PROVE q[1] < open1[1]
  <2>1. q \in Runs(s) /\ q[2] < Len(s)
    BY <1>9 DEF Whole, Ended
  <2>2. q[1] \in 1 .. Len(s) /\ q[2] \in 1 .. Len(s) /\ q[1] <= q[2]
    BY <1>2, <2>1
  <2>3. s[q[2] + 1] = "end"
    BY <2>1 DEF Runs
  <2>4. ~(q[2] + 1 > Len(s) - t)
    <3>1. q[2] + 1 \in DOMAIN s
      BY <1>0, <2>1, <2>2
    <3> QED
      BY <2>3, <3>1 DEF Hanging
  <2> QED
    BY <1>0, <1>5, <2>2, <2>4
<1> QED
  BY <1>8, <1>9 DEF z, open1

LEMMA WholeLetter ==
  ASSUME NEW s \in Seq(Bytes), NEW t, Hanging(s, t), NEW c \in Bytes, c # "end"
  PROVE  Whole(Append(s, c)) = Whole(s)
<1> DEFINE z == Append(s, c)
           new == LastRun(z, t + 1)
<1>0. Len(s) \in Nat /\ t \in Nat /\ t <= Len(s) /\ Len(z) = Len(s) + 1
  BY DEF Hanging
<1>1. Runs(z) = (Runs(s) \ {LastRun(s, t)}) \cup {new}
  BY RunsLetter
<1>2. \A r \in Runs(s) : r[1] \in 1 .. Len(s) /\ r[2] \in 1 .. Len(s) /\ r[1] <= r[2]
  BY RunsFinite
<1>3. \A r \in Runs(s) : r[2] = Len(s) => r = LastRun(s, t)
  BY OpenRun
<1>4. new[2] = Len(z) /\ LastRun(s, t)[2] = Len(s)
  BY DEF LastRun
<1> HIDE DEF z, new
<1>5. \A r \in Runs(z) : r[2] < Len(z) <=> r \in Runs(s) /\ r[2] < Len(s)
  BY <1>0, <1>1, <1>2, <1>3, <1>4
<1>6. \A r \in Runs(s) : r[2] < Len(s) => r \in Runs(z)
  BY <1>0, <1>1, <1>2, <1>4
<1>7. Whole(z) = Whole(s)
  BY <1>5, <1>6 DEF Whole, Ended
<1> QED
  BY <1>7 DEF z

\* How many are too long.
LEMMA LongAre ==
  ASSUME NEW s \in Seq(Bytes), NEW t, Hanging(s, t)
  PROVE  /\ Cardinality(LongRuns(s)) \in Nat
         /\ Cardinality(LongRuns(Append(s, "end"))) = Cardinality(LongRuns(s))
         /\ \A c \in Bytes : c # "end" =>
               Cardinality(LongRuns(Append(s, c))) = Cardinality(LongRuns(s)) + (IF t = Cap THEN 1 ELSE 0)
<1>0. Len(s) \in Nat /\ t \in Nat /\ t <= Len(s) /\ Cap \in Nat
  BY CapAssumption DEF Hanging
<1>1. IsFiniteSet(Runs(s)) /\ LongRuns(s) \subseteq Runs(s)
  BY RunsFinite DEF LongRuns
<1>2. IsFiniteSet(LongRuns(s)) /\ Cardinality(LongRuns(s)) \in Nat
  BY <1>1, FS_Subset, FS_CardinalityType
<1>3. LongRuns(Append(s, "end")) = LongRuns(s)
  BY RunsEnd DEF LongRuns
<1>4. ASSUME NEW c \in Bytes, c # "end"
      PROVE  Cardinality(LongRuns(Append(s, c))) = Cardinality(LongRuns(s)) + (IF t = Cap THEN 1 ELSE 0)
  <2> DEFINE z == Append(s, c)
             old == LastRun(s, t)
             new == LastRun(z, t + 1)
             long1 == LongRuns(s)
  <2>1. z \in Seq(Bytes) /\ Len(z) = Len(s) + 1
    OBVIOUS
  <2>2. Hanging(z, t + 1) /\ Runs(z) = (Runs(s) \ {old}) \cup {new}
    BY <1>4, RunsLetter
  <2>3. (TooLong(old) <=> t > Cap) /\ (TooLong(new) <=> t + 1 > Cap)
    BY <2>1, <2>2, LastTooLong
  <2>4. t # 0 => old \in Runs(s)
    BY OpenRun
  <2>5. new \notin Runs(s)
    <3>1. new[2] = Len(s) + 1
      BY <2>1 DEF LastRun
    <3> QED
      BY <1>0, <3>1, RunsFinite
  <2> HIDE DEF z, old, new
  <2>6. LongRuns(z) = (long1 \ {old}) \cup (IF t + 1 > Cap THEN {new} ELSE {})
    BY <1>0, <2>2, <2>3 DEF LongRuns
  <2>7. new \notin long1
    BY <1>1, <2>5
  <2>8. old \in long1 <=> t > Cap
    BY <1>0, <2>3, <2>4, CapAssumption DEF LongRuns
  <2> HIDE DEF long1
  <2>9. IsFiniteSet(long1) /\ Cardinality(long1) \in Nat
    BY <1>2 DEF long1
  <2>10. CASE t < Cap
    <3>1. LongRuns(z) = long1
      BY <1>0, <2>6, <2>8, <2>10
    <3> QED
      BY <1>0, <2>9, <2>10, <3>1 DEF z, long1
  <2>11. CASE t = Cap
    <3>1. LongRuns(z) = long1 \cup {new}
      BY <1>0, <2>6, <2>8, <2>11
    <3>2. Cardinality(long1 \cup {new}) = Cardinality(long1) + 1
      BY <2>7, <2>9, FS_AddElement
    <3> QED
      BY <2>11, <3>1, <3>2 DEF z, long1
  <2>12. CASE t > Cap
    <3>1. LongRuns(z) = (long1 \ {old}) \cup {new} /\ old \in long1
      BY <1>0, <2>6, <2>8, <2>12
    <3>2. IsFiniteSet(long1 \ {old}) /\ Cardinality(long1 \ {old}) = Cardinality(long1) - 1
      BY <2>9, <3>1, FS_RemoveElement
    <3>3. Cardinality((long1 \ {old}) \cup {new}) = Cardinality(long1 \ {old}) + 1
      BY <2>7, <3>2, FS_AddElement
    <3>4. Cardinality(LongRuns(z)) = Cardinality(long1)
      BY <2>9, <3>1, <3>2, <3>3
    <3> QED
      BY <1>0, <2>9, <2>12, <3>4 DEF z, long1
  <2> QED
    BY <1>0, <2>10, <2>11, <2>12
<1> QED
  BY <1>2, <1>3, <1>4

-----------------------------------------------------------------------------
(* The lines in their order *)

\* Every place of an order is somebody's.
AllRanked(spans) == \A k \in 1 .. Cardinality(spans) : Ranked(spans, k) # {}

\* A run behind all the others takes the last place and no one else's.
LEMMA RankLast ==
  ASSUME NEW spans, IsFiniteSet(spans), NEW r, \A q \in spans : q[1] \in Nat /\ q[1] < r[1], r[1] \in Nat
  PROVE  /\ Cardinality(spans) \in Nat /\ Cardinality(spans \cup {r}) = Cardinality(spans) + 1
         /\ \A k \in 1 .. Cardinality(spans) : Ranked(spans \cup {r}, k) = Ranked(spans, k)
         /\ Ranked(spans \cup {r}, Cardinality(spans) + 1) = {r}
<1> DEFINE all == spans \cup {r}
           upTo(set, x) == {q \in set : q[1] <= x[1]}
<1>1. r \notin spans
  OBVIOUS
<1>2. Cardinality(spans) \in Nat /\ Cardinality(all) = Cardinality(spans) + 1
  BY <1>1, FS_AddElement, FS_CardinalityType
<1>3. \A x \in spans : upTo(all, x) = upTo(spans, x)
  OBVIOUS
<1>4. upTo(all, r) = all
  OBVIOUS
<1>5. ASSUME NEW x \in spans
      PROVE  Cardinality(upTo(spans, x)) <= Cardinality(spans)
  <2>1. upTo(spans, x) \subseteq spans
    OBVIOUS
  <2> HIDE DEF upTo
  <2> QED
    BY <2>1, FS_Subset
<1>6. \A set, k : Ranked(set, k) = {x \in set : Cardinality(upTo(set, x)) = k}
  BY DEF Ranked
<1> HIDE DEF upTo
<1>7. ASSUME NEW k \in 1 .. Cardinality(spans)
      PROVE  Ranked(all, k) = Ranked(spans, k)
  <2>1. Cardinality(upTo(all, r)) # k
    BY SMTT(20), <1>2, <1>4
  <2> QED
    BY <1>3, <1>6, <2>1
<1>8. Ranked(all, Cardinality(spans) + 1) = {r}
  <2>1. Cardinality(upTo(all, r)) = Cardinality(spans) + 1
    BY <1>2, <1>4
  <2>2. ASSUME NEW x \in spans PROVE Cardinality(upTo(all, x)) # Cardinality(spans) + 1
    <3>1. Cardinality(upTo(spans, x)) <= Cardinality(spans)
      BY <1>5
    <3>2. IsFiniteSet(upTo(spans, x))
      BY FS_Subset DEF upTo
    <3>3. Cardinality(upTo(spans, x)) \in Nat
      BY <3>2, FS_CardinalityType
    <3>4. upTo(all, x) = upTo(spans, x)
      BY <1>3
    <3> DEFINE n == Cardinality(spans)
               m == Cardinality(upTo(spans, x))
    <3>5. n \in Nat /\ m \in Nat /\ m <= n
      BY <1>2, <3>1, <3>3
    <3> HIDE DEF n, m
    <3>6. m # n + 1
      BY <3>5
    <3> QED
      BY <3>4, <3>6 DEF n, m
  <2> QED
    BY <1>6, <2>1, <2>2
<1> QED
  BY <1>2, <1>7, <1>8

\* The letters of a run are the same in a longer stream.
LEMMA SameLetters ==
  ASSUME NEW s \in Seq(Bytes), NEW c \in Bytes, NEW a \in 1 .. Len(s), NEW b \in 1 .. Len(s)
  PROVE  SubSeq(Append(s, c), a, b) = SubSeq(s, a, b)
<1> QED
  OBVIOUS

\* Lines that are whole stay the lines, in the same places.
LEMMA LinesSame ==
  ASSUME NEW s \in Seq(Bytes), NEW c \in Bytes, Whole(Append(s, c)) = Whole(s), AllRanked(Whole(s))
  PROVE  LinesOf(Append(s, c)) = LinesOf(s)
<1> DEFINE whole == Whole(s)
           z == Append(s, c)
<1>1. \A r \in whole : r[1] \in 1 .. Len(s) /\ r[2] \in 1 .. Len(s)
  BY RunsFinite DEF Whole
<1>2. ASSUME NEW k \in 1 .. Cardinality(whole), NEW r, r = CHOOSE x \in Ranked(whole, k) : TRUE
      PROVE  SubSeq(z, r[1], r[2]) = SubSeq(s, r[1], r[2])
  <2>1. r \in whole
    BY <1>2 DEF AllRanked, Ranked
  <2>2. r[1] \in 1 .. Len(s) /\ r[2] \in 1 .. Len(s)
    BY <1>1, <2>1
  <2> QED
    BY <2>2, SameLetters
<1>3. Whole(z) = whole
  OBVIOUS
<1> HIDE DEF whole, z
<1>4. LinesOf(z) = [k \in 1 .. Cardinality(whole) |->
                      SubSeq(z, (CHOOSE x \in Ranked(whole, k) : TRUE)[1], (CHOOSE x \in Ranked(whole, k) : TRUE)[2])]
  BY <1>3 DEF LinesOf
<1>5. LinesOf(s) = [k \in 1 .. Cardinality(whole) |->
                      SubSeq(s, (CHOOSE x \in Ranked(whole, k) : TRUE)[1], (CHOOSE x \in Ranked(whole, k) : TRUE)[2])]
  BY DEF LinesOf, whole
<1> QED
  BY <1>2, <1>4, <1>5 DEF z

\* A line that becomes whole is the last.
LEMMA LinesGrow ==
  ASSUME NEW s \in Seq(Bytes), NEW c \in Bytes, NEW r \in Runs(s),
         Whole(Append(s, c)) = Whole(s) \cup {r}, \A q \in Whole(s) : q[1] < r[1], AllRanked(Whole(s)),
         LinesOf(s) \in Seq(Seq(Letters)), SubSeq(s, r[1], r[2]) \in Seq(Letters)
  PROVE  /\ LinesOf(Append(s, c)) = Append(LinesOf(s), SubSeq(s, r[1], r[2]))
         /\ AllRanked(Whole(Append(s, c)))
<1> DEFINE whole == Whole(s)
           z == Append(s, c)
           n == Cardinality(whole)
           at(set, k) == CHOOSE x \in Ranked(set, k) : TRUE
<1>1. \A q \in Runs(s) : q[1] \in 1 .. Len(s) /\ q[2] \in 1 .. Len(s)
  BY RunsFinite
<1>2. IsFiniteSet(whole) /\ \A q \in whole : q \in Runs(s)
  BY RunsFinite, FS_Subset DEF Whole
<1>3. Whole(z) = whole \cup {r}
  OBVIOUS
<1>4. (\A q \in whole : q[1] \in Nat /\ q[1] < r[1]) /\ r[1] \in Nat
  BY <1>1, <1>2
<1>5. /\ n \in Nat /\ Cardinality(whole \cup {r}) = n + 1
      /\ \A k \in 1 .. n : Ranked(whole \cup {r}, k) = Ranked(whole, k)
      /\ Ranked(whole \cup {r}, n + 1) = {r}
  BY <1>2, <1>4, RankLast
<1>6. ASSUME NEW k \in 1 .. n + 1 PROVE k \in 1 .. n \/ k = n + 1
  BY <1>5
<1>7. AllRanked(Whole(z))
  <2>1. \A k \in 1 .. n : Ranked(whole, k) # {}
    BY DEF AllRanked
  <2> HIDE DEF n, whole, z
  <2> QED
    BY <1>3, <1>5, <1>6, <2>1 DEF AllRanked
<1>8. ASSUME NEW k \in 1 .. n
      PROVE  SubSeq(z, at(whole, k)[1], at(whole, k)[2]) = SubSeq(s, at(whole, k)[1], at(whole, k)[2])
  <2>1. at(whole, k) \in whole
    BY DEF AllRanked, Ranked
  <2>2. at(whole, k)[1] \in 1 .. Len(s) /\ at(whole, k)[2] \in 1 .. Len(s)
    BY <1>1, <1>2, <2>1
  <2> HIDE DEF at
  <2> QED
    BY <2>2, SameLetters
<1>9. SubSeq(z, r[1], r[2]) = SubSeq(s, r[1], r[2])
  BY <1>1, SameLetters
<1>10. at(whole \cup {r}, n + 1) = r /\ \A k \in 1 .. n : at(whole \cup {r}, k) = at(whole, k)
  <2> HIDE DEF n, whole
  <2> QED
    BY <1>5
<1>11. LinesOf(z) = [k \in 1 .. n + 1 |-> SubSeq(z, at(whole \cup {r}, k)[1], at(whole \cup {r}, k)[2])]
  <2> HIDE DEF n
  <2> QED
    BY <1>3, <1>5 DEF LinesOf
<1>12. LinesOf(s) = [k \in 1 .. n |-> SubSeq(s, at(whole, k)[1], at(whole, k)[2])]
  BY DEF LinesOf
<1> DEFINE new == SubSeq(s, r[1], r[2])
           old == LinesOf(s)
<1>13. \A k \in 1 .. n + 1 : LinesOf(z)[k] = IF k = n + 1 THEN new ELSE old[k]
  <2>1. LinesOf(z)[n + 1] = new
    <3>1. n + 1 \in 1 .. n + 1
      BY <1>5
    <3> HIDE DEF n, whole, z, at
    <3> QED
      BY <1>9, <1>10, <1>11, <3>1
  <2>2. ASSUME NEW k \in 1 .. n PROVE LinesOf(z)[k] = old[k] /\ k # n + 1
    <3>1. k \in 1 .. n + 1 /\ k # n + 1
      BY <1>5
    <3> HIDE DEF n, whole, z, at
    <3>2. LinesOf(z)[k] = SubSeq(z, at(whole \cup {r}, k)[1], at(whole \cup {r}, k)[2])
      BY <1>11, <3>1
    <3>3. LinesOf(s)[k] = SubSeq(s, at(whole, k)[1], at(whole, k)[2])
      BY <1>12
    <3> QED
      BY <1>8, <1>10, <3>1, <3>2, <3>3
  <2> HIDE DEF n, whole, z, at, old, new
  <2> QED
    BY <1>6, <2>1, <2>2
<1>14. LinesOf(z) = [k \in 1 .. n + 1 |-> LinesOf(z)[k]]
  BY <1>11
<1>15. old \in Seq(Seq(Letters)) /\ Len(old) = n /\ new \in Seq(Letters)
  <2>1. DOMAIN old = 1 .. n
    BY <1>12
  <2> HIDE DEF n, old
  <2> QED
    BY <1>5, <2>1 DEF old
<1>16. Append(old, new) = [k \in 1 .. n + 1 |-> IF k = n + 1 THEN new ELSE old[k]]
  <2> HIDE DEF n, old, new
  <2> DEFINE longer == Append(old, new)
  <2>1. longer \in Seq(Seq(Letters)) /\ Len(longer) = n + 1
    BY <1>15
  <2>2. longer[n + 1] = new /\ \A k \in 1 .. n : longer[k] = old[k]
    BY <1>5, <1>15
  <2> HIDE DEF longer
  <2>3. longer = [k \in 1 .. n + 1 |-> longer[k]]
    BY <2>1
  <2>4. \A k \in 1 .. n + 1 : longer[k] = IF k = n + 1 THEN new ELSE old[k]
    BY <1>6, <2>2
  <2> QED
    BY <2>3, <2>4 DEF longer
<1>17. LinesOf(z) = Append(old, new)
  <2> HIDE DEF n, old, new, z
  <2> QED
    BY <1>13, <1>14, <1>16
<1> QED
  BY <1>7, <1>17

-----------------------------------------------------------------------------
(* The framer *)

Framers == [line : Seq(Letters), discarding : BOOLEAN, out : Seq(Seq(Letters)), long : Nat]

\* A framer that was fed s has handed over its lines, counted those too long, and holds what
\* hangs over unless that is too long already.
FramedTo(f, s, before, lost) ==
  /\ f \in Framers /\ Len(f.line) <= Cap
  /\ LinesOf(s) \in Seq(Seq(Letters)) /\ AllRanked(Whole(s))
  /\ f.out = before \o LinesOf(s) /\ f.long = lost + Cardinality(LongRuns(s))
  /\ \E t : /\ Hanging(s, t) /\ (f.discarding <=> t > Cap)
            /\ ~f.discarding => f.line = SubSeq(s, Len(s) - t + 1, Len(s))

\* Nothing read, nothing framed.
LEMMA FramedNothing ==
  ASSUME NEW f \in Framers, f.line = <<>>, f.discarding = FALSE,
         NEW before \in Seq(Seq(Letters)), f.out = before, NEW lost \in Nat, f.long = lost
  PROVE  FramedTo(f, <<>>, before, lost)
<1> DEFINE s == <<>>
<1>1. DOMAIN s = {} /\ Len(s) = 0 /\ f.line = SubSeq(s, 1, 0)
  OBVIOUS
<1>2. before \o <<>> = before
  OBVIOUS
<1> HIDE DEF s
<1>3. Runs(s) = {}
  BY <1>1 DEF Runs
<1>4. Whole(s) = {} /\ LongRuns(s) = {}
  BY <1>3 DEF Whole, LongRuns
<1>5. Cardinality(Whole(s)) = 0 /\ Cardinality(LongRuns(s)) = 0
  BY <1>4, FS_EmptySet
<1>6. LinesOf(s) = <<>>
  <2> DEFINE at(k) == CHOOSE r \in Ranked(Whole(s), k) : TRUE
  <2>1. LinesOf(s) = [k \in 1 .. 0 |-> SubSeq(s, at(k)[1], at(k)[2])]
    BY <1>5 DEF LinesOf
  <2> HIDE DEF at
  <2> QED
    BY <2>1
<1>7. AllRanked(Whole(s))
  BY <1>5 DEF AllRanked
<1>8. Hanging(s, 0)
  BY <1>1 DEF Hanging
<1>9. LinesOf(s) \in Seq(Seq(Letters)) /\ f.out = before \o LinesOf(s)
  BY <1>2, <1>6
<1>10. Len(f.line) <= Cap /\ f.long = lost + Cardinality(LongRuns(s))
  BY <1>5, CapAssumption
<1>11. ~(0 > Cap) /\ f.line = SubSeq(s, Len(s) - 0 + 1, Len(s))
  BY <1>1, CapAssumption
<1>12. \E t : /\ Hanging(s, t) /\ (f.discarding <=> t > Cap)
              /\ ~f.discarding => f.line = SubSeq(s, Len(s) - t + 1, Len(s))
  BY <1>8, <1>11
<1> QED
  BY <1>7, <1>9, <1>10, <1>12 DEF FramedTo, s

LEMMA ByteFramer ==
  ASSUME NEW f \in Framers, NEW c \in Bytes
  PROVE  Byte(f, c) \in Framers
<1>1. f.line \in Seq(Letters) /\ f.out \in Seq(Seq(Letters)) /\ f.long \in Nat /\ f.discarding \in BOOLEAN
  BY DEF Framers
<1>2. CASE c = "end"
  <2>1. Byte(f, c) = EndOfLine(f)
    BY <1>2 DEF Byte
  <2>2. Append(f.out, f.line) \in Seq(Seq(Letters)) /\ <<>> \in Seq(Letters)
    BY <1>1
  <2> QED
    BY <1>1, <2>1, <2>2 DEF EndOfLine, Framers
<1>3. CASE c # "end" /\ Fits(f)
  <2>1. Byte(f, c) = [f EXCEPT !.line = Append(f.line, c)]
    BY <1>3 DEF Byte
  <2>2. c \in Letters
    BY <1>3 DEF Bytes
  <2>3. Append(f.line, c) \in Seq(Letters)
    BY <1>1, <2>2
  <2> QED
    BY <1>1, <2>1, <2>3 DEF Framers
<1>4. CASE c # "end" /\ ~Fits(f)
  <2>1. Byte(f, c) = Overflow(f, c)
    BY <1>4 DEF Byte
  <2>2. f.long + 1 \in Nat /\ <<>> \in Seq(Letters)
    BY <1>1
  <2> QED
    BY <1>1, <2>1, <2>2 DEF Overflow, Framers
<1> QED
  BY <1>2, <1>3, <1>4

\* What hangs over is as long as it says.
LEMMA HangingOver ==
  ASSUME NEW s \in Seq(Bytes), NEW t, Hanging(s, t)
  PROVE  /\ SubSeq(s, Len(s) - t + 1, Len(s)) \in Seq(Letters)
         /\ Len(SubSeq(s, Len(s) - t + 1, Len(s))) = t
<1> DEFINE a == Len(s) - t + 1
           part == SubSeq(s, a, Len(s))
<1>1. Len(s) \in Nat /\ t \in Nat /\ t <= Len(s) /\ DOMAIN s = 1 .. Len(s)
  BY DEF Hanging
<1>2. a \in Nat /\ a >= 1 /\ Len(s) - a + 1 = t
  BY <1>1
<1>3. part = [i \in 1 .. t |-> s[i + a - 1]]
  BY <1>1, <1>2
<1>4. ASSUME NEW i \in 1 .. t PROVE s[i + a - 1] \in Letters
  <2>1. i + a - 1 \in DOMAIN s /\ i + a - 1 > Len(s) - t
    BY <1>1
  <2>2. s[i + a - 1] # "end" /\ s[i + a - 1] \in Bytes
    BY <2>1 DEF Hanging
  <2> QED
    BY <2>2 DEF Bytes
<1> HIDE DEF a
<1>5. part \in [1 .. t -> Letters]
  BY <1>3, <1>4
<1> HIDE DEF part
<1>6. part \in Seq(Letters) /\ Len(part) = t
  BY <1>1, <1>5
<1> QED
  BY <1>6 DEF part, a

Joined(x, y) == x \o y
Put(y, e)    == Append(y, e)

LEMMA PutLast ==
  ASSUME NEW S, NEW x \in Seq(S), NEW y \in Seq(S), NEW e \in S
  PROVE  Put(Joined(x, y), e) = Joined(x, Put(y, e))
<1> QED
  BY DEF Put, Joined

LEMMA EndKeeps ==
  ASSUME NEW s \in Seq(Bytes), NEW f, NEW before \in Seq(Seq(Letters)), NEW lost \in Nat,
         FramedTo(f, s, before, lost)
  PROVE  FramedTo(Byte(f, "end"), Append(s, "end"), before, lost)
<1> DEFINE z == Append(s, "end")
           g == EndOfLine(f)
<1>1. PICK t : /\ Hanging(s, t) /\ (f.discarding <=> t > Cap)
               /\ ~f.discarding => f.line = SubSeq(s, Len(s) - t + 1, Len(s))
  BY DEF FramedTo
<1>0. t \in Nat /\ Cap \in Nat /\ Len(s) \in Nat /\ Cap > 0
  BY <1>1, CapAssumption DEF Hanging
<1>2. /\ f \in Framers /\ LinesOf(s) \in Seq(Seq(Letters)) /\ AllRanked(Whole(s))
      /\ f.out = before \o LinesOf(s) /\ f.long = lost + Cardinality(LongRuns(s))
  BY DEF FramedTo
<1>3. z \in Seq(Bytes) /\ Hanging(z, 0) /\ "end" \in Bytes
  BY RunsEnd DEF Bytes
<1>4. Byte(f, "end") = g
  BY DEF Byte
<1>5. g \in Framers
  BY <1>2, <1>3, <1>4, ByteFramer
<1>6. g.line = <<>> /\ g.discarding = FALSE /\ g.long = f.long
      /\ g.out = IF ~f.discarding /\ f.line # <<>> THEN Append(f.out, f.line) ELSE f.out
  BY <1>2 DEF EndOfLine, Framers
<1>7. Cardinality(LongRuns(z)) = Cardinality(LongRuns(s))
  BY <1>1, LongAre
<1>8. /\ Whole(z) = Whole(s) \cup (IF t # 0 /\ t <= Cap THEN {LastRun(s, t)} ELSE {})
      /\ \A q \in Whole(s) : q[1] < LastRun(s, t)[1]
  BY <1>1, WholeEnd
<1>9. SubSeq(s, Len(s) - t + 1, Len(s)) \in Seq(Letters) /\ Len(SubSeq(s, Len(s) - t + 1, Len(s))) = t
  BY <1>1, HangingOver
<1>10. ~f.discarding /\ f.line # <<>> <=> t # 0 /\ t <= Cap
  BY <1>0, <1>1, <1>9
<1>11. 0 <= Cap /\ <<>> = SubSeq(z, Len(z) - 0 + 1, Len(z))
  BY <1>0, <1>3
<1> HIDE DEF g, z
<1>12. LinesOf(z) \in Seq(Seq(Letters)) /\ AllRanked(Whole(z)) /\ g.out = before \o LinesOf(z)
  <2>1. CASE t # 0 /\ t <= Cap
    <3> DEFINE r == LastRun(s, t)
    <3>1. r \in Runs(s) /\ r[1] = Len(s) - t + 1 /\ r[2] = Len(s)
      BY <1>1, <2>1, OpenRun DEF LastRun
    <3>2. Whole(z) = Whole(s) \cup {r}
      BY <1>8, <2>1
    <3>3. f.line = SubSeq(s, r[1], r[2]) /\ f.line \in Seq(Letters)
      BY <1>1, <1>9, <1>10, <2>1, <3>1
    <3>a. \A q \in Whole(s) : q[1] < r[1]
      BY <1>8
    <3> HIDE DEF r
    <3>4. LinesOf(z) = Append(LinesOf(s), SubSeq(s, r[1], r[2])) /\ AllRanked(Whole(z))
      BY ZenonT(30), <1>2, <1>3, <3>a, <3>1, <3>2, <3>3, LinesGrow DEF z
    <3>5. g.out = Append(before \o LinesOf(s), f.line)
      BY <1>2, <1>6, <1>10, <2>1
    <3>6. Append(before \o LinesOf(s), f.line) = before \o Append(LinesOf(s), f.line)
      <4>1. PICK lines : lines = LinesOf(s)
        OBVIOUS
      <4>2. PICK line1 : line1 = f.line
        OBVIOUS
      <4>0. PICK S : S = Seq(Letters)
        OBVIOUS
      <4>a. LinesOf(s) \in Seq(S) /\ before \in Seq(S)
        BY <1>2, <4>0
      <4>b. f.line \in S
        BY <3>3, <4>0
      <4>3. lines \in Seq(S) /\ line1 \in S /\ before \in Seq(S)
        BY <4>1, <4>2, <4>a, <4>b
      <4>4. Append(before \o lines, line1) = before \o Append(lines, line1)
        <5>1. Put(Joined(before, lines), line1) = Joined(before, Put(lines, line1))
          BY <4>3, PutLast
        <5> QED
          BY <5>1 DEF Put, Joined
      <4> QED
        BY <4>1, <4>2, <4>4
    <3>7. LinesOf(z) \in Seq(Seq(Letters))
      BY <1>2, <3>3, <3>4
    <3> QED
      BY <3>3, <3>4, <3>5, <3>6, <3>7
  <2>2. CASE ~(t # 0 /\ t <= Cap)
    <3>1. Whole(z) = Whole(s)
      BY <1>8, <2>2
    <3>2. LinesOf(z) = LinesOf(s)
      BY <1>2, <1>3, <3>1, LinesSame DEF z
    <3> QED
      BY <1>2, <1>6, <1>10, <2>2, <3>1, <3>2
  <2> QED
    BY <2>1, <2>2
<1>13. Len(g.line) <= Cap /\ g.long = lost + Cardinality(LongRuns(z))
  BY <1>0, <1>2, <1>6, <1>7
<1>14. (g.discarding <=> 0 > Cap) /\ (~g.discarding => g.line = SubSeq(z, Len(z) - 0 + 1, Len(z)))
  BY <1>0, <1>6, <1>11
<1> QED
  BY <1>3, <1>4, <1>5, <1>12, <1>13, <1>14 DEF FramedTo, z

LEMMA LetterKeeps ==
  ASSUME NEW s \in Seq(Bytes), NEW f, NEW before \in Seq(Seq(Letters)), NEW lost \in Nat,
         FramedTo(f, s, before, lost), NEW c \in Letters
  PROVE  FramedTo(Byte(f, c), Append(s, c), before, lost)
<1> DEFINE z == Append(s, c)
           g == Byte(f, c)
<1>1. PICK t : /\ Hanging(s, t) /\ (f.discarding <=> t > Cap)
               /\ ~f.discarding => f.line = SubSeq(s, Len(s) - t + 1, Len(s))
  BY DEF FramedTo
<1>0. t \in Nat /\ Cap \in Nat /\ Len(s) \in Nat /\ Cap > 0 /\ t <= Len(s)
  BY <1>1, CapAssumption DEF Hanging
<1>2. /\ f \in Framers /\ LinesOf(s) \in Seq(Seq(Letters)) /\ AllRanked(Whole(s))
      /\ f.out = before \o LinesOf(s) /\ f.long = lost + Cardinality(LongRuns(s)) /\ Len(f.line) <= Cap
  BY DEF FramedTo
<1>3. c \in Bytes /\ c # "end"
  BY LettersAssumption DEF Bytes
<1>4. z \in Seq(Bytes) /\ Len(z) = Len(s) + 1
  BY <1>3
<1>5. Hanging(z, t + 1)
  BY <1>1, <1>3, RunsLetter
<1>6. g \in Framers
  BY <1>2, <1>3, ByteFramer
<1>7. Whole(z) = Whole(s)
  BY <1>1, <1>3, WholeLetter
<1>8. LinesOf(z) = LinesOf(s)
  BY <1>2, <1>3, <1>7, LinesSame
<1>9. /\ Cardinality(LongRuns(s)) \in Nat
      /\ Cardinality(LongRuns(z)) = Cardinality(LongRuns(s)) + (IF t = Cap THEN 1 ELSE 0)
  BY <1>1, <1>3, LongAre
<1>10. ~f.discarding => Len(f.line) = t
  BY <1>1, HangingOver
<1>11. f.line \in Seq(Letters) /\ f.discarding \in BOOLEAN /\ f.long \in Nat
  BY <1>2 DEF Framers
<1>12. /\ g.out = f.out /\ Len(g.line) <= Cap
       /\ g.long = f.long + (IF t = Cap THEN 1 ELSE 0)
       /\ (g.discarding <=> t + 1 > Cap)
       /\ ~g.discarding => ~f.discarding /\ g.line = Append(f.line, c)
  <2>1. CASE Fits(f)
    <3>1. g = [f EXCEPT !.line = Append(f.line, c)]
      BY <1>3, <2>1 DEF Byte
    <3>2. g.out = f.out /\ g.long = f.long /\ g.discarding = f.discarding /\ g.line = Append(f.line, c)
      BY <1>2, <3>1 DEF Framers
    <3>3. Len(Append(f.line, c)) <= Cap /\ Len(f.line) < Cap
      BY <1>0, <1>11, <2>1 DEF Fits
    <3>4. t # Cap /\ (f.discarding <=> t + 1 > Cap)
      BY <1>0, <1>1, <1>10, <3>3
    <3> HIDE DEF g
    <3> QED
      BY <1>11, <3>2, <3>3, <3>4
  <2>2. CASE ~Fits(f) /\ f.discarding
    <3>1. g = f
      BY <1>3, <2>2 DEF Byte, Overflow
    <3>2. t # Cap /\ t + 1 > Cap
      BY <1>0, <1>1, <2>2
    <3> HIDE DEF g
    <3> QED
      BY <1>2, <1>11, <2>2, <3>1, <3>2
  <2>3. CASE ~Fits(f) /\ ~f.discarding
    <3>1. g = [f EXCEPT !.line = <<>>, !.discarding = TRUE, !.long = f.long + 1]
      BY <1>3, <2>3 DEF Byte, Overflow
    <3>2. g.out = f.out /\ g.line = <<>> /\ g.discarding = TRUE /\ g.long = f.long + 1
      BY <1>2, <3>1 DEF Framers
    <3>3. t = Cap
      <4>1. Len(f.line) = t /\ ~(t > Cap)
        BY <1>1, <1>10, <2>3
      <4> QED
        BY <1>0, <2>3, <4>1 DEF Fits
    <3> HIDE DEF g
    <3> QED
      BY <1>0, <3>2, <3>3
  <2> QED
    BY <2>1, <2>2, <2>3
<1>13. SubSeq(z, Len(z) - (t + 1) + 1, Len(z)) = Append(SubSeq(s, Len(s) - t + 1, Len(s)), c)
  <2> DEFINE a == Len(s) - t + 1
             old == SubSeq(s, a, Len(s))
             new == SubSeq(z, a, Len(s) + 1)
  <2>1. a \in Nat /\ a >= 1 /\ a <= Len(s) + 1 /\ Len(z) - (t + 1) + 1 = a /\ Len(s) - a + 1 = t
    BY <1>0, <1>4
  <2>2. old = [i \in 1 .. t |-> s[i + a - 1]]
    BY <1>0, <2>1
  <2>3. new = [i \in 1 .. t + 1 |-> z[i + a - 1]]
    <3>1. Len(s) + 1 \in Nat /\ (Len(s) + 1) - a + 1 = t + 1
      BY <1>0
    <3> HIDE DEF a, z
    <3> QED
      BY <1>4, <2>1, <3>1
  <2>4. old \in Seq(Letters) /\ Len(old) = t
    BY <1>1, HangingOver
  <2>5. ASSUME NEW i \in 1 .. t PROVE z[i + a - 1] = s[i + a - 1]
    <3>1. i + a - 1 \in 1 .. Len(s)
      BY <1>0
    <3> QED
      BY <3>1
  <2>6. z[(t + 1) + a - 1] = c
    <3>1. (t + 1) + a - 1 = Len(s) + 1
      BY <1>0
    <3> QED
      BY <3>1
  <2> HIDE DEF a, z
  <2>7. \A i \in 1 .. t + 1 : new[i] = IF i = t + 1 THEN c ELSE old[i]
    <3>1. ASSUME NEW i \in 1 .. t PROVE new[i] = old[i]
      <4>1. i \in 1 .. t + 1
        BY <1>0
      <4> HIDE DEF old, new
      <4> QED
        BY <2>2, <2>3, <2>5, <4>1
    <3>2. new[t + 1] = c
      <4>1. t + 1 \in 1 .. t + 1
        BY <1>0
      <4> HIDE DEF new
      <4> QED
        BY <2>3, <2>6, <4>1
    <3>3. \A i \in 1 .. t + 1 : i \in 1 .. t \/ i = t + 1
      BY <1>0
    <3> HIDE DEF old, new
    <3>4. ASSUME NEW i \in 1 .. t + 1 PROVE new[i] = IF i = t + 1 THEN c ELSE old[i]
      BY <1>0, <3>1, <3>2, <3>3
    <3> QED
      BY <3>4
  <2> DEFINE longer == Append(old, c)
  <2> HIDE DEF old
  <2>8. longer \in Seq(Letters) /\ Len(longer) = t + 1
    BY <2>4
  <2>9. longer[t + 1] = c /\ \A i \in 1 .. t : longer[i] = old[i]
    BY <1>0, <2>4
  <2> HIDE DEF longer
  <2>10. longer = [i \in 1 .. t + 1 |-> longer[i]]
    BY <2>8
  <2>11. \A i \in 1 .. t + 1 : longer[i] = IF i = t + 1 THEN c ELSE old[i]
    BY <1>0, <2>9
  <2>12. new = [i \in 1 .. t + 1 |-> new[i]]
    BY <2>3
  <2> HIDE DEF new
  <2>13. new = longer
    BY <2>7, <2>10, <2>11, <2>12
  <2> QED
    BY <1>4, <2>1, <2>13 DEF longer, new, old, a
<1> HIDE DEF g, z
<1>14. g.out = before \o LinesOf(z) /\ g.long = lost + Cardinality(LongRuns(z))
  BY <1>2, <1>8, <1>9, <1>12
<1>15. ~g.discarding => g.line = SubSeq(z, Len(z) - (t + 1) + 1, Len(z))
  BY <1>1, <1>12, <1>13
<1> QED
  BY <1>2, <1>5, <1>6, <1>7, <1>8, <1>12, <1>14, <1>15 DEF FramedTo, g, z

LEMMA ByteKeeps ==
  ASSUME NEW s \in Seq(Bytes), NEW f, NEW before \in Seq(Seq(Letters)), NEW lost \in Nat,
         FramedTo(f, s, before, lost), NEW c \in Bytes
  PROVE  FramedTo(Byte(f, c), Append(s, c), before, lost)
<1> QED
  BY EndKeeps, LetterKeeps DEF Bytes

\* The framer's states, byte by byte.
Fed(g, f, bytes, n) == g = [k \in 0 .. n |-> IF k = 0 THEN f ELSE Byte(g[k - 1], bytes[k])]

LEMMA FedThere ==
  ASSUME NEW f, NEW bytes \in Seq(Bytes), NEW n \in Nat
  PROVE  \E g : Fed(g, f, bytes, n)
<1> DEFINE bad == {m \in Nat : ~(\E g : Fed(g, f, bytes, m))}
<1> SUFFICES ASSUME bad # {} PROVE FALSE
  OBVIOUS
<1>1. PICK m \in bad : \A j \in bad : m <= j
  BY LeastOne
<1>2. m # 0
  <2> DEFINE g == [k \in 0 .. 0 |-> f]
  <2>1. g = [k \in 0 .. 0 |-> IF k = 0 THEN f ELSE Byte(g[k - 1], bytes[k])]
    OBVIOUS
  <2>2. Fed(g, f, bytes, 0)
    BY <2>1 DEF Fed
  <2> QED
    BY <1>1, <2>2
<1>3. m - 1 \in Nat /\ m - 1 \notin bad
  BY <1>1, <1>2
<1>4. PICK g : Fed(g, f, bytes, m - 1)
  BY <1>3
<1> DEFINE h == [k \in 0 .. m |-> IF k = m THEN Byte(g[m - 1], bytes[m]) ELSE g[k]]
<1>5. \A k \in 0 .. m : h[k] = IF k = 0 THEN f ELSE Byte(h[k - 1], bytes[k])
  <2>1. ASSUME NEW k \in 0 .. m - 1 PROVE h[k] = IF k = 0 THEN f ELSE Byte(h[k - 1], bytes[k])
    <3>1. g[k] = IF k = 0 THEN f ELSE Byte(g[k - 1], bytes[k])
      BY <1>4 DEF Fed
    <3>2. h[k] = g[k] /\ (k # 0 => h[k - 1] = g[k - 1])
      BY <1>3
    <3> HIDE DEF h
    <3> QED
      BY <3>1, <3>2
  <2>2. h[m] = Byte(h[m - 1], bytes[m])
    <3>1. m \in 0 .. m /\ m - 1 \in 0 .. m /\ m - 1 # m
      BY <1>3
    <3> QED
      BY <3>1
  <2>3. ASSUME NEW k \in 0 .. m PROVE k = m \/ k \in 0 .. m - 1
    BY <1>3
  <2> HIDE DEF h
  <2> QED
    BY <1>2, <2>1, <2>2, <2>3
<1>6. h = [k \in 0 .. m |-> h[k]]
  OBVIOUS
<1>7. Fed(h, f, bytes, m)
  <2> HIDE DEF h
  <2> QED
    BY <1>5, <1>6 DEF Fed
<1> QED
  BY <1>1, <1>7

LEMMA FeedIs ==
  ASSUME NEW f, NEW bytes \in Seq(Bytes)
  PROVE  \E g : Fed(g, f, bytes, Len(bytes)) /\ Feed(f, bytes) = g[Len(bytes)]
<1> DEFINE fed == CHOOSE g : g = [k \in 0 .. Len(bytes) |-> IF k = 0 THEN f ELSE Byte(g[k - 1], bytes[k])]
<1>1. Feed(f, bytes) = fed[Len(bytes)]
  BY DEF Feed
<1>2. Len(bytes) \in Nat
  OBVIOUS
<1>a. \E g : Fed(g, f, bytes, Len(bytes))
  BY <1>2, FedThere
<1>3. \E g : g = [k \in 0 .. Len(bytes) |-> IF k = 0 THEN f ELSE Byte(g[k - 1], bytes[k])]
  BY <1>a, Zenon DEF Fed
<1>4. Fed(fed, f, bytes, Len(bytes))
  BY <1>3, Zenon DEF Fed
<1> HIDE DEF fed
<1> QED
  BY <1>1, <1>4

\* However many bytes the framer is fed at once.
LEMMA FeedKeeps ==
  ASSUME NEW s \in Seq(Bytes), NEW f, NEW before \in Seq(Seq(Letters)), NEW lost \in Nat,
         FramedTo(f, s, before, lost), NEW bytes \in Seq(Bytes)
  PROVE  FramedTo(Feed(f, bytes), s \o bytes, before, lost)
<1> DEFINE n == Len(bytes)
           so(k) == s \o SubSeq(bytes, 1, k)
<1>1. PICK g : Fed(g, f, bytes, n) /\ Feed(f, bytes) = g[n]
  BY FeedIs
<1>2. n \in Nat /\ DOMAIN bytes = 1 .. n
  OBVIOUS
<1>3. so(0) = s
  <2>1. SubSeq(bytes, 1, 0) = <<>>
    BY <1>2
  <2>2. s \o <<>> = s
    OBVIOUS
  <2> QED
    BY <2>1, <2>2
<1>4. so(n) = s \o bytes
  <2>1. SubSeq(bytes, 1, n) = bytes
    OBVIOUS
  <2> QED
    BY <2>1
<1>5. ASSUME NEW k \in 1 .. n PROVE so(k - 1) \in Seq(Bytes) /\ so(k) = Append(so(k - 1), bytes[k])
  <2> DEFINE piece == SubSeq(bytes, 1, k - 1)
             longer == SubSeq(bytes, 1, k)
  <2>1. piece \in Seq(Bytes) /\ bytes[k] \in Bytes
    BY <1>2
  <2>2. longer = Append(piece, bytes[k])
    <3>1. longer = [i \in 1 .. k |-> bytes[i]]
      BY <1>2
    <3>2. piece = [i \in 1 .. k - 1 |-> bytes[i]] /\ Len(piece) = k - 1
      BY <1>2
    <3> QED
      BY <1>2, <3>1, <3>2
  <2> HIDE DEF piece, longer
  <2>3. Put(Joined(s, piece), bytes[k]) = Joined(s, Put(piece, bytes[k]))
    BY <2>1, PutLast
  <2>4. Append(s \o piece, bytes[k]) = s \o Append(piece, bytes[k])
    BY <2>3 DEF Put, Joined
  <2>5. s \o piece \in Seq(Bytes)
    BY <2>1
  <2> QED
    BY <2>2, <2>4, <2>5 DEF piece, longer
<1> DEFINE bad == {k \in Nat : k <= n /\ ~FramedTo(g[k], so(k), before, lost)}
<1> HIDE DEF so
<1>6. g[0] = f /\ \A k \in 1 .. n : g[k] = Byte(g[k - 1], bytes[k])
  <2> HIDE DEF n
  <2>1. \A k \in 0 .. n : g[k] = IF k = 0 THEN f ELSE Byte(g[k - 1], bytes[k])
    BY <1>1 DEF Fed
  <2> QED
    BY <1>2, <2>1
<1>7. bad = {}
  <2> SUFFICES ASSUME bad # {} PROVE FALSE
    OBVIOUS
  <2>1. PICK m \in bad : \A j \in bad : m <= j
    BY LeastOne
  <2> HIDE DEF n
  <2>2. m # 0
    BY <1>3, <1>6, <2>1
  <2>3. m - 1 \in Nat /\ m - 1 \notin bad /\ m \in 1 .. n /\ m - 1 <= n
    BY <1>2, <2>1, <2>2
  <2>4. FramedTo(g[m - 1], so(m - 1), before, lost)
    BY <2>3
  <2>5. bytes[m] \in Bytes
    BY <1>2, <2>3 DEF n
  <2>6. FramedTo(Byte(g[m - 1], bytes[m]), Append(so(m - 1), bytes[m]), before, lost)
    BY <1>5, <2>3, <2>4, <2>5, ByteKeeps
  <2>7. FramedTo(g[m], so(m), before, lost)
    BY <1>5, <1>6, <2>3, <2>6
  <2> QED
    BY <2>1, <2>7
<1>8. FramedTo(g[n], so(n), before, lost)
  <2> HIDE DEF n
  <2> QED
    BY <1>2, <1>7
<1> QED
  BY <1>1, <1>4, <1>8

-----------------------------------------------------------------------------
(* The session *)

Framer == [line |-> line, discarding |-> discarding, out |-> out, long |-> long]

\* The loop's framer has taken up where the first read left the lines and the count.
ReadInv ==
  /\ open \in BOOLEAN /\ sessions \in 0 .. MaxSessions
  /\ first \in Seq(Bytes) /\ rest \in Seq(Bytes)
  /\ LinesOf(first) \in Seq(Seq(Letters)) /\ Cardinality(LongRuns(first)) \in Nat
  /\ FramedTo(Framer, rest, LinesOf(first), Cardinality(LongRuns(first)))

LEMMA FreshFramer ==
  FramedTo(Fresh, <<>>, <<>>, 0) /\ <<>> \in Seq(Bytes) /\ Fresh \in Framers
<1>1. <<>> \in Seq(Letters) /\ <<>> \in Seq(Seq(Letters)) /\ 0 \in Nat /\ <<>> \in Seq(Bytes)
  OBVIOUS
<1>2. Fresh \in Framers
  BY <1>1, Zenon DEF Fresh, Framers
<1>3. Fresh.line = <<>> /\ Fresh.discarding = FALSE /\ Fresh.out = <<>> /\ Fresh.long = 0
  BY DEF Fresh
<1> QED
  BY <1>1, <1>2, <1>3, FramedNothing

LEMMA ReadStart == ASSUME WireInit PROVE ReadInv
<1>1. Framer = Fresh /\ first = <<>> /\ rest = <<>>
  BY DEF WireInit, Framer, Fresh
<1>2. FramedTo(Fresh, <<>>, <<>>, 0)
  BY FreshFramer
<1> DEFINE s == <<>>
<1>3. s = <<>>
  OBVIOUS
<1>4. DOMAIN s = {}
  OBVIOUS
<1> HIDE DEF s
<1>5. Runs(s) = {}
  BY <1>4 DEF Runs
<1>6. Whole(s) = {} /\ LongRuns(s) = {}
  BY <1>5 DEF Whole, LongRuns
<1>7. Cardinality(Whole(s)) = 0 /\ Cardinality(LongRuns(s)) = 0
  BY <1>6, FS_EmptySet
<1>8. LinesOf(s) = <<>>
  <2> DEFINE at(k) == CHOOSE r \in Ranked(Whole(s), k) : TRUE
  <2>1. LinesOf(s) = [k \in 1 .. 0 |-> SubSeq(s, at(k)[1], at(k)[2])]
    BY <1>7 DEF LinesOf
  <2> HIDE DEF at
  <2> QED
    BY <2>1
<1>9. LinesOf(first) = <<>> /\ Cardinality(LongRuns(first)) = 0
  BY <1>1, <1>3, <1>7, <1>8, Zenon
<1>10. FramedTo(Framer, rest, LinesOf(first), Cardinality(LongRuns(first)))
  BY <1>1, <1>2, <1>9, Zenon
<1>11. open \in BOOLEAN /\ sessions \in 0 .. MaxSessions
  <2>1. MaxSessions \in Nat
    BY BoundsAssumption
  <2>2. open = FALSE /\ sessions = 0
    BY DEF WireInit
  <2>3. open \in BOOLEAN
    BY <2>2, Zenon
  <2>4. sessions \in 0 .. MaxSessions
    BY <2>1, <2>2
  <2> QED
    BY <2>3, <2>4
<1>12. first \in Seq(Bytes) /\ rest \in Seq(Bytes) /\ LinesOf(first) \in Seq(Seq(Letters))
  <2>1. <<>> \in Seq(Bytes) /\ <<>> \in Seq(Seq(Letters))
    OBVIOUS
  <2> QED
    BY <1>1, <1>9, <2>1, Zenon
<1>13. Cardinality(LongRuns(first)) \in Nat
  BY <1>9
<1> QED
  BY <1>10, <1>11, <1>12, <1>13 DEF ReadInv

LEMMA ReadConnect ==
  ASSUME ReadInv, NEW bytes \in Chunks \cup {<<>>}, Connect(bytes) PROVE ReadInv'
<1> DEFINE f == Feed(Fresh, bytes)
<1>1. bytes \in Seq(Bytes)
  <2>1. ASSUME bytes \in Chunks PROVE bytes \in Seq(Bytes)
    BY <2>1 DEF Chunks
  <2>2. <<>> \in Seq(Bytes)
    OBVIOUS
  <2> QED
    BY <2>1, <2>2, Zenon
<1>2. /\ line' = <<>> /\ discarding' = FALSE /\ out' = f.out /\ long' = f.long
      /\ first' = bytes /\ rest' = <<>> /\ open' = TRUE /\ sessions' = sessions + 1 /\ sessions < MaxSessions
  BY DEF Connect, FramingReset
<1>3. FramedTo(f, <<>> \o bytes, <<>>, 0)
  <2>1. <<>> \in Seq(Bytes) /\ <<>> \in Seq(Seq(Letters)) /\ 0 \in Nat
    OBVIOUS
  <2> QED
    BY <1>1, <2>1, FreshFramer, FeedKeeps
<1>4. <<>> \o bytes = bytes
  BY <1>1
<1>5. FramedTo(f, bytes, <<>>, 0)
  BY <1>3, <1>4, Zenon
<1> HIDE DEF f
<1>6. /\ f \in Framers /\ LinesOf(bytes) \in Seq(Seq(Letters))
      /\ f.out = <<>> \o LinesOf(bytes) /\ f.long = 0 + Cardinality(LongRuns(bytes))
  BY <1>5 DEF FramedTo
<1>7. f.out = LinesOf(bytes)
  <2>1. ASSUME NEW lines \in Seq(Seq(Letters)) PROVE <<>> \o lines = lines
    OBVIOUS
  <2> QED
    BY <1>6, <2>1, Zenon
<1>8. f.long = Cardinality(LongRuns(bytes)) /\ Cardinality(LongRuns(bytes)) \in Nat
  <2>1. Cardinality(LongRuns(bytes)) \in Nat
    BY <1>1, RunsFinite, FS_Subset, FS_CardinalityType DEF LongRuns
  <2> QED
    BY <1>6, <2>1
<1>9. Framer' \in Framers /\ Framer'.line = <<>> /\ Framer'.discarding = FALSE
      /\ Framer'.out = LinesOf(bytes) /\ Framer'.long = Cardinality(LongRuns(bytes))
  <2>1. Framer' = [line |-> <<>>, discarding |-> FALSE, out |-> LinesOf(bytes), long |-> Cardinality(LongRuns(bytes))]
    BY <1>2, <1>7, <1>8 DEF Framer
  <2>2. <<>> \in Seq(Letters) /\ FALSE \in BOOLEAN
    OBVIOUS
  <2>3. Framer' \in Framers
    BY <1>6, <1>8, <2>1, <2>2, Zenon DEF Framers
  <2> QED
    BY <2>1, <2>3
<1>10. FramedTo(Framer', <<>>, LinesOf(bytes), Cardinality(LongRuns(bytes)))
  BY <1>6, <1>8, <1>9, FramedNothing
<1>11. FramedTo(Framer', rest', LinesOf(first'), Cardinality(LongRuns(first')))
  BY <1>2, <1>10, Zenon
<1>12. open' \in BOOLEAN /\ sessions' \in 0 .. MaxSessions
  BY <1>2, BoundsAssumption DEF ReadInv
<1>13. first' \in Seq(Bytes) /\ rest' \in Seq(Bytes)
  BY <1>1, <1>2
<1>14. LinesOf(first') \in Seq(Seq(Letters)) /\ Cardinality(LongRuns(first')) \in Nat
  BY <1>2, <1>6, <1>8, Zenon
<1>15. FramedTo(Framer, rest, LinesOf(first), Cardinality(LongRuns(first)))'
  BY <1>11, Zenon
<1> QED
  BY <1>12, <1>13, <1>14, <1>15, Zenon DEF ReadInv

LEMMA ReadRecv ==
  ASSUME ReadInv, NEW bytes \in Chunks, Recv(bytes) PROVE ReadInv'
<1> DEFINE f == Feed(Framer, bytes)
<1>1. bytes \in Seq(Bytes)
  BY DEF Chunks
<1>2. /\ line' = f.line /\ discarding' = f.discarding /\ out' = f.out /\ long' = f.long
      /\ first' = first /\ rest' = rest \o bytes /\ open' = open /\ sessions' = sessions
  BY DEF Recv, Framer
<1>3. /\ rest \in Seq(Bytes) /\ LinesOf(first) \in Seq(Seq(Letters)) /\ Cardinality(LongRuns(first)) \in Nat
      /\ FramedTo(Framer, rest, LinesOf(first), Cardinality(LongRuns(first)))
  BY DEF ReadInv
<1>4. FramedTo(f, rest \o bytes, LinesOf(first), Cardinality(LongRuns(first)))
  BY <1>1, <1>3, FeedKeeps
<1> HIDE DEF f
<1>5. f = [line |-> f.line, discarding |-> f.discarding, out |-> f.out, long |-> f.long]
  BY <1>4 DEF FramedTo, Framers
<1>6. Framer' = f
  BY <1>2, <1>5, Zenon DEF Framer
<1>7. FramedTo(Framer', rest', LinesOf(first'), Cardinality(LongRuns(first')))
  BY <1>2, <1>4, <1>6, Zenon
<1>8. rest' \in Seq(Bytes) /\ first' \in Seq(Bytes)
  BY <1>1, <1>2, <1>3 DEF ReadInv
<1>9. open' \in BOOLEAN /\ sessions' \in 0 .. MaxSessions
  BY <1>2 DEF ReadInv
<1>10. LinesOf(first') \in Seq(Seq(Letters)) /\ Cardinality(LongRuns(first')) \in Nat
  BY <1>2, <1>3, Zenon
<1>11. FramedTo(Framer, rest, LinesOf(first), Cardinality(LongRuns(first)))'
  BY <1>7, Zenon
<1> QED
  BY <1>8, <1>9, <1>10, <1>11, Zenon DEF ReadInv

LEMMA ReadRest ==
  ASSUME ReadInv, open' \in BOOLEAN, UNCHANGED <<sessions, read>> PROVE ReadInv'
<1>1. Framer' = Framer /\ rest' = rest /\ first' = first /\ sessions' = sessions
  BY DEF Framer, read
<1> QED
  BY <1>1 DEF ReadInv

LEMMA ReadStep == ReadInv /\ [WireNext]_wireVars => ReadInv'
<1> SUFFICES ASSUME ReadInv, [WireNext]_wireVars PROVE ReadInv'
  OBVIOUS
<1>1. ASSUME NEW bytes \in Chunks \cup {<<>>}, Connect(bytes) PROVE ReadInv'
  BY <1>1, ReadConnect
<1>2. CASE Close
  BY <1>2, ReadRest DEF Close
<1>3. ASSUME NEW bytes \in Chunks, Recv(bytes) PROVE ReadInv'
  BY <1>3, ReadRecv
<1>4. ASSUME NEW sending \in Frames, SendToAprsIs(sending) PROVE ReadInv'
  BY <1>4, ReadRest DEF SendToAprsIs, ReadInv
<1>5. CASE UNCHANGED wireVars
  BY <1>5, ReadRest DEF wireVars, ReadInv
<1> QED
  BY <1>1, <1>2, <1>3, <1>4, <1>5 DEF WireNext

LEMMA ReadMeans == ReadInv => LinesSound
<1> SUFFICES ASSUME ReadInv PROVE LinesSound
  OBVIOUS
<1>1. /\ Framer \in Framers /\ Len(Framer.line) <= Cap
      /\ Framer.out = LinesOf(first) \o LinesOf(rest)
      /\ Framer.long = Cardinality(LongRuns(first)) + Cardinality(LongRuns(rest))
  BY DEF ReadInv, FramedTo
<1>2. Framer.line = line /\ Framer.discarding = discarding /\ Framer.out = out /\ Framer.long = long
  BY DEF Framer
<1>3. line \in Seq(Letters) /\ discarding \in BOOLEAN /\ out \in Seq(Seq(Letters)) /\ long \in Nat
  BY <1>1, <1>2 DEF Framers
<1>4. ReadTypes
  BY <1>1, <1>2, <1>3 DEF ReadTypes, ReadInv
<1>5. Framed
  BY <1>1, <1>2, Zenon DEF Framed
<1>6. LongCounted
  BY <1>1, <1>2, Zenon DEF LongCounted
<1> QED
  BY <1>4, <1>5, <1>6 DEF LinesSound

\* The lines handed to processAprsIsLine() are the lines of the bytes the
\* session's reads returned, whatever the chunks, the letters, the buffer and
\* the sessions before: none cut or joined to its neighbour, an over-long one
\* dropped whole and counted once (igate.c:381-469, 1990-2000).
THEOREM LinesKept == WireSpec => []LinesSound
<1> QED
  BY ReadStart, ReadStep, ReadMeans, PTL DEF WireSpec
=============================================================================
