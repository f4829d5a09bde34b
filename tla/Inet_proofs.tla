---------------------------- MODULE Inet_proofs ----------------------------
(***************************************************************************)
(* What APRS-IS brings.  The Winlink session: type correctness, the bound  *)
(* on the transmissions of a command and the cleanliness of a closed       *)
(* session, for every queue size, retry count and set of tasks, and the    *)
(* ring of commands as a bounded queue.  The gate to the radio: its        *)
(* verdicts, the stations it reaches, its follow-ups and its spacing, for  *)
(* every table of stations, ring, window and set of lines.                 *)
(***************************************************************************)
EXTENDS Winlink, InetGate, HeardList_proofs, WellFoundedInduction, TLAPS

-----------------------------------------------------------------------------
(* The gate to the radio: the inductive invariant                         *)

\* The table says of the air what the air said last.
HeardInv ==
  /\ now \in Nat /\ now # 0 /\ heard \in Seq(Row) /\ OneRowEach(heard)
  /\ lastAir \in [Calls -> [at : Nat, hops : Nat]]
  /\ \A i \in DOMAIN heard : heard[i].rf # 0 =>
        lastAir[heard[i].call].at = heard[i].rf /\ lastAir[heard[i].call].hops = heard[i].hops

\* While nothing else happens the log's verdict could be formed again.
HandInv ==
  /\ line \in Lines /\ stage \in {"idle", "logged", "heard"}
  /\ stage # "idle" /\ still => (verdict <=> Mirror(line))
  /\ stage = "heard" /\ still => (viaBm <=> (On("bm") /\ line.bm))

\* A source that was let through less than an interval ago has its slot, with its age.
Stamp == [call : Calls, age : 0 .. TickWrap - 1]
OneSlotEach(ring) == \A i, j \in DOMAIN ring : ring[i].call = ring[j].call => i = j
RateInv ==
  /\ rate \in Seq(Stamp) /\ OneSlotEach(rate)
  /\ spoke \in [Calls -> 0 .. Interval]
  /\ \A c \in Calls : spoke[c] < Interval =>
        \E i \in DOMAIN rate : rate[i].call = c /\ rate[i].age = spoke[c]

\* Whoever has a claim is owed one report, and has one claim.
AssocInv ==
  /\ assoc \in Seq(Calls) /\ (\A i, j \in DOMAIN assoc : assoc[i] = assoc[j] => i = j)
  /\ owed \in [Calls -> 0 .. 1]
  /\ \A i \in DOMAIN assoc : owed[assoc[i]] = 1

InetInv == HeardInv /\ HandInv /\ RateInv /\ AssocInv /\ faults = {}

LEMMA InetNumbers ==
  /\ Interval \in Nat /\ Interval > 0 /\ TickWrap \in Nat /\ TickWrap > 2 * Interval
  /\ RateMax \in Nat /\ AssocMax \in Nat /\ AssocMax > 0 /\ MaxHops \in Nat
  /\ Audible \subseteq Calls /\ NoLine \in Lines
  /\ \A l \in Lines : l.src \in Calls /\ (Wrapped(l) => l.inner.src \in Calls)
<1>1. NoLine \in Lines
  BY InetAssumption DEF NoLine
<1> QED
  BY <1>1, InetAssumption DEF Wrapped

LEMMA InetStart == InetInit => InetInv
<1> SUFFICES ASSUME InetInit PROVE InetInv
  OBVIOUS
<1>1. HeardInv
  BY DEF InetInit, HeardInv, OneRowEach
<1>2. HandInv
  BY InetNumbers DEF InetInit, HandInv
<1>3. RateInv
  BY InetNumbers DEF InetInit, RateInv, OneSlotEach, Silent
<1>4. AssocInv
  BY DEF InetInit, AssocInv
<1> QED
  BY <1>1, <1>2, <1>3, <1>4 DEF InetInv, InetInit

LEMMA HeardKept ==
  ASSUME HeardInv, HandInv, InetNext
  PROVE  HeardInv'
<1>0. heard \in Seq(Row) /\ OneRowEach(heard) /\ now \in Nat
  BY DEF HeardInv
<1>1. CASE Read \/ Skip \/ Decide \/ Save
  <2>1. UNCHANGED <<heard, now, lastAir>>
    BY <1>1 DEF Read, Skip, Decide, Save, ghosts
  <2> QED
    BY <2>1 DEF HeardInv
<1>2. CASE Enter
  <2> DEFINE frame == [rf |-> FALSE, direct |-> FALSE, hops |-> 0, tcpip |-> FALSE, bm |-> viaBm']
             c == line.src
             h == HeardRow(heard, c)
  <2>1. heard' = Added(heard, now, c, frame) /\ UNCHANGED <<now, lastAir>> /\ viaBm' \in BOOLEAN
    BY <1>2 DEF Enter, ghosts
  <2>2. c \in Calls /\ FrameTold(frame) /\ ~frame.rf
    BY <2>1, InetNumbers DEF HandInv, FrameTold
  <2> HIDE DEF frame, c
  <2>3. /\ heard' \in Seq(Row) /\ OneRowEach(heard') /\ 1 \in DOMAIN heard'
        /\ heard'[1] = Stamped(h, now, frame) /\ heard'[1].call = c
        /\ \A j \in DOMAIN heard' : j # 1 => heard'[j].call # c /\ \E i \in DOMAIN heard : heard[i] = heard'[j]
    <3> DEFINE new == Added(heard, now, c, frame)
    <3>1. /\ new \in Seq(Row) /\ OneRowEach(new) /\ 1 \in DOMAIN new
          /\ new[1] = Stamped(h, now, frame) /\ new[1].call = c
          /\ \A j \in DOMAIN new : j # 1 => new[j].call # c /\ \E i \in DOMAIN heard : heard[i] = new[j]
      BY <1>0, <2>2, AddedIs
    <3> QED
      BY <2>1, <2>2, <3>1
  <2>4. /\ h \in Row /\ h.call = c
        /\ \A i \in DOMAIN heard : heard[i].call = c => h = heard[i]
        /\ HeardRows(heard, c) = {} => h.rf = 0
    BY <2>2, HeardRowIs DEF HeardInv
  <2> HIDE DEF h
  <2>5. heard'[1].rf = h.rf /\ heard'[1].hops = h.hops
    BY SMTT(20), <2>2, <2>3, <2>4, StampedIsRow DEF HeardInv
  <2>6. ASSUME NEW i \in DOMAIN heard', heard'[i].rf # 0
        PROVE  lastAir[heard'[i].call].at = heard'[i].rf /\ lastAir[heard'[i].call].hops = heard'[i].hops
    <3>1. PICK m \in DOMAIN heard : heard[m].call = heard'[i].call /\ heard[m].rf = heard'[i].rf
                                    /\ heard[m].hops = heard'[i].hops
      <4>1. CASE i = 1
        <5>1. HeardRows(heard, c) # {}
          BY <2>4, <2>5, <2>6, <4>1
        <5>2. PICK m \in DOMAIN heard : heard[m].call = c
          BY <5>1 DEF HeardRows
        <5> QED
          BY <2>3, <2>4, <2>5, <4>1, <5>2
      <4>2. CASE i # 1
        BY <2>3, <4>2
      <4> QED
        BY <4>1, <4>2
    <3> QED
      BY <2>6, <3>1 DEF HeardInv
  <2> QED
    BY <2>1, <2>3, <2>6 DEF HeardInv
<1>3. CASE HearOnAir
  <2>1. PICK c \in Audible, hops \in {0, MaxHops + 1} :
          /\ heard' = Added(heard, now, c, [rf |-> TRUE, direct |-> hops = 0, hops |-> hops,
                                            tcpip |-> FALSE, bm |-> FALSE])
          /\ lastAir' = [lastAir EXCEPT ![c] = [at |-> now, hops |-> hops]]
    BY <1>3 DEF HearOnAir
  <2>2. UNCHANGED now
    BY <1>3 DEF HearOnAir
  <2> DEFINE frame == [rf |-> TRUE, direct |-> hops = 0, hops |-> hops, tcpip |-> FALSE, bm |-> FALSE]
             h == HeardRow(heard, c)
  <2>3. c \in Calls /\ hops \in Nat /\ FrameTold(frame) /\ frame.rf /\ frame.hops = hops
    BY InetNumbers DEF FrameTold
  <2>4. heard' = Added(heard, now, c, frame)
    BY <2>1
  <2> HIDE DEF frame
  <2>5. /\ heard' \in Seq(Row) /\ OneRowEach(heard') /\ 1 \in DOMAIN heard'
        /\ heard'[1] = Stamped(h, now, frame) /\ heard'[1].call = c
        /\ \A j \in DOMAIN heard' : j # 1 => heard'[j].call # c /\ \E i \in DOMAIN heard : heard[i] = heard'[j]
    <3> DEFINE new == Added(heard, now, c, frame)
    <3>1. /\ new \in Seq(Row) /\ OneRowEach(new) /\ 1 \in DOMAIN new
          /\ new[1] = Stamped(h, now, frame) /\ new[1].call = c
          /\ \A j \in DOMAIN new : j # 1 => new[j].call # c /\ \E i \in DOMAIN heard : heard[i] = new[j]
      <4>1. c \in Calls /\ FrameTold(frame)
        BY <2>3
      <4> QED
        BY <1>0, <4>1, AddedIs
    <3> QED
      BY <2>3, <2>4, <3>1
  <2>6. h \in Row
    BY <2>3, HeardRowIs DEF HeardInv
  <2> HIDE DEF h
  <2>7. heard'[1].rf = now /\ heard'[1].hops = hops
    BY <1>0, <2>3, <2>5, <2>6, StampedIsRow
  <2>8. lastAir' \in [Calls -> [at : Nat, hops : Nat]]
    BY <2>1, <2>3 DEF HeardInv
  <2>9. /\ lastAir'[c].at = now /\ lastAir'[c].hops = hops
        /\ \A d \in Calls : d # c => lastAir'[d] = lastAir[d]
    BY <2>1, <2>3 DEF HeardInv
  <2>10. ASSUME NEW i \in DOMAIN heard', heard'[i].rf # 0
         PROVE  lastAir'[heard'[i].call].at = heard'[i].rf /\ lastAir'[heard'[i].call].hops = heard'[i].hops
    <3>1. CASE i = 1
      BY <2>5, <2>7, <2>9, <3>1
    <3>2. CASE i # 1
      <4>1. PICK m \in DOMAIN heard : heard[m] = heard'[i]
        BY <2>5, <3>2
      <4>2. heard[m] \in Row /\ heard[m].call # c
        BY <2>5, <3>2, <4>1 DEF HeardInv
      <4>3. heard[m].call \in Calls
        BY <4>2 DEF Row
      <4> QED
        BY <2>9, <2>10, <4>1, <4>2, <4>3 DEF HeardInv
    <3> QED
      BY <3>1, <3>2
  <2> QED
    BY <2>2, <2>5, <2>8, <2>10 DEF HeardInv
<1>4. CASE InetTick
  <2>1. UNCHANGED <<heard, lastAir>> /\ now' \in Nat /\ now' # 0
    BY <1>4, HeardNumbers DEF InetTick, ClockRuns, ClockSet, HeardInv
  <2> QED
    BY <2>1 DEF HeardInv
<1> QED
  BY <1>1, <1>2, <1>3, <1>4 DEF InetNext

\* What the settings, the rings and the table say of a line is the log's verdict on it.
LEMMA MirrorSame ==
  ASSUME NEW l, UNCHANGED <<config, assoc, heard, now>>, line' = l
  PROVE  Mirror(line)' <=> Mirror(l)
<1> QED
  BY DEF Mirror, Owed, Passes, On, OutOfRange, MirrorUnwraps, Budlist, MirrorPlace

\* Entering the sender of a line in the table leaves the verdict.
LEMMA MirrorEntered ==
  ASSUME HeardInv, HandInv, Enter, still'
  PROVE  Mirror(line)' <=> Mirror(line)
<1> DEFINE frame == [rf |-> FALSE, direct |-> FALSE, hops |-> 0, tcpip |-> FALSE, bm |-> viaBm']
           follow == Owed(line)
           inner == ~follow /\ ~Passes(line) /\ MirrorUnwraps(line)
           p == IF inner THEN line.inner ELSE line
<1>1. /\ heard' = Added(heard, now, line.src, frame) /\ viaBm' \in BOOLEAN
      /\ UNCHANGED <<config, assoc, now, line>> /\ still /\ ~Pushed(heard')
  BY DEF Enter, settings, rings
<1>2. heard \in Seq(Row) /\ OneRowEach(heard) /\ now \in Nat /\ line.src \in Calls
  BY InetNumbers DEF HeardInv, HandInv
<1>3. FrameTold(frame) /\ ~frame.rf
  BY <1>1 DEF FrameTold
<1> HIDE DEF frame
<1>4. HeardRf(heard', now, line.src, Window, 255) <=> HeardRf(heard, now, line.src, Window, 255)
  <2> DEFINE c == line.src
  <2>1. c \in Calls /\ heard' = Added(heard, now, c, frame)
    BY <1>1, <1>2
  <2> HIDE DEF c
  <2>2. HeardRf(Added(heard, now, c, frame), now, c, Window, 255) <=> HeardRf(heard, now, c, Window, 255)
    BY <1>2, <1>3, <2>1, AirUntouched
  <2> QED
    BY <2>1, <2>2 DEF c
<1>5. ASSUME Wrapped(line)
      PROVE  HeardRf(heard', now, line.inner.src, Window, 255) <=> HeardRf(heard, now, line.inner.src, Window, 255)
  <2> DEFINE d == line.inner.src
             new == Added(heard, now, line.src, frame)
  <2>1. HeardRows(heard, d) = {} \/ HeardRows(new, d) # {}
    BY <1>1, <1>5 DEF Pushed
  <2> HIDE DEF d
  <2>2. HeardRf(new, now, d, Window, 255) <=> HeardRf(heard, now, d, Window, 255)
    BY <1>2, <1>3, <2>1, AirUntouched
  <2> QED
    BY <1>1, <2>2 DEF d
<1>6. inner => Wrapped(line)
  BY DEF MirrorUnwraps
<1>7. HeardRf(heard', now, p.src, Window, 255) <=> HeardRf(heard, now, p.src, Window, 255)
  <2>1. CASE inner
    <3>1. p = line.inner
      BY <2>1
    <3> HIDE DEF p, inner
    <3> QED
      BY <1>5, <1>6, <2>1, <3>1
  <2>2. CASE ~inner
    <3>1. p = line
      BY <2>2
    <3> HIDE DEF p, inner
    <3> QED
      BY <1>4, <3>1
  <2> QED
    BY <2>1, <2>2
<1> DEFINE old == HeardRf(heard, now, p.src, Window, 255)
           new == HeardRf(heard', now, p.src, Window, 255)
           rest == /\ follow \/ ~OutOfRange(line)
                   /\ follow \/ Passes(line) \/ MirrorUnwraps(line)
                   /\ Budlist(p.src)
                   /\ MirrorPlace(line, p, follow)
           asks == On("heardOnly") /\ ~follow /\ ~IsMessage(p)
<1>8. Mirror(line) <=> rest /\ (asks => old)
  BY DEF Mirror
<1>9. Mirror(line)' <=> rest /\ (asks => new)
  BY <1>1 DEF Mirror, Owed, Passes, On, OutOfRange, MirrorUnwraps, Budlist, MirrorPlace
<1> HIDE DEF rest, asks, p, inner, follow
<1> QED
  BY <1>7, <1>8, <1>9

LEMMA HandKept ==
  ASSUME HeardInv, HandInv, InetNext
  PROVE  HandInv'
<1>1. CASE Read
  <2>1. PICK l \in Lines : line' = l /\ (verdict' <=> Mirror(l))
    BY <1>1 DEF Read
  <2>2. /\ stage' = "logged" /\ UNCHANGED <<config, assoc, heard, now>>
    BY <1>1 DEF Read, settings, rings
  <2>3. Mirror(line)' <=> Mirror(l)
    BY <2>1, <2>2, MirrorSame
  <2> QED
    BY <2>1, <2>2, <2>3 DEF HandInv
<1>2. CASE Skip \/ Decide
  <2>1. line' = NoLine /\ stage' = "idle"
    BY <1>2 DEF Skip, Decide
  <2> QED
    BY <2>1, InetNumbers DEF HandInv
<1>3. CASE Enter
  <2>1. /\ stage' = "heard" /\ stage = "logged" /\ (viaBm' <=> (On("bm") /\ line.bm)) /\ (still' => still)
        /\ UNCHANGED <<config, line, verdict>>
    BY <1>3 DEF Enter, settings
  <2>2. still' => (Mirror(line)' <=> Mirror(line))
    BY <1>3, MirrorEntered
  <2>3. (On("bm") /\ line.bm)' <=> (On("bm") /\ line.bm)
    BY <2>1 DEF On
  <2> QED
    BY <2>1, <2>2, <2>3 DEF HandInv
<1>4. CASE HearOnAir \/ Save \/ InetTick
  <2>1. UNCHANGED <<line, stage>> /\ ~still'
    BY <1>4 DEF HearOnAir, Save, InetTick
  <2> QED
    BY <2>1 DEF HandInv
<1> QED
  BY <1>1, <1>2, <1>3, <1>4 DEF InetNext

-----------------------------------------------------------------------------
(* The rules of the gate *)

LEMMA LeastOne ==
  ASSUME NEW S \in SUBSET Nat, S # {}
  PROVE  \E m \in S : \A j \in S : m <= j
<1> DEFINE R == {p \in Nat \X Nat : p[1] < p[2]}
<1>1. IsWellFoundedOn(R, Nat)
  BY NatLessThanWellFounded, Zenon DEF OpToRel
<1>2. PICK x \in S : \A y \in S : ~(<<y, x>> \in R)
  <2> HIDE DEF R
  <2> QED
    BY <1>1, WFMin
<1>3. \A y \in S : ~(y < x)
  BY <1>2
<1> QED
  BY <1>3

\* The first rule that applies names the reason.
LEMMA FirstRule ==
  ASSUME NEW r, DOMAIN r \subseteq Nat
  PROVE  \/ FirstOf(r) = "sent" /\ \A i \in DOMAIN r : ~r[i][1]
         \/ \E k \in DOMAIN r : r[k][1] /\ FirstOf(r) = r[k][2] /\ \A i \in DOMAIN r : i < k => ~r[i][1]
<1> DEFINE hits == {i \in DOMAIN r : r[i][1]}
<1>1. CASE hits = {}
  BY <1>1 DEF FirstOf
<1>2. CASE hits # {}
  <2> DEFINE k == CHOOSE i \in hits : \A j \in hits : i <= j
  <2>1. hits \in SUBSET Nat
    OBVIOUS
  <2>2. k \in hits /\ \A j \in hits : k <= j
    <3> HIDE DEF hits
    <3> QED
      BY <1>2, <2>1, LeastOne
  <2>3. FirstOf(r) = r[k][2]
    BY <1>2 DEF FirstOf
  <2> HIDE DEF k
  <2>4. \A i \in DOMAIN r : i < k => ~r[i][1]
    BY <2>1, <2>2
  <2> QED
    BY <2>2, <2>3, <2>4
<1> QED
  BY <1>1, <1>2

\* The rules of a line that is no message, or is not gated as one, and of one that is.
LEMMA WithoutGate ==
  ASSUME NEW a1, NEW a2, NEW a3, NEW a4, NEW a5, NEW a6, NEW a7, NEW a8, NEW a9, NEW a10, NEW c, NEW r, r = <<a1, a2, a3, a4, a5, a6, a7, a8, a9, a10>> \o <<>> \o <<c>>
  PROVE  /\ DOMAIN r = 1 .. 11
         /\ r[1] = a1 /\ r[2] = a2 /\ r[3] = a3 /\ r[4] = a4 /\ r[5] = a5 /\ r[6] = a6 /\ r[7] = a7 /\ r[8] = a8 /\ r[9] = a9 /\ r[10] = a10 /\ r[11] = c
<1> QED
  OBVIOUS

LEMMA WithGate ==
  ASSUME NEW a1, NEW a2, NEW a3, NEW a4, NEW a5, NEW a6, NEW a7, NEW a8, NEW a9, NEW a10, NEW b1, NEW b2, NEW b3, NEW b4, NEW c,
         NEW r, r = <<a1, a2, a3, a4, a5, a6, a7, a8, a9, a10>> \o <<b1, b2, b3, b4>> \o <<c>>
  PROVE  /\ DOMAIN r = 1 .. 15
         /\ r[1] = a1 /\ r[2] = a2 /\ r[3] = a3 /\ r[4] = a4 /\ r[5] = a5 /\ r[6] = a6 /\ r[7] = a7 /\ r[8] = a8 /\ r[9] = a9 /\ r[10] = a10
         /\ r[11] = b1 /\ r[12] = b2 /\ r[13] = b3 /\ r[14] = b4 /\ r[15] = c
<1> QED
  OBVIOUS

\* What the gate's filters ask of a line and of the packet that would go on the air.
FiltersPass(l, p, follow) ==
  /\ follow \/ ~OutOfRange(l)
  /\ follow \/ Passes(l) \/ Unwraps(l)
  /\ Budlist(p.src)
  /\ follow \/ IsMessage(p) \/ Placed(p) \/ ~(On("position") \/ viaBm)
  /\ On("heardOnly") /\ ~follow /\ ~IsMessage(p) => HeardRf(heard, now, p.src, Window, 255)

TooSoonFor(p, follow) == ~follow /\ ~IsMessage(p) /\ On("spacing") /\ TooSoon(p.src)

\* What the reason of a decision says of the rules.
LEMMA RulesSay ==
  ASSUME NEW l, NEW p, NEW follow, NEW why, why = FirstOf(Rules(l, p, follow))
  PROVE  /\ why \in Filters => ~FiltersPass(l, p, follow)
         /\ why \notin BeforeFilters \cup Filters \cup {"off"} => FiltersPass(l, p, follow)
         /\ why \in {"sent", "frame"} => ~TooSoonFor(p, follow)
         /\ why = "sent" /\ On("gate") /\ IsMessage(p) => HeardRf(heard, now, p.dest, Window, MaxHops)
<1> DEFINE a1 == <<l.kind = "query", "query">>
           a2 == <<OwnReport(l), "own">>
           a3 == <<HeaderForbids(l), "header">>
           a4 == <<Broadcast(l), "broadcast">>
           a5 == <<~follow /\ OutOfRange(l), "range">>
           a6 == <<~follow /\ ~Passes(l) /\ ~Unwraps(l), "type">>
           a7 == <<~Budlist(p.src), "budlist">>
           a8 == <<~follow /\ ~IsMessage(p) /\ ~Placed(p) /\ (On("position") \/ viaBm), "noPosition">>
           a9 == <<~follow /\ ~IsMessage(p) /\ On("heardOnly")
                   /\ ~HeardRf(heard, now, p.src, Window, 255), "notHeard">>
           a10 == <<~follow /\ ~IsMessage(p) /\ On("spacing") /\ TooSoon(p.src), "rate">>
           exempt == On("wlExempt") /\ p.src \in Services
           b1 == <<~HeardRf(heard, now, p.dest, Window, 255), "notLocal">>
           b2 == <<~HeardRf(heard, now, p.dest, Window, MaxHops), "hops">>
           b3 == <<~exempt /\ HeardInet(heard, now, p.dest, Window), "online">>
           b4 == <<HeardRf(heard, now, p.src, Window, 255), "senderLocal">>
           c == <<~Framed(p), "frame">>
           gated == On("gate") /\ IsMessage(p)
           r == Rules(l, p, follow)
<1>1. /\ a1[2] = "query" /\ a2[2] = "own" /\ a3[2] = "header" /\ a4[2] = "broadcast" /\ a5[2] = "range"
      /\ a6[2] = "type" /\ a7[2] = "budlist" /\ a8[2] = "noPosition" /\ a9[2] = "notHeard" /\ a10[2] = "rate"
      /\ b1[2] = "notLocal" /\ b2[2] = "hops" /\ b3[2] = "online" /\ b4[2] = "senderLocal" /\ c[2] = "frame"
  OBVIOUS
<1>2. FiltersPass(l, p, follow) <=> ~a5[1] /\ ~a6[1] /\ ~a7[1] /\ ~a8[1] /\ ~a9[1]
  BY DEF FiltersPass
<1>3. TooSoonFor(p, follow) <=> a10[1]
  BY DEF TooSoonFor
<1>4. ~b2[1] => HeardRf(heard, now, p.dest, Window, MaxHops)
  OBVIOUS
<1>5. ~gated => r = <<a1, a2, a3, a4, a5, a6, a7, a8, a9, a10>> \o <<>> \o <<c>>
  BY DEF Rules
<1>6. gated => r = <<a1, a2, a3, a4, a5, a6, a7, a8, a9, a10>> \o <<b1, b2, b3, b4>> \o <<c>>
  BY DEF Rules, MessageRules
<1>7. why = FirstOf(r)
  OBVIOUS
<1>8. gated <=> On("gate") /\ IsMessage(p)
  OBVIOUS
<1> HIDE DEF a1, a2, a3, a4, a5, a6, a7, a8, a9, a10, b1, b2, b3, b4, c, gated, r
<1>9. CASE ~gated
  <2>1. /\ DOMAIN r = 1 .. 11
        /\ r[1] = a1 /\ r[2] = a2 /\ r[3] = a3 /\ r[4] = a4 /\ r[5] = a5 /\ r[6] = a6 /\ r[7] = a7 /\ r[8] = a8 /\ r[9] = a9 /\ r[10] = a10 /\ r[11] = c
    BY <1>5, <1>9, WithoutGate
  <2>2. CASE FirstOf(r) = "sent" /\ \A i \in DOMAIN r : ~r[i][1]
    <3>1. ~r[5][1] /\ ~r[6][1] /\ ~r[7][1] /\ ~r[8][1] /\ ~r[9][1] /\ ~r[10][1]
      BY <2>1, <2>2
    <3> QED
      BY <1>2, <1>3, <1>7, <1>8, <1>9, <2>1, <2>2, <3>1 DEF Filters
  <2>3. ASSUME NEW k \in DOMAIN r, r[k][1], FirstOf(r) = r[k][2], \A i \in DOMAIN r : i < k => ~r[i][1]
        PROVE  /\ why \in Filters => ~FiltersPass(l, p, follow)
               /\ why \notin BeforeFilters \cup Filters \cup {"off"} => FiltersPass(l, p, follow)
               /\ why \in {"sent", "frame"} => ~TooSoonFor(p, follow)
               /\ why # "sent"
    <3>1. \/ k = 1 \/ k = 2 \/ k = 3 \/ k = 4 \/ k = 5 \/ k = 6 \/ k = 7 \/ k = 8 \/ k = 9 \/ k = 10 \/ k = 11
      BY <2>1
    <3>2. k >= 10 => ~r[5][1] /\ ~r[6][1] /\ ~r[7][1] /\ ~r[8][1] /\ ~r[9][1]
      BY <2>1, <2>3
    <3>3. k >= 11 => ~r[10][1]
      BY <2>1, <2>3
    <3>4. CASE k \in {1, 2, 3, 4}
      BY <1>1, <1>7, <2>1, <2>3, <3>4 DEF Filters, BeforeFilters
    <3>5. CASE k \in {5, 6, 7, 8, 9}
      BY <1>1, <1>2, <1>7, <2>1, <2>3, <3>5 DEF Filters, BeforeFilters
    <3>6. CASE k = 10
      BY <1>1, <1>2, <1>7, <2>1, <2>3, <3>2, <3>6 DEF Filters, BeforeFilters
    <3>7. CASE k = 11
      BY <1>1, <1>2, <1>3, <1>7, <2>1, <2>3, <3>2, <3>3, <3>7 DEF Filters, BeforeFilters
    <3> QED
      BY <3>1, <3>4, <3>5, <3>6, <3>7
  <2>4. DOMAIN r \subseteq Nat
    BY <2>1
  <2> QED
    BY <1>8, <1>9, <2>2, <2>3, <2>4, FirstRule
<1>10. CASE gated
  <2>1. /\ DOMAIN r = 1 .. 15
        /\ r[1] = a1 /\ r[2] = a2 /\ r[3] = a3 /\ r[4] = a4 /\ r[5] = a5 /\ r[6] = a6 /\ r[7] = a7 /\ r[8] = a8 /\ r[9] = a9 /\ r[10] = a10
        /\ r[11] = b1 /\ r[12] = b2 /\ r[13] = b3 /\ r[14] = b4 /\ r[15] = c
    BY <1>6, <1>10, WithGate
  <2>2. CASE FirstOf(r) = "sent" /\ \A i \in DOMAIN r : ~r[i][1]
    <3>1. ~r[5][1] /\ ~r[6][1] /\ ~r[7][1] /\ ~r[8][1] /\ ~r[9][1] /\ ~r[10][1] /\ ~r[12][1]
      BY <2>1, <2>2
    <3> QED
      BY <1>2, <1>3, <1>4, <1>7, <2>1, <2>2, <3>1 DEF Filters
  <2>3. ASSUME NEW k \in DOMAIN r, r[k][1], FirstOf(r) = r[k][2], \A i \in DOMAIN r : i < k => ~r[i][1]
        PROVE  /\ why \in Filters => ~FiltersPass(l, p, follow)
               /\ why \notin BeforeFilters \cup Filters \cup {"off"} => FiltersPass(l, p, follow)
               /\ why \in {"sent", "frame"} => ~TooSoonFor(p, follow)
               /\ why # "sent"
    <3>1. \/ k = 1 \/ k = 2 \/ k = 3 \/ k = 4 \/ k = 5 \/ k = 6 \/ k = 7 \/ k = 8 \/ k = 9 \/ k = 10
          \/ k = 11 \/ k = 12 \/ k = 13 \/ k = 14 \/ k = 15
      BY <2>1
    <3>2. k >= 10 => ~r[5][1] /\ ~r[6][1] /\ ~r[7][1] /\ ~r[8][1] /\ ~r[9][1]
      BY <2>1, <2>3
    <3>3. k >= 11 => ~r[10][1]
      BY <2>1, <2>3
    <3>4. CASE k \in {1, 2, 3, 4}
      BY <1>1, <1>7, <2>1, <2>3, <3>4 DEF Filters, BeforeFilters
    <3>5. CASE k \in {5, 6, 7, 8, 9}
      BY <1>1, <1>2, <1>7, <2>1, <2>3, <3>5 DEF Filters, BeforeFilters
    <3>6. CASE k = 10
      BY <1>1, <1>2, <1>7, <2>1, <2>3, <3>2, <3>6 DEF Filters, BeforeFilters
    <3>7. CASE k \in {11, 12, 13, 14, 15}
      BY <1>1, <1>2, <1>3, <1>7, <2>1, <2>3, <3>2, <3>3, <3>7 DEF Filters, BeforeFilters
    <3> QED
      BY <3>1, <3>4, <3>5, <3>6, <3>7
  <2>4. DOMAIN r \subseteq Nat
    BY <2>1
  <2> QED
    BY <2>2, <2>3, <2>4, FirstRule
<1> QED
  BY <1>9, <1>10

-----------------------------------------------------------------------------
(* The ring of sources *)

LEMMA SignedAge ==
  ASSUME NEW a \in 0 .. TickWrap - 1, a < Interval
  PROVE  Signed(a) < Interval
<1>1. a % TickWrap = a
  BY InetNumbers
<1>2. a < TickWrap \div 2
  BY InetNumbers
<1> QED
  BY <1>1, <1>2 DEF Signed

\* Taking a slot gives the source an age of nothing and leaves the others theirs.
LEMMA ClaimedIs ==
  ASSUME rate \in Seq(Stamp), OneSlotEach(rate), NEW c \in Calls
  PROVE  /\ Claimed(c) \in Seq(Stamp) /\ OneSlotEach(Claimed(c))
         /\ \A j \in DOMAIN Claimed(c) : Claimed(c)[j].call = c => Claimed(c)[j].age = 0
         /\ \A j \in DOMAIN Claimed(c) : Claimed(c)[j].call # c => j \in DOMAIN rate /\ Claimed(c)[j] = rate[j]
<1> DEFINE mine == [call |-> c, age |-> 0]
           new == Claimed(c)
<1>1. mine \in Stamp /\ mine.call = c /\ mine.age = 0
  BY InetNumbers DEF Stamp
<1> HIDE DEF mine
<1>2. CASE Slot(c) # {}
  <2> DEFINE k == CHOOSE i \in Slot(c) : TRUE
  <2>1. k \in DOMAIN rate /\ rate[k].call = c
    BY <1>2 DEF Slot
  <2>2. new = [rate EXCEPT ![k] = mine]
    BY <1>2 DEF Claimed, mine
  <2> HIDE DEF k, new
  <2>3. new \in Seq(Stamp) /\ DOMAIN new = DOMAIN rate /\ new[k] = mine
        /\ \A j \in DOMAIN new : j # k => new[j] = rate[j]
    BY <1>1, <2>1, <2>2
  <2>4. \A j \in DOMAIN new : new[j].call = rate[j].call
    BY <1>1, <2>1, <2>3
  <2>5. \A j \in DOMAIN new : new[j].call = c => j = k
    BY <2>1, <2>3, <2>4 DEF OneSlotEach
  <2> QED
    BY <1>1, <2>3, <2>4, <2>5 DEF OneSlotEach, new
<1>3. CASE Slot(c) = {} /\ Len(rate) < RateMax
  <2>1. new = Append(rate, mine)
    BY <1>3 DEF Claimed, mine
  <2>2. \A j \in DOMAIN rate : rate[j].call # c
    BY <1>3 DEF Slot
  <2> HIDE DEF new
  <2>3. /\ new \in Seq(Stamp) /\ DOMAIN new = 1 .. Len(rate) + 1 /\ new[Len(rate) + 1] = mine
        /\ DOMAIN rate = 1 .. Len(rate) /\ Len(rate) \in Nat
        /\ \A j \in 1 .. Len(rate) : new[j] = rate[j]
    BY <1>1, <2>1
  <2>4. \A j \in DOMAIN new : IF j = Len(rate) + 1 THEN new[j] = mine
                              ELSE j \in DOMAIN rate /\ new[j] = rate[j] /\ new[j].call # c
    BY <2>2, <2>3
  <2>5. OneSlotEach(new)
    BY <1>1, <2>4 DEF OneSlotEach
  <2> QED
    BY <1>1, <2>3, <2>4, <2>5 DEF new
<1>4. CASE Slot(c) = {} /\ ~(Len(rate) < RateMax)
  <2>1. new = [rate EXCEPT ![Oldest] = mine]
    BY <1>4 DEF Claimed, mine
  <2>2. \A j \in DOMAIN rate : rate[j].call # c
    BY <1>4 DEF Slot
  <2> DEFINE k == Oldest
  <2> HIDE DEF k, new
  <2>3. new \in Seq(Stamp) /\ DOMAIN new = DOMAIN rate
        /\ \A j \in DOMAIN new : new[j] = IF j = k THEN mine ELSE rate[j]
    <3>1. new = [rate EXCEPT ![k] = mine]
      BY <2>1 DEF k
    <3>2. DOMAIN new = DOMAIN rate /\ DOMAIN rate = 1 .. Len(rate) /\ Len(rate) \in Nat
      BY <3>1
    <3>3. \A j \in DOMAIN new : new[j] = (IF j = k THEN mine ELSE rate[j]) /\ new[j] \in Stamp
      BY <1>1, <3>1, <3>2
    <3>4. new = [j \in 1 .. Len(rate) |-> IF j = k THEN mine ELSE rate[j]]
      BY <3>1, <3>2
    <3>5. \A j \in 1 .. Len(rate) : (IF j = k THEN mine ELSE rate[j]) \in Stamp
      BY <3>2, <3>3
    <3>6. new \in Seq(Stamp)
      BY <3>2, <3>4, <3>5
    <3> QED
      BY <3>2, <3>3, <3>6
  <2>4. OneSlotEach(new)
    BY <1>1, <2>2, <2>3 DEF OneSlotEach
  <2> QED
    BY <1>1, <2>2, <2>3, <2>4 DEF new
<1> QED
  BY <1>2, <1>3, <1>4

LEMMA RateKept ==
  ASSUME HandInv, RateInv, InetNext
  PROVE  RateInv'
<1>1. CASE Read \/ Skip \/ Enter \/ HearOnAir
  <2>1. UNCHANGED <<rate, spoke>>
    BY <1>1 DEF Read, Skip, Enter, HearOnAir, rings, ghosts
  <2> QED
    BY <2>1 DEF RateInv
<1>2. CASE Save
  <2>1. UNCHANGED rate /\ spoke' = [c \in Calls |-> Silent]
    BY <1>2 DEF Save, rings
  <2> QED
    BY <2>1, InetNumbers DEF RateInv, Silent
<1>3. CASE InetTick
  <2> DEFINE aged(r) == [r EXCEPT !.age = (@ + 1) % TickWrap]
  <2>1. /\ rate' = [i \in DOMAIN rate |-> aged(rate[i])]
        /\ spoke' = [c \in Calls |-> Lesser(spoke[c] + 1, Silent)]
    BY <1>3 DEF InetTick
  <2>2. ASSUME NEW r \in Stamp
        PROVE  aged(r) \in Stamp /\ aged(r).call = r.call /\ aged(r).age = (r.age + 1) % TickWrap
    <3>1. r.age \in Nat
      BY DEF Stamp
    <3>2. (r.age + 1) % TickWrap \in 0 .. TickWrap - 1
      BY <3>1, InetNumbers
    <3> QED
      BY <3>2 DEF Stamp
  <2> HIDE DEF aged
  <2>3. rate \in Seq(Stamp) /\ \A i \in DOMAIN rate : rate[i] \in Stamp
    BY DEF RateInv
  <2>4. rate' \in Seq(Stamp) /\ DOMAIN rate' = DOMAIN rate
        /\ \A i \in DOMAIN rate : rate'[i].call = rate[i].call /\ rate'[i].age = (rate[i].age + 1) % TickWrap
    <3>1. DOMAIN rate' = 1 .. Len(rate) /\ Len(rate) \in Nat /\ DOMAIN rate = 1 .. Len(rate)
      BY <2>1, <2>3
    <3>2. \A i \in 1 .. Len(rate) : rate'[i] = aged(rate[i]) /\ rate'[i] \in Stamp
      BY <2>1, <2>2, <2>3, <3>1
    <3>3. rate' \in Seq(Stamp)
      BY <2>1, <3>1, <3>2
    <3> QED
      BY <2>2, <2>3, <3>1, <3>2, <3>3
  <2>5. OneSlotEach(rate')
    BY <2>4 DEF RateInv, OneSlotEach
  <2>6. spoke' \in [Calls -> 0 .. Interval]
    <3>1. \A c \in Calls : spoke[c] \in 0 .. Interval
      BY DEF RateInv
    <3>2. \A c \in Calls : Lesser(spoke[c] + 1, Silent) \in 0 .. Interval
      BY <3>1, InetNumbers DEF Lesser, Silent
    <3> QED
      BY <2>1, <3>2
  <2>7. ASSUME NEW c \in Calls, spoke'[c] < Interval
        PROVE  \E i \in DOMAIN rate' : rate'[i].call = c /\ rate'[i].age = spoke'[c]
    <3>1. spoke[c] \in 0 .. Interval /\ spoke'[c] = Lesser(spoke[c] + 1, Silent)
      BY <2>1 DEF RateInv
    <3>2. spoke[c] < Interval /\ spoke'[c] = spoke[c] + 1 /\ spoke[c] + 1 < Interval
      BY <2>7, <3>1, InetNumbers DEF Lesser, Silent
    <3>3. PICK i \in DOMAIN rate : rate[i].call = c /\ rate[i].age = spoke[c]
      BY <3>2 DEF RateInv
    <3>4. (spoke[c] + 1) % TickWrap = spoke[c] + 1
      BY <3>1, <3>2, InetNumbers
    <3> QED
      BY <2>4, <3>2, <3>3, <3>4
  <2> QED
    BY <2>4, <2>5, <2>6, <2>7 DEF RateInv
<1>4. CASE Decide
  <2> DEFINE follow == Owed(line)
             p == IF ~follow /\ ~Passes(line) /\ Unwraps(line) THEN line.inner ELSE line
             why == IF On("inet2rf") THEN FirstOf(Rules(line, p, follow)) ELSE "off"
             claims == ~follow /\ ~IsMessage(p) /\ On("spacing") /\ why \in {"sent", "frame"}
  <2>1. /\ rate' = IF claims THEN Claimed(p.src) ELSE rate
        /\ spoke' = [c \in Calls |->
                IF ~(\E i \in DOMAIN rate' : rate'[i].call = c) THEN Silent
                ELSE IF claims /\ c = p.src THEN 0 ELSE spoke[c]]
    BY <1>4 DEF Decide
  <2>2. p.src \in Calls
    BY InetNumbers DEF HandInv, Unwraps
  <2>3. claims \in BOOLEAN
    OBVIOUS
  <2> HIDE DEF claims, p
  <2>4. /\ rate \in Seq(Stamp) /\ OneSlotEach(rate) /\ spoke \in [Calls -> 0 .. Interval]
        /\ \A c \in Calls : spoke[c] < Interval =>
              \E i \in DOMAIN rate : rate[i].call = c /\ rate[i].age = spoke[c]
    BY DEF RateInv
  <2>5. /\ rate' \in Seq(Stamp) /\ OneSlotEach(rate')
        /\ claims => \A j \in DOMAIN rate' : rate'[j].call = p.src => rate'[j].age = 0
        /\ \A j \in DOMAIN rate' : (claims /\ rate'[j].call = p.src) \/ (j \in DOMAIN rate /\ rate'[j] = rate[j])
    <3>1. CASE claims
      <4>1. rate' = Claimed(p.src)
        BY <2>1, <3>1
      <4> DEFINE c == p.src
      <4>2. c \in Calls
        BY <2>2
      <4> HIDE DEF c
      <4>3. /\ Claimed(c) \in Seq(Stamp) /\ OneSlotEach(Claimed(c))
            /\ \A j \in DOMAIN Claimed(c) : Claimed(c)[j].call = c => Claimed(c)[j].age = 0
            /\ \A j \in DOMAIN Claimed(c) : Claimed(c)[j].call # c => j \in DOMAIN rate /\ Claimed(c)[j] = rate[j]
        BY <2>4, <4>2, ClaimedIs
      <4>4. rate' = Claimed(c)
        BY <4>1 DEF c
      <4>5. rate' \in Seq(Stamp) /\ OneSlotEach(rate')
        BY <4>3, <4>4
      <4>6. \A j \in DOMAIN rate' : rate'[j].call = c => rate'[j].age = 0
        BY <4>3, <4>4, Zenon
      <4>7. \A j \in DOMAIN rate' : rate'[j].call # c => j \in DOMAIN rate /\ rate'[j] = rate[j]
        BY <4>3, <4>4, Zenon
      <4>8. \A j \in DOMAIN rate' : rate'[j].call = c \/ (j \in DOMAIN rate /\ rate'[j] = rate[j])
        BY <4>7, Zenon
      <4> QED
        BY <3>1, <4>5, <4>6, <4>8, Zenon DEF c
    <3>2. CASE ~claims
      BY <2>1, <2>4, <3>2
    <3> QED
      BY <3>1, <3>2
  <2>6. spoke' \in [Calls -> 0 .. Interval]
    <3>1. \A c \in Calls : spoke[c] \in 0 .. Interval
      BY <2>4
    <3>2. 0 \in 0 .. Interval /\ Silent \in 0 .. Interval
      BY InetNumbers DEF Silent
    <3> QED
      BY <2>1, <3>1, <3>2
  <2>7. ASSUME NEW c \in Calls, spoke'[c] < Interval
        PROVE  \E i \in DOMAIN rate' : rate'[i].call = c /\ rate'[i].age = spoke'[c]
    <3>1. PICK j \in DOMAIN rate' : rate'[j].call = c
      <4>1. spoke'[c] # Silent
        BY <2>6, <2>7, InetNumbers DEF Silent
      <4> QED
        BY <2>1, <4>1
    <3>2. CASE claims /\ c = p.src
      <4>1. spoke'[c] = 0
        BY <2>1, <3>1, <3>2
      <4> QED
        BY <2>5, <3>1, <3>2, <4>1
    <3>3. CASE ~(claims /\ c = p.src)
      <4>1. spoke'[c] = spoke[c]
        BY <2>1, <3>1, <3>3
      <4>2. PICK i \in DOMAIN rate : rate[i].call = c /\ rate[i].age = spoke[c]
        BY <2>4, <2>7, <4>1
      <4>3. j \in DOMAIN rate /\ rate'[j] = rate[j]
        BY <2>5, <3>1, <3>3
      <4>4. i = j
        BY <2>4, <3>1, <4>2, <4>3 DEF OneSlotEach
      <4> QED
        BY <3>1, <4>1, <4>2, <4>3, <4>4
    <3> QED
      BY <3>2, <3>3
  <2> QED
    BY <2>5, <2>6, <2>7 DEF RateInv
<1> QED
  BY <1>1, <1>2, <1>3, <1>4 DEF InetNext

-----------------------------------------------------------------------------
(* The ring of claims *)

\* No one has two claims.
OneClaimEach(ring) == \A i, j \in DOMAIN ring : ring[i] = ring[j] => i = j

LEMMA TakenIs ==
  ASSUME assoc \in Seq(Calls), OneClaimEach(assoc), NEW c
  PROVE  /\ Taken(c) \in Seq(Calls) /\ OneClaimEach(Taken(c))
         /\ \A j \in DOMAIN Taken(c) : Taken(c)[j] # c /\ \E i \in DOMAIN assoc : assoc[i] = Taken(c)[j]
<1> DEFINE claims == {i \in DOMAIN assoc : assoc[i] = c}
           rest == Taken(c)
<1>1. CASE claims = {}
  BY <1>1 DEF Taken
<1>2. CASE claims # {}
  <2> DEFINE k == CHOOSE i \in claims : TRUE
  <2>1. k \in 1 .. Len(assoc) /\ assoc[k] = c
    BY <1>2
  <2>2. rest = RemoveAt(assoc, k)
    BY <1>2 DEF Taken
  <2> HIDE DEF k, rest, claims
  <2>3. /\ rest \in Seq(Calls) /\ Len(rest) = Len(assoc) - 1
        /\ \A j \in 1 .. Len(assoc) - 1 : rest[j] = IF j < k THEN assoc[j] ELSE assoc[j + 1]
    BY <2>1, <2>2, RemovedAt
  <2>4. DOMAIN rest = 1 .. Len(assoc) - 1 /\ DOMAIN assoc = 1 .. Len(assoc) /\ Len(assoc) \in Nat
    BY <2>3
  <2> DEFINE at(j) == IF j < k THEN j ELSE j + 1
  <2>5. ASSUME NEW j \in DOMAIN rest
        PROVE  at(j) \in DOMAIN assoc /\ at(j) # k /\ rest[j] = assoc[at(j)]
    BY <2>1, <2>3, <2>4
  <2>6. \A j, m \in DOMAIN rest : at(j) = at(m) => j = m
    BY <2>1, <2>4
  <2> HIDE DEF at
  <2>7. \A j \in DOMAIN rest : rest[j] # c
    BY <2>1, <2>4, <2>5 DEF OneClaimEach
  <2>8. OneClaimEach(rest)
    BY <2>5, <2>6 DEF OneClaimEach
  <2> QED
    BY <2>3, <2>5, <2>7, <2>8 DEF rest
<1> QED
  BY <1>1, <1>2

LEMMA RememberedIs ==
  ASSUME NEW ring \in Seq(Calls), OneClaimEach(ring), NEW c \in Calls
  PROVE  /\ Remembered(ring, c) \in Seq(Calls) /\ OneClaimEach(Remembered(ring, c))
         /\ \A j \in DOMAIN Remembered(ring, c) :
               Remembered(ring, c)[j] = c \/ \E i \in DOMAIN ring : ring[i] = Remembered(ring, c)[j]
<1> DEFINE new == Remembered(ring, c)
           known == \E i \in DOMAIN ring : ring[i] = c
<1>1. CASE known
  BY <1>1 DEF Remembered
<1>2. CASE ~known /\ Len(ring) < AssocMax
  <2>1. new = Append(ring, c)
    BY <1>2 DEF Remembered
  <2> HIDE DEF new
  <2>2. /\ new \in Seq(Calls) /\ DOMAIN new = 1 .. Len(ring) + 1 /\ new[Len(ring) + 1] = c
        /\ DOMAIN ring = 1 .. Len(ring) /\ Len(ring) \in Nat
        /\ \A j \in 1 .. Len(ring) : new[j] = ring[j]
    BY <2>1
  <2>3. \A j \in DOMAIN new : IF j = Len(ring) + 1 THEN new[j] = c
                              ELSE j \in DOMAIN ring /\ new[j] = ring[j] /\ new[j] # c
    BY <1>2, <2>2
  <2>4. OneClaimEach(new)
    BY <2>3 DEF OneClaimEach
  <2> QED
    BY <2>2, <2>3, <2>4 DEF new
<1>3. CASE ~known /\ ~(Len(ring) < AssocMax)
  <2> DEFINE n == Len(ring)
  <2>1. new = Append(Tail(ring), c)
    BY <1>3 DEF Remembered
  <2>2. n \in Nat /\ n > 0 /\ DOMAIN ring = 1 .. n
    BY <1>3, InetNumbers
  <2>3. Tail(ring) \in Seq(Calls) /\ Len(Tail(ring)) = n - 1 /\ \A j \in 1 .. n - 1 : Tail(ring)[j] = ring[j + 1]
    BY <2>2
  <2> HIDE DEF new
  <2>4. /\ new \in Seq(Calls) /\ DOMAIN new = 1 .. n /\ new[n] = c
        /\ \A j \in 1 .. n - 1 : new[j] = ring[j + 1]
    BY <2>1, <2>2, <2>3
  <2> HIDE DEF n
  <2>5. \A j \in DOMAIN new : \/ j = n /\ new[j] = c
                              \/ j + 1 \in DOMAIN ring /\ j \in Nat /\ new[j] = ring[j + 1] /\ new[j] # c
    BY <1>3, <2>2, <2>4
  <2>6. OneClaimEach(new)
    <3> SUFFICES ASSUME NEW i \in DOMAIN new, NEW j \in DOMAIN new, new[i] = new[j]
                 PROVE  i = j
      BY DEF OneClaimEach
    <3>1. CASE i = n \/ j = n
      BY <2>4, <2>5, <3>1
    <3>2. CASE i # n /\ j # n
      <4>1. i + 1 = j + 1
        BY <2>5, <3>2 DEF OneClaimEach
      <4> QED
        BY <2>5, <3>2, <4>1
    <3> QED
      BY <3>1, <3>2
  <2> QED
    BY <2>4, <2>5, <2>6 DEF new
<1> QED
  BY <1>1, <1>2, <1>3

LEMMA AssocKept ==
  ASSUME HandInv, AssocInv, InetNext
  PROVE  AssocInv'
<1>1. CASE Read \/ Skip \/ Enter \/ HearOnAir \/ Save \/ InetTick
  <2>1. UNCHANGED <<assoc, owed>>
    BY <1>1 DEF Read, Skip, Enter, HearOnAir, Save, InetTick, rings, ghosts
  <2> QED
    BY <2>1 DEF AssocInv
<1>2. CASE Decide
  <2> DEFINE follow == Owed(line)
             p == IF ~follow /\ ~Passes(line) /\ Unwraps(line) THEN line.inner ELSE line
             why == IF On("inet2rf") THEN FirstOf(Rules(line, p, follow)) ELSE "off"
             takes == On("inet2rf") /\ why \notin BeforeFilters /\ follow
             left == IF takes THEN Taken(line.src) ELSE assoc
  <2>1. PICK sent \in IF why = "sent" THEN BOOLEAN ELSE {FALSE} :
             LET told == sent /\ ShapedAsMessage(p) /\ p.dest \in Calls IN
             /\ assoc' = IF told THEN Remembered(left, p.dest) ELSE left
             /\ owed' = [c \in Calls |->
                     IF sent /\ follow /\ c = line.src THEN owed[c] - 1
                     ELSE IF told /\ c = p.dest THEN Lesser(owed[c] + 1, 1) ELSE owed[c]]
    BY <1>2 DEF Decide
  <2> DEFINE told == sent /\ ShapedAsMessage(p) /\ p.dest \in Calls
  <2>2. /\ assoc' = IF told THEN Remembered(left, p.dest) ELSE left
        /\ owed' = [c \in Calls |->
                     IF sent /\ follow /\ c = line.src THEN owed[c] - 1
                     ELSE IF told /\ c = p.dest THEN Lesser(owed[c] + 1, 1) ELSE owed[c]]
    BY <2>1
  <2>3. sent \in BOOLEAN /\ (sent /\ follow => takes)
    BY DEF BeforeFilters
  <2>4. told /\ follow => FALSE
    BY DEF Owed, ShapedAsMessage, TypeOf
  <2>5. told => p.dest \in Calls
    OBVIOUS
  <2>6. follow => \E i \in DOMAIN assoc : assoc[i] = line.src
    BY DEF Owed
  <2>7. takes => follow
    OBVIOUS
  <2>8. /\ left \in Seq(Calls) /\ OneClaimEach(left)
        /\ \A j \in DOMAIN left : (\E i \in DOMAIN assoc : assoc[i] = left[j]) /\ (takes => left[j] # line.src)
    <3>1. assoc \in Seq(Calls) /\ OneClaimEach(assoc)
      BY DEF AssocInv, OneClaimEach
    <3>2. CASE takes
      BY <3>1, <3>2, TakenIs
    <3>3. CASE ~takes
      BY <3>1, <3>3
    <3> QED
      BY <3>2, <3>3
  <2> HIDE DEF left, takes, told, follow, why, p
  <2>9. /\ owed \in [Calls -> 0 .. 1] /\ (\A c \in Calls : owed[c] \in 0 .. 1)
        /\ \A i \in DOMAIN assoc : assoc[i] \in Calls /\ owed[assoc[i]] = 1
    BY DEF AssocInv
  <2>10. /\ assoc' \in Seq(Calls) /\ OneClaimEach(assoc')
         /\ \A j \in DOMAIN assoc' : (told /\ assoc'[j] = p.dest) \/ \E i \in DOMAIN left : left[i] = assoc'[j]
    <3>1. CASE told
      <4>1. assoc' = Remembered(left, p.dest)
        BY <2>2, <3>1
      <4> QED
        BY <2>5, <2>8, <3>1, <4>1, RememberedIs
    <3>2. CASE ~told
      BY <2>2, <2>8, <3>2
    <3> QED
      BY <3>1, <3>2
  <2>11. line.src \in Calls
    BY InetNumbers DEF HandInv
  <2>12. sent /\ follow => owed[line.src] = 1
    BY <2>6, <2>9
  <2>13. owed' \in [Calls -> 0 .. 1]
    <3> SUFFICES ASSUME NEW c \in Calls
                 PROVE  (IF sent /\ follow /\ c = line.src THEN owed[c] - 1
                         ELSE IF told /\ c = p.dest THEN Lesser(owed[c] + 1, 1) ELSE owed[c]) \in 0 .. 1
      BY <2>2
    <3>1. owed[c] \in 0 .. 1
      BY <2>9
    <3>2. Lesser(owed[c] + 1, 1) \in 0 .. 1
      BY <3>1 DEF Lesser
    <3>3. CASE sent /\ follow /\ c = line.src
      BY <2>12, <3>3
    <3>4. CASE ~(sent /\ follow /\ c = line.src)
      BY <3>1, <3>2, <3>4
    <3> QED
      BY <3>3, <3>4
  <2>14. ASSUME NEW j \in DOMAIN assoc'
         PROVE  owed'[assoc'[j]] = 1
    <3>1. assoc'[j] \in Calls
      BY <2>10
    <3>2. CASE told /\ assoc'[j] = p.dest
      <4>1. owed'[assoc'[j]] = Lesser(owed[assoc'[j]] + 1, 1)
        BY <2>2, <2>4, <3>1, <3>2
      <4>2. owed[assoc'[j]] \in 0 .. 1
        BY <2>9, <3>1
      <4> QED
        BY <4>1, <4>2 DEF Lesser
    <3>3. CASE ~(told /\ assoc'[j] = p.dest)
      <4>1. PICK i \in DOMAIN left : left[i] = assoc'[j]
        BY <2>10, <3>3
      <4>2. PICK m \in DOMAIN assoc : assoc[m] = assoc'[j]
        BY <2>8, <4>1
      <4>3. sent /\ follow => assoc'[j] # line.src
        BY <2>3, <2>8, <4>1
      <4>4. owed'[assoc'[j]] = owed[assoc'[j]]
        BY <2>2, <3>1, <3>3, <4>3
      <4> QED
        BY <2>9, <4>2, <4>4
    <3> QED
      BY <3>2, <3>3
  <2> QED
    BY <2>10, <2>13, <2>14 DEF AssocInv, OneClaimEach
<1> QED
  BY <1>1, <1>2 DEF InetNext

-----------------------------------------------------------------------------
(* What never goes wrong *)

LEMMA NoFault ==
  ASSUME InetInv, InetNext
  PROVE  faults' = {}
<1>1. CASE Read \/ Skip \/ Enter \/ HearOnAir \/ Save \/ InetTick
  BY <1>1 DEF Read, Skip, Enter, HearOnAir, Save, InetTick, ghosts, InetInv
<1>2. CASE Decide
  <2> DEFINE l == line
             follow == Owed(line)
             p == IF ~follow /\ ~Passes(line) /\ Unwraps(line) THEN line.inner ELSE line
             rule == FirstOf(Rules(line, p, follow))
             why == IF On("inet2rf") THEN rule ELSE "off"
             claims == (~follow /\ ~IsMessage(p) /\ On("spacing")) /\ why \in {"sent", "frame"}
             beyond == why \notin BeforeFilters \cup Filters \cup {"off"}
             crowded == claims /\ spoke[p.src] < Interval
             unreachable(sent) == sent /\ On("gate") /\ IsMessage(p)
                        /\ ~(/\ lastAir[p.dest].at # 0 /\ now - lastAir[p.dest].at <= Window
                             /\ lastAir[p.dest].hops <= MaxHops)
             differs == still /\ ~(Wrapped(line) /\ Broadcast(line.inner))
                        /\ (IF verdict THEN why \in Filters ELSE beyond)
  <2>1. PICK sent \in IF why = "sent" THEN BOOLEAN ELSE {FALSE} :
           faults' = faults \cup (IF crowded THEN {"crowded"} ELSE {})
                            \cup (IF unreachable(sent) THEN {"unreachable"} ELSE {})
                            \cup (IF differs THEN {"verdict"} ELSE {})
    BY <1>2 DEF Decide
  <2>2. stage = "heard" /\ line \in Lines
    BY <1>2 DEF Decide, InetInv, HandInv
  <2>3. /\ rule \in Filters => ~FiltersPass(line, p, follow)
        /\ rule \notin BeforeFilters \cup Filters \cup {"off"} => FiltersPass(line, p, follow)
        /\ rule \in {"sent", "frame"} => ~TooSoonFor(p, follow)
        /\ rule = "sent" /\ On("gate") /\ IsMessage(p) => HeardRf(heard, now, p.dest, Window, MaxHops)
    <3> HIDE DEF p, follow
    <3> QED
      BY RulesSay
  <2>4. ~crowded
    <3>1. SUFFICES ASSUME claims, spoke[p.src] < Interval PROVE FALSE
      OBVIOUS
    <3>2. p.src \in Calls
      BY <2>2, InetNumbers DEF Unwraps
    <3>3. why = rule /\ ~TooSoonFor(p, follow)
      BY <2>3, <3>1
    <3>4. ~TooSoon(p.src)
      BY <3>1, <3>3 DEF TooSoonFor
    <3> HIDE DEF p
    <3>5. PICK i \in DOMAIN rate : rate[i].call = p.src /\ rate[i].age = spoke[p.src]
      BY <3>1, <3>2 DEF InetInv, RateInv
    <3>6. rate[i].age \in 0 .. TickWrap - 1
      <4>1. rate[i] \in Stamp
        BY DEF InetInv, RateInv
      <4> QED
        BY <4>1 DEF Stamp
    <3>7. Signed(rate[i].age) < Interval
      BY <3>1, <3>5, <3>6, SignedAge
    <3> QED
      BY <3>4, <3>5, <3>7 DEF TooSoon, Slot
  <2>5. ~unreachable(sent)
    <3>1. SUFFICES ASSUME sent, On("gate"), IsMessage(p)
                   PROVE  /\ lastAir[p.dest].at # 0 /\ now - lastAir[p.dest].at <= Window
                          /\ lastAir[p.dest].hops <= MaxHops
      OBVIOUS
    <3>2. rule = "sent"
      BY <3>1
    <3>3. HeardRf(heard, now, p.dest, Window, MaxHops)
      BY <2>3, <3>1, <3>2
    <3> HIDE DEF p
    <3>4. PICK i \in HeardRows(heard, p.dest) : Recent(now, heard[i].rf, Window) /\ heard[i].hops <= MaxHops
      BY <3>3 DEF HeardRf
    <3>5. i \in DOMAIN heard /\ heard[i].call = p.dest /\ heard[i].rf # 0 /\ now - heard[i].rf <= Window
      BY <3>4 DEF HeardRows, Recent
    <3> QED
      BY <3>4, <3>5 DEF InetInv, HeardInv
  <2>6. ~differs
    <3>1. SUFFICES ASSUME still, ~(Wrapped(line) /\ Broadcast(line.inner))
                   PROVE  ~(IF verdict THEN why \in Filters ELSE beyond)
      OBVIOUS
    <3>2. (verdict <=> Mirror(line)) /\ (viaBm <=> (On("bm") /\ line.bm))
      BY <2>2, <3>1 DEF InetInv, HandInv
    <3>3. Unwraps(line) <=> MirrorUnwraps(line)
      BY <3>1 DEF Unwraps, MirrorUnwraps
    <3>4. Mirror(line) <=> FiltersPass(line, p, follow)
      <4>1. p = IF ~follow /\ ~Passes(line) /\ MirrorUnwraps(line) THEN line.inner ELSE line
        BY <3>3
      <4> HIDE DEF p
      <4> QED
        BY <3>2, <3>3, <4>1 DEF Mirror, FiltersPass, MirrorPlace
    <3>5. why # rule => why = "off"
      OBVIOUS
    <3> HIDE DEF rule, p, follow
    <3> QED
      BY <2>3, <3>2, <3>4, <3>5 DEF Filters
  <2>7. faults = {}
    BY DEF InetInv
  <2> HIDE DEF crowded, unreachable, differs
  <2> QED
    BY <2>1, <2>4, <2>5, <2>6, <2>7
<1> QED
  BY <1>1, <1>2 DEF InetNext

\* The way from APRS-IS to the radio keeps to its filters, to the stations it can reach, to one
\* follow-up a message and to its spacing, for every table, ring, window and set of lines.
THEOREM InetKept == InetSpec => []InetSound
<1>1. InetInit => InetInv
  BY InetStart
<1>2. InetInv /\ [InetNext]_inetVars => InetInv'
  <2> SUFFICES ASSUME InetInv, [InetNext]_inetVars PROVE InetInv'
    OBVIOUS
  <2>1. CASE InetNext
    BY <2>1, HeardKept, HandKept, RateKept, AssocKept, NoFault DEF InetInv
  <2>2. CASE UNCHANGED inetVars
    BY <2>2 DEF inetVars, settings, bounds, rings, hand, ghosts, InetInv, HeardInv, HandInv, RateInv, AssocInv,
                Mirror, Owed, Passes, On, OutOfRange, MirrorUnwraps, Budlist, MirrorPlace
  <2> QED
    BY <2>1, <2>2
<1>3. InetInv => InetSound
  BY DEF InetInv, AssocInv, InetSound, VerdictStands, AddresseeReachable, OneFollowUp, SourcesSpaced
<1> QED
  BY <1>1, <1>2, <1>3, PTL DEF InetSpec

-----------------------------------------------------------------------------
(* The Winlink session *)

\* The ring index of queue_push and queue_pop stays inside the array.
LEMMA RingIndex ==
    ASSUME NEW n \in Nat
    PROVE  n % QueueSize \in Cells
BY QueueAssumption DEF Cells

\* What every helper preserves.
Sound(x) ==
    /\ x \in Session
    /\ x.out # None => x.sends + x.tries = Tries + 1 /\ x.tries > 0
    /\ x.state \in Closed => x.count = 0 /\ ~x.composing
    /\ x.state = "logged_in" => ~x.composing
    /\ x.state = "composing" => x.composing

IInv == TypeOK /\ Sound(s)

USE QueueAssumption, TriesAssumption, BoundsAssumption

\* A cleared session is a session.
LEMMA ClearType ==
    ASSUME NEW x \in Session
    PROVE  /\ Clear(x) \in Session
           /\ Clear(x).count = 0 /\ Clear(x).id = x.id /\ Clear(x).sends = x.sends
<1>1. 0 \in Cells /\ 0 \in 0..QueueSize
  BY DEF Cells
<1> QED
  BY <1>1 DEF Clear, Session

\* Queueing a command gives a session.
LEMMA PushType ==
    ASSUME NEW x \in Session, NEW c \in Commands, ~Full(x)
    PROVE  Push(x, c) \in Session
<1> DEFINE k == (x.head + x.count) % QueueSize
<1>1. x.head \in Cells /\ x.count \in 0..QueueSize /\ x.cell \in [Cells -> Commands \cup {None}]
  BY DEF Session
<1>2. k \in Cells
  <2>1. x.head + x.count \in Nat
    BY <1>1 DEF Cells
  <2> QED
    BY <2>1, RingIndex
<1>3. [x.cell EXCEPT ![k] = c] \in [Cells -> Commands \cup {None}]
  BY <1>1, <1>2
<1>4. x.count + 1 \in 0..QueueSize
  BY <1>1 DEF Full
<1>5. Push(x, c) = [x EXCEPT !.cell = [x.cell EXCEPT ![k] = c], !.count = x.count + 1]
  BY DEF Push, Session
<1> HIDE DEF k
<1> QED
  BY <1>3, <1>4, <1>5 DEF Session

\* Taking a command off the ring gives a session.
LEMMA PopType ==
    ASSUME NEW x \in Session, x.count > 0
    PROVE  /\ Pop(x) \in Session /\ x.cell[x.head] \in Commands \cup {None}
           /\ Pop(x).state = x.state /\ Pop(x).composing = x.composing
<1>1. x.head \in Cells /\ x.count \in 0..QueueSize /\ x.cell \in [Cells -> Commands \cup {None}]
  BY DEF Session
<1>2. (x.head + 1) % QueueSize \in Cells
  <2>1. x.head + 1 \in Nat
    BY <1>1 DEF Cells
  <2> QED
    BY <2>1, RingIndex
<1>3. x.count - 1 \in 0..QueueSize
  BY <1>1
<1>4. Pop(x) = [x EXCEPT !.head = (x.head + 1) % QueueSize, !.count = x.count - 1]
  BY DEF Pop, Session
<1> DEFINE k == (x.head + 1) % QueueSize
<1> HIDE DEF k
<1> QED
  BY <1>1, <1>2, <1>3, <1>4 DEF Session, k

\* Making a command outstanding changes these fields and no other.
LEMMA TransmitRecord ==
    ASSUME NEW x \in Session, NEW c \in Commands \cup {None}, NEW i \in Nat, NEW b \in BOOLEAN
    PROVE  [x EXCEPT !.out = c, !.late = FALSE, !.id = i, !.sends = 1, !.byeOwed = b] \in Session
BY DEF Session

\* Making a command outstanding gives a session.
LEMMA TransmitType ==
    ASSUME NEW x \in Session, NEW c \in Commands \cup {None}
    PROVE  /\ TransmitNew(x, c) \in Session
           /\ TransmitNew(x, c).out = c /\ TransmitNew(x, c).sends = 1
           /\ TransmitNew(x, c).tries = x.tries /\ TransmitNew(x, c).state = x.state
           /\ TransmitNew(x, c).count = x.count /\ TransmitNew(x, c).composing = x.composing
<1> DEFINE b == IF c = "bye" THEN FALSE ELSE x.byeOwed
           i == x.id + 1
<1>1. i \in Nat
  BY DEF Session
<1>4. b \in BOOLEAN
  <2>1. x.byeOwed \in BOOLEAN
    BY DEF Session
  <2> QED
    BY <2>1, Zenon
<1>2. TransmitNew(x, c) = [x EXCEPT !.out = c, !.late = FALSE, !.id = i, !.sends = 1, !.byeOwed = b]
  BY DEF TransmitNew, Session
<1> HIDE DEF b, i
<1>3. [x EXCEPT !.out = c, !.late = FALSE, !.id = i, !.sends = 1, !.byeOwed = b] \in Session
  BY <1>1, <1>4, TransmitRecord
<1> QED
  BY <1>2, <1>3 DEF Session

\* Ending a session in any of the three ways leaves a sound, closed one.
LEMMA EndSound ==
    ASSUME NEW x \in Session
    PROVE  Sound(SessionFail(x)) /\ Sound(SessionClose(x)) /\ Sound(Disable(x))
<1> DEFINE y == Clear(x)
<1>1. y \in Session /\ y.count = 0
  BY ClearType
<1>2. {"error", "idle", "disabled"} \subseteq States
  BY DEF States, Closed
<1>3. SessionFail(x) = [y EXCEPT !.state = "error", !.out = None, !.tries = 0, !.started = FALSE,
                                 !.composing = FALSE, !.byeOwed = FALSE]
  BY DEF SessionFail
<1>4. SessionClose(x) = [y EXCEPT !.state = "idle", !.out = None, !.tries = 0, !.started = FALSE,
                                  !.composing = FALSE, !.byeOwed = FALSE]
  BY DEF SessionClose
<1>5. Disable(x) = [y EXCEPT !.state = "disabled", !.out = None, !.started = FALSE,
                             !.composing = FALSE, !.byeOwed = FALSE]
  BY DEF Disable
<1> HIDE DEF y
<1>6. Sound(SessionFail(x))
  <2>1. SessionFail(x) \in Session
    <3>1. "error" \in States /\ 0 \in Nat
      BY <1>2
    <3> QED
      BY <1>1, <1>3, <3>1 DEF Session
  <2>2. /\ SessionFail(x).out = None /\ SessionFail(x).count = 0
        /\ ~SessionFail(x).composing /\ SessionFail(x).state = "error"
    BY <1>1, <1>3 DEF Session
  <2> QED
    BY <2>1, <2>2 DEF Sound
<1>7. Sound(SessionClose(x))
  <2>1. SessionClose(x) \in Session
    <3>1. "idle" \in States /\ 0 \in Nat
      BY <1>2
    <3> QED
      BY <1>1, <1>4, <3>1 DEF Session
  <2>2. /\ SessionClose(x).out = None /\ SessionClose(x).count = 0
        /\ ~SessionClose(x).composing /\ SessionClose(x).state = "idle"
    BY <1>1, <1>4 DEF Session
  <2> QED
    BY <2>1, <2>2 DEF Sound
<1>8. Sound(Disable(x))
  BY <1>1, <1>2, <1>5 DEF Sound, Session
<1> QED
  BY <1>6, <1>7, <1>8

\* A login starts with an empty queue.
LEMMA LoginSound ==
    ASSUME NEW x \in Session
    PROVE  /\ Sound(LoginSession(x)) /\ LoginSession(x).state = "login_sent"
           /\ LoginSession(x).count = 0 /\ LoginSession(x).composing = x.composing
<1> DEFINE y == [Clear(x) EXCEPT !.state = "login_sent", !.tries = Tries,
                                 !.started = TRUE, !.expired = FALSE]
<1>1. Clear(x) \in Session /\ Clear(x).count = 0 /\ Clear(x).composing = x.composing
  BY ClearType DEF Clear, Session
<1>2. y \in Session /\ y.state = "login_sent" /\ y.count = 0 /\ y.composing = x.composing /\ y.tries = Tries
  BY <1>1 DEF Session, States, Waiting
<1>3. LoginSession(x) = TransmitNew(y, "login")
  BY DEF LoginSession
<1> HIDE DEF y
<1>4. /\ TransmitNew(y, "login") \in Session /\ TransmitNew(y, "login").sends = 1
      /\ TransmitNew(y, "login").tries = Tries /\ TransmitNew(y, "login").state = "login_sent"
      /\ TransmitNew(y, "login").count = 0 /\ TransmitNew(y, "login").composing = x.composing
  <2>1. "login" \in Commands \cup {None}
    BY DEF Commands
  <2> QED
    BY <1>2, <2>1, TransmitType
<1> QED
  BY <1>3, <1>4 DEF Sound, Closed

\* A command that is accepted is queued in a sound session.
LEMMA AcceptSound ==
    ASSUME NEW x, Sound(x), NEW c \in Commands, Accepts(x)
    PROVE  /\ Sound(Accept(x, c)) /\ Accept(x, c).state \notin Closed
           /\ Accept(x, c).composing = x.composing
           /\ Accept(x, c).state = IF x.state \in {"idle", "error"} THEN "login_sent" ELSE x.state
<1>1. CASE x.state \in {"idle", "error"}
  <2> DEFINE y == LoginSession(x)
  <2>1. Sound(y) /\ y.state = "login_sent" /\ y.count = 0 /\ y.composing = x.composing
    BY LoginSound DEF Sound
  <2>2. Accept(x, c) = Push(y, c)
    BY <1>1 DEF Accept
  <2> HIDE DEF y
  <2>3. Push(y, c) \in Session
    BY <2>1, PushType DEF Sound, Full
  <2> QED
    BY <1>1, <2>1, <2>2, <2>3 DEF Push, Sound, Session, Closed
<1>2. CASE x.state \notin {"idle", "error"}
  <2>1. Accept(x, c) = Push(x, c) /\ ~Full(x) /\ x.state \notin Closed
    BY <1>2 DEF Accept, Accepts, Closed
  <2>2. Push(x, c) \in Session
    BY <2>1, PushType DEF Sound
  <2> QED
    BY <1>2, <2>1, <2>2 DEF Push, Sound, Session, Closed
<1> QED
  BY <1>1, <1>2

(***************************************************************************)
(* The steps                                                               *)
(***************************************************************************)
\* What a critical section that ends in a sound session leaves.
Kept ==
    /\ Sound(s') /\ pending' \in [Tasks -> Nat] /\ settled' \subseteq Nat

\* A sound session that is put in place keeps the invariant.
LEMMA ApplyKeeps ==
    ASSUME IInv, NEW t \in Tasks, NEW x, Sound(x), NEW done \in SUBSET Nat, Apply(t, x, done)
    PROVE  Kept
<1>1. x.id \in Nat /\ s' = x
  BY DEF Sound, Session, Apply
<1>2. pending' \in [Tasks -> Nat]
  BY <1>1 DEF IInv, TypeOK, Apply
<1> QED
  BY <1>1, <1>2 DEF Kept, IInv, TypeOK, Apply

\* Only commands that were numbered are settled.
LEMMA SettledIds ==
    ASSUME IInv
    PROVE  {} \in SUBSET Nat /\ {s.id} \in SUBSET Nat /\ Dropped(s) \in SUBSET Nat
BY DEF IInv, Sound, Session, Dropped

\* Entering command mode keeps a session sound.
LEMMA ToCommandModeSound ==
    ASSUME NEW x, Sound(x), x.state # "disabled", x.state # "idle", x.state # "error"
    PROVE  Sound(ToCommandMode(x))
<1>1. "logged_in" \in States
  BY DEF States
<1> QED
  BY <1>1 DEF Sound, ToCommandMode, Session, Closed

\* Every request of the operator keeps the invariant.
LEMMA OperatorKeeps ==
    ASSUME IInv, NEW t \in Tasks, Operator(t)
    PROVE  Kept
<1>1. Sound(s) /\ s \in Session
  BY DEF IInv, Sound
<1>2. CASE Login(t)
  BY <1>1, <1>2, LoginSound, SettledIds, ApplyKeeps DEF Login
<1>3. CASE SendCommand(t)
  <2>1. "list" \in Commands
    BY DEF Commands
  <2> QED
    BY <1>1, <1>3, <2>1, AcceptSound, SettledIds, ApplyKeeps DEF SendCommand
<1>4. CASE Logoff(t)
  <2> DEFINE y == Clear(s)
             z == Push(y, "bye")
             x == [z EXCEPT !.state = "logging_off", !.byeOwed = TRUE]
  <2>1. y \in Session /\ y.count = 0 /\ ~Full(y)
    BY <1>1, ClearType DEF Full
  <2>2. y.out = s.out /\ y.sends = s.sends /\ y.tries = s.tries
    BY <1>1 DEF Clear, Session
  <2> HIDE DEF y
  <2>3. z \in Session
    BY <2>1, PushType DEF Commands
  <2>4. z.out = s.out /\ z.sends = s.sends /\ z.tries = s.tries
    BY <2>1, <2>2 DEF Push, Session
  <2> HIDE DEF z
  <2>5. "logging_off" \in States /\ "logging_off" \notin Closed
    BY DEF States, Closed
  <2>6. Sound(x)
    BY <1>1, <2>3, <2>4, <2>5 DEF Sound, Session
  <2>7. Apply(t, x, {})
    BY <1>4 DEF Logoff, x, y, z
  <2> QED
    BY <2>6, <2>7, SettledIds, ApplyKeeps
<1>5. CASE ComposeBegin(t)
  <2> DEFINE y == Accept(s, "sp")
             x == [y EXCEPT !.composing = TRUE,
                            !.state = IF @ = "logged_in" THEN "composing" ELSE @]
  <2>1. Sound(y) /\ y.state \notin Closed
    BY <1>1, <1>5, AcceptSound DEF ComposeBegin, Commands
  <2>2. Apply(t, x, Dropped(s))
    BY <1>5 DEF ComposeBegin
  <2> HIDE DEF y
  <2>3. "composing" \in States /\ "composing" \notin Closed
    BY DEF States, Closed
  <2>4. x = [y EXCEPT !.composing = TRUE,
                      !.state = IF y.state = "logged_in" THEN "composing" ELSE y.state]
    BY <2>1 DEF Sound, Session
  <2>5. Sound(x)
    BY <2>1, <2>3, <2>4 DEF Sound, Session
  <2> QED
    BY <2>2, <2>5, SettledIds, ApplyKeeps
<1>6. CASE ComposeLine(t)
  BY <1>1, <1>6, AcceptSound, SettledIds, ApplyKeeps DEF ComposeLine, Commands
<1>7. CASE ComposeEnd(t)
  <2>1. Sound(Accept(s, "ex")) /\ Accept(s, "ex").state \notin Closed
    BY <1>1, <1>7, AcceptSound DEF ComposeEnd, Commands
  <2>2. Sound(ToCommandMode(Accept(s, "ex")))
    BY <2>1, ToCommandModeSound DEF Closed
  <2> QED
    BY <1>7, <2>2, SettledIds, ApplyKeeps DEF ComposeEnd
<1>8. CASE ComposeAbort(t)
  <2>1. s.state \notin Closed
    BY <1>1, <1>8 DEF ComposeAbort, Sound
  <2>2. Sound(Clear(s)) /\ Clear(s).state = s.state
    BY <1>1, ClearType DEF Clear, Sound, Session
  <2>3. Sound(ToCommandMode(Clear(s)))
    BY <2>1, <2>2, ToCommandModeSound DEF Closed
  <2> QED
    BY <1>8, <2>3, SettledIds, ApplyKeeps DEF ComposeAbort
<1> QED
  BY <1>2, <1>3, <1>4, <1>5, <1>6, <1>7, <1>8 DEF Operator

\* What the receive path admits keeps a session sound.
LEMMA AdmitSound ==
    ASSUME NEW x \in Session
    PROVE  Sound(Admit(x))
<1>1. {"composing", "logged_in"} \subseteq States /\ {"composing", "logged_in"} \cap Closed = {}
  BY DEF States, Closed
<1>2. x.composing \in BOOLEAN
  BY DEF Session
<1> QED
  BY <1>1, <1>2 DEF Sound, Admit, Session

\* Every message of the service keeps the invariant.
LEMMA ReceiveKeeps ==
    ASSUME IInv, NEW t \in Tasks, Receive(t)
    PROVE  Kept /\ acked' \subseteq Nat
<1> DEFINE x == [s EXCEPT !.hold = TRUE]
<1>1. Sound(s) /\ s \in Session
  BY DEF IInv, Sound
<1>2. x \in Session /\ Sound(x)
  BY <1>1 DEF Sound, Session
<1>3. acked \subseteq Nat /\ flight \subseteq Nat
  BY DEF IInv, TypeOK
<1>4. CASE ServiceAck(t)
  <2>1. PICK i \in flight :
          /\ acked' = acked \cup {i}
          /\ Apply(t, [s EXCEPT !.hold = TRUE, !.out = None, !.tries = Tries,
                                !.state = AckState], {i})
    BY <1>4 DEF ServiceAck
  <2>2. AckState \in States /\ (s.state \in Closed <=> AckState \in Closed)
    BY <1>1 DEF AckState, Session, States, Closed, Waiting
  <2>3. /\ AckState = "logged_in" => s.state = "logged_in"
        /\ AckState = "composing" => s.state = "composing"
    BY <1>1 DEF AckState
  <2>4. Sound([s EXCEPT !.hold = TRUE, !.out = None, !.tries = Tries, !.state = AckState])
    BY <1>1, <2>2, <2>3 DEF Sound, Session
  <2>5. {i} \in SUBSET Nat
    BY <1>3
  <2>6. Kept
    BY <2>1, <2>4, <2>5, ApplyKeeps
  <2> QED
    BY <1>3, <2>1, <2>6
<1>5. CASE Challenge(t)
  <2>1. CASE Apply(t, SessionFail(x), {s.id})
    <3>1. Sound(SessionFail(x))
      BY <1>2, EndSound
    <3> HIDE DEF x
    <3> QED
      BY <1>3, <1>5, <2>1, <3>1, SettledIds, ApplyKeeps DEF Challenge
  <2>2. CASE Apply(t, TransmitNew([s EXCEPT !.hold = TRUE, !.tries = Tries,
                                            !.state = "challenge_sent"], "answer"), {s.id})
    <3> DEFINE y == [s EXCEPT !.hold = TRUE, !.tries = Tries, !.state = "challenge_sent"]
    <3>1. "challenge_sent" \in States /\ "challenge_sent" \notin Closed /\ "answer" \in Commands \cup {None}
      BY DEF States, Waiting, Closed, Commands
    <3>2. y \in Session /\ y.tries = Tries /\ y.state = "challenge_sent"
      BY <1>1, <3>1 DEF Session
    <3> HIDE DEF y
    <3>3. Sound(TransmitNew(y, "answer"))
      BY <3>1, <3>2, TransmitType DEF Sound
    <3> QED
      BY <1>3, <1>5, <2>2, <3>3, SettledIds, ApplyKeeps DEF Challenge, y
  <2> QED
    BY <1>5, <2>1, <2>2 DEF Challenge
<1>6. CASE LoginValid(t)
  <2>1. Sound(Admit(x)) /\ Apply(t, Admit(x), {s.id}) /\ acked' = acked
    BY <1>2, <1>6, AdmitSound DEF LoginValid
  <2> HIDE DEF x
  <2> QED
    BY <1>3, <2>1, SettledIds, ApplyKeeps
<1>7. CASE LoggedOff(t)
  <2>1. Sound(SessionClose(x)) /\ Apply(t, SessionClose(x), {s.id}) /\ acked' = acked
    BY <1>2, <1>7, EndSound DEF LoggedOff
  <2> HIDE DEF x
  <2> QED
    BY <1>3, <2>1, SettledIds, ApplyKeeps
<1>8. CASE Reply(t)
  <2>1. Sound(Admit(x)) /\ acked' = acked
    BY <1>2, <1>8, AdmitSound DEF Reply
  <2>2. Apply(t, Admit(x), {s.id}) \/ Apply(t, x, {})
    BY <1>8 DEF Reply
  <2> HIDE DEF x
  <2> QED
    BY <1>2, <1>3, <2>1, <2>2, SettledIds, ApplyKeeps
<1> QED
  BY <1>4, <1>5, <1>6, <1>7, <1>8 DEF Receive

\* The part of the tick that wakes an idle session keeps it sound.
LEMMA AwakeSound ==
    ASSUME Sound(s)
    PROVE  /\ Sound(Awake) /\ Awake \in Session
           /\ Awake.out = s.out /\ Awake.tries = s.tries /\ Awake.sends = s.sends
           /\ Awake.count = s.count /\ Awake.cell = s.cell /\ Awake.head = s.head
           /\ (Awake.state \in Closed <=> s.state \in Closed)
<1>1. "idle" \in States /\ "idle" \in Closed /\ "disabled" \in Closed
  BY DEF States, Closed
<1> QED
  BY <1>1 DEF Awake, Sound, Session

\* The tick keeps the invariant.
LEMMA TickKeeps ==
    ASSUME IInv, NEW t \in Tasks, Tick(t)
    PROVE  Kept
<1>1. Sound(s) /\ s \in Session
  BY DEF IInv, Sound
<1>2. Sound(Awake) /\ Awake \in Session
  BY <1>1, AwakeSound
<1>3. CASE TickDisable(t)
  BY <1>1, <1>3, EndSound, SettledIds, ApplyKeeps DEF TickDisable
<1>4. CASE TickExpire(t)
  BY <1>2, <1>4, EndSound, SettledIds, ApplyKeeps DEF TickExpire
<1>5. CASE TickGiveUp(t)
  BY <1>2, <1>5, EndSound, SettledIds, ApplyKeeps DEF TickGiveUp
<1>6. CASE TickRetransmit(t)
  <2> DEFINE n == s.tries - 1
             y == [Awake EXCEPT !.tries = n]
  <2>1. s.out # None /\ s.tries > 1 /\ s.tries \in Nat /\ s.sends \in Nat
    BY <1>1, <1>6 DEF TickRetransmit, LastTry, Overdue, Session
  <2>2. n \in Nat /\ n > 0 /\ s.sends + 1 + n = Tries + 1
    BY <1>1, <2>1 DEF Sound
  <2>3. /\ [Awake EXCEPT !.tries = @ - 1] = y
        /\ Awake.sends = s.sends /\ Awake.tries = s.tries /\ Awake.out = s.out
    BY <1>1, <1>2, AwakeSound DEF Session
  <2> HIDE DEF n
  <2>4. y \in Session /\ y.tries = n /\ y.sends = s.sends /\ y.out = Awake.out
        /\ y.count = Awake.count /\ y.composing = Awake.composing /\ y.state = Awake.state
    BY <1>2, <2>2, <2>3 DEF Session
  <2> HIDE DEF y
  <2>5. TransmitAgain(y) = [y EXCEPT !.late = FALSE, !.sends = s.sends + 1]
    BY <2>4 DEF TransmitAgain, Session
  <2>6. s.sends + 1 \in Nat
    BY <2>1
  <2>7. Sound(TransmitAgain(y))
    BY ZenonT(30), <1>2, <2>2, <2>4, <2>5, <2>6 DEF Sound, Session
  <2> QED
    BY <1>6, <2>3, <2>7, SettledIds, ApplyKeeps DEF TickRetransmit
<1>7. CASE TickSend(t)
  <2> DEFINE p == Pop(Awake)
             y == [p EXCEPT !.tries = Tries]
             c == s.cell[s.head]
  <2>1. s.count > 0 /\ Awake.count > 0 /\ c = Awake.cell[Awake.head]
    BY <1>1, <1>7, AwakeSound DEF TickSend
  <2>2. /\ p \in Session /\ c \in Commands \cup {None}
        /\ p.state = Awake.state /\ p.composing = Awake.composing
    BY <1>2, <2>1, PopType
  <2>3. Awake.state \notin Closed
    BY <1>2, <2>1 DEF Sound
  <2> HIDE DEF p, c
  <2>4. y \in Session /\ y.tries = Tries /\ y.state = Awake.state /\ y.composing = Awake.composing
    BY <2>2 DEF Session
  <2> HIDE DEF y
  <2>5. Sound(TransmitNew(y, c))
    BY <1>2, <2>2, <2>3, <2>4, TransmitType DEF Sound
  <2>6. Apply(t, TransmitNew(y, c), {})
    BY <1>7 DEF TickSend, y, p, c
  <2> QED
    BY <2>5, <2>6, SettledIds, ApplyKeeps
<1>8. CASE TickPoll(t)
  <2> DEFINE y == LoginSession(Awake)
  <2>1. Sound(y) /\ y.state = "login_sent" /\ y.count = 0
    BY <1>2, LoginSound
  <2>2. Apply(t, Push(y, "list"), {s.id})
    BY <1>8 DEF TickPoll
  <2> HIDE DEF y
  <2>3. Push(y, "list") \in Session /\ y \in Session
    BY <2>1, PushType DEF Full, Sound, Commands
  <2>4. Sound(Push(y, "list"))
    BY <2>1, <2>3 DEF Push, Sound, Session, Closed
  <2> QED
    BY <2>2, <2>4, SettledIds, ApplyKeeps
<1>9. CASE TickWake(t)
  BY <1>2, <1>9, SettledIds, ApplyKeeps DEF TickWake
<1> QED
  BY <1>3, <1>4, <1>5, <1>6, <1>7, <1>8, <1>9 DEF Tick

\* Passing time keeps the invariant.
LEMMA ClockKeeps ==
    ASSUME IInv, Clock \/ Switch
    PROVE  /\ Kept /\ UNCHANGED <<flight, acked, replies>>
           /\ usable' \in BOOLEAN /\ pollDue' \in BOOLEAN
           /\ requests' \in 0..MaxRequests /\ switches' \in 0..MaxSwitches
<1>1. Sound(s) /\ s \in Session /\ TypeOK
  BY DEF IInv, Sound
<1>2. /\ Sound([s EXCEPT !.late = TRUE])
      /\ Sound([s EXCEPT !.hold = FALSE])
      /\ Sound([s EXCEPT !.expired = TRUE])
  BY <1>1 DEF Sound, Session
<1>3. Sound(s')
  BY <1>1, <1>2 DEF Clock, Switch, ReplyOverdue, HoldEnds, LifetimeEnds, PollComes, Elsewhere
<1>4. UNCHANGED <<pending, settled, flight, acked, replies>>
  BY DEF Clock, Switch, ReplyOverdue, HoldEnds, LifetimeEnds, PollComes, Elsewhere
<1>5. CASE Clock
  <2>1. usable' = usable /\ switches' = switches /\ (pollDue' = pollDue \/ pollDue' = TRUE)
    BY <1>5 DEF Clock, ReplyOverdue, HoldEnds, LifetimeEnds, PollComes, Elsewhere
  <2>2. requests' = requests \/ (requests < MaxRequests /\ requests' = requests + 1)
    BY <1>5 DEF Clock, ReplyOverdue, HoldEnds, LifetimeEnds, PollComes, Elsewhere
  <2>3. usable' \in BOOLEAN /\ pollDue' \in BOOLEAN
    <3>1. usable \in BOOLEAN /\ pollDue \in BOOLEAN
      BY <1>1 DEF TypeOK
    <3> QED
      BY <2>1, <3>1, Zenon
  <2>4. switches' \in 0..MaxSwitches /\ requests' \in 0..MaxRequests
    BY <1>1, <2>1, <2>2 DEF TypeOK
  <2>5. Kept
    BY <1>1, <1>3, <1>4 DEF Kept, TypeOK
  <2>6. UNCHANGED <<flight, acked, replies>>
    BY <1>4
  <2> QED
    BY <2>3, <2>4, <2>5, <2>6, Zenon
<1>6. CASE Switch
  <2>1. usable' = ~usable /\ pollDue' = pollDue /\ requests' = requests
    BY <1>6 DEF Switch, Elsewhere
  <2>2. switches < MaxSwitches /\ switches' = switches + 1
    BY <1>6 DEF Switch
  <2>3. usable' \in BOOLEAN /\ pollDue' \in BOOLEAN
    <3>1. usable \in BOOLEAN /\ pollDue \in BOOLEAN
      BY <1>1 DEF TypeOK
    <3> QED
      BY <2>1, <3>1, Zenon
  <2>4. switches' \in 0..MaxSwitches /\ requests' \in 0..MaxRequests
    BY <1>1, <2>1, <2>2 DEF TypeOK
  <2>5. Kept
    BY <1>1, <1>3, <1>4 DEF Kept, TypeOK
  <2>6. UNCHANGED <<flight, acked, replies>>
    BY <1>4
  <2> QED
    BY <2>3, <2>4, <2>5, <2>6, Zenon
<1> QED
  BY <1>5, <1>6

\* What is left of TypeOK once the critical section is accounted for.
LEMMA KeptIsInvariant ==
    ASSUME Kept, usable' \in BOOLEAN, pollDue' \in BOOLEAN, flight' \subseteq Nat, acked' \subseteq Nat,
           requests' \in 0..MaxRequests, replies' \in 0..MaxReplies, switches' \in 0..MaxSwitches
    PROVE  IInv'
BY DEF Kept, IInv, TypeOK, Sound

\* Every step keeps the inductive invariant.
LEMMA StepKeepsInvariant ==
    ASSUME IInv, [Next]_vars
    PROVE  IInv'
<1>1. /\ TypeOK /\ Sound(s)
      /\ requests \in Nat /\ replies \in Nat
  BY DEF IInv, TypeOK
<1>2. ASSUME NEW t \in Web, Operator(t) PROVE IInv'
  <2>1. Request
    BY <1>2 DEF Operator, Login, Logoff, SendCommand, ComposeBegin, ComposeLine, ComposeEnd, ComposeAbort
  <2>2. Kept
    BY <1>2, OperatorKeeps DEF Tasks
  <2>3. requests' \in 0..MaxRequests
    BY <1>1, <2>1 DEF Request, TypeOK
  <2> QED
    BY <1>1, <2>1, <2>2, <2>3, KeptIsInvariant DEF Request, TypeOK
<1>3. ASSUME NEW t \in Rx, Receive(t) PROVE IInv'
  <2>1. Heard
    BY <1>3 DEF Receive, ServiceAck, Challenge, LoginValid, LoggedOff, Reply
  <2>2. Kept /\ acked' \subseteq Nat
    BY <1>3, ReceiveKeeps DEF Tasks
  <2>3. replies' \in 0..MaxReplies
    BY <1>1, <2>1 DEF Heard, TypeOK
  <2> QED
    BY <1>1, <2>1, <2>2, <2>3, KeptIsInvariant DEF Heard, TypeOK
<1>4. ASSUME NEW t \in Tasks, Flush(t) PROVE IInv'
  <2>1. pending[t] \in Nat /\ pending' \in [Tasks -> Nat] /\ flight' \subseteq Nat
    BY <1>1, <1>4 DEF Flush, TypeOK
  <2>2. UNCHANGED <<s, usable, pollDue, acked, settled, counters>>
    BY <1>4 DEF Flush
  <2> QED
    BY <1>1, <2>1, <2>2 DEF IInv, TypeOK, Sound, counters
<1>5. ASSUME Tick(Ticker) PROVE IInv'
  <2>1. UNCHANGED <<usable, flight, acked, counters>> /\ (pollDue' = pollDue \/ pollDue' = FALSE)
    BY <1>5 DEF Tick, TickDisable, TickExpire, TickGiveUp, TickRetransmit, TickSend, TickPoll, TickWake, Ticking
  <2>2. Kept
    BY <1>5, TickKeeps DEF Tasks
  <2> QED
    BY <1>1, <2>1, <2>2, KeptIsInvariant DEF TypeOK, counters
<1>6. ASSUME Clock \/ Switch PROVE IInv'
  BY <1>1, <1>6, ClockKeeps, KeptIsInvariant DEF TypeOK
<1>7. ASSUME UNCHANGED vars PROVE IInv'
  BY <1>1, <1>7 DEF vars, counters, IInv, TypeOK, Sound
<1> QED
  BY <1>2, <1>3, <1>4, <1>5, <1>6, <1>7 DEF Next

\* The inductive invariant holds at boot.
LEMMA InitialInvariant ==
    ASSUME Init
    PROVE  IInv
<1>1. 0 \in Cells /\ [i \in Cells |-> None] \in [Cells -> Commands \cup {None}] /\ 0 \in 0..QueueSize
  BY DEF Cells
<1>2. "disabled" \in States /\ 0 \in Nat
  BY DEF States, Closed
<1>3. s \in Session
  BY <1>1, <1>2 DEF Init, Session
<1>4. s.out = None /\ s.count = 0 /\ ~s.composing /\ s.state = "disabled"
  BY DEF Init
<1>5. Sound(s)
  BY <1>3, <1>4 DEF Sound
<1>6. pending \in [Tasks -> Nat]
  BY DEF Init
<1>7. usable \in BOOLEAN /\ pollDue \in BOOLEAN
  BY Zenon DEF Init
<1>8. flight = {} /\ acked = {} /\ settled = {} /\ requests = 0 /\ replies = 0 /\ switches = 0
  BY DEF Init
<1> QED
  BY <1>3, <1>5, <1>6, <1>7, <1>8 DEF IInv, TypeOK

\* The inductive invariant holds throughout.
LEMMA Invariance == Spec => []IInv
<1>1. Init => IInv
  BY InitialInvariant
<1>2. IInv /\ [Next]_vars => IInv'
  BY StepKeepsInvariant
<1> QED
  BY <1>1, <1>2, PTL DEF Spec

\* Every variable of the session machine keeps its type, in particular the
\* ring indices of s_queue stay inside the array (queue_push, queue_pop).
THEOREM TypeCorrect == Spec => []TypeOK
<1>1. IInv => TypeOK
  BY DEF IInv
<1> QED
  BY <1>1, Invariance, PTL

\* tick_locked transmits one command at most WL_CMD_TRIES times: no reset of
\* s_tries_left by an ack, a challenge or a reply lets it go on.
THEOREM TriesBoundHolds == Spec => []TriesBound
<1>1. IInv => TriesBound
  BY DEF IInv, Sound, TriesBound
<1> QED
  BY <1>1, Invariance, PTL

\* A session that was closed, abandoned or switched off (session_close,
\* session_fail, the disabled branch of tick_locked) leaves no queued command
\* and no open composition to the next one.
THEOREM NothingLeftBehindHolds == Spec => []NothingLeftBehind
<1>1. IInv => NothingLeftBehind
  BY DEF IInv, Sound, NothingLeftBehind
<1> QED
  BY <1>1, Invariance, PTL

\* What the run checks of a session in one formula: types, bounded tries, and
\* nothing that outlives it.
THEOREM SessionKept == Spec => []SessionSound
<1> QED
  BY TypeCorrect, TriesBoundHolds, NothingLeftBehindHolds, PTL DEF SessionSound

(***************************************************************************)
(* Refinement: the ring of cells is the queue of CommandQueue.             *)
(***************************************************************************)
\* The commands of a session's queue, oldest first, and the cell of each.
At(x, i) == (x.head + i - 1) % QueueSize
Line(x) == [i \in 1 .. x.count |-> x.cell[At(x, i)]]

\* An index wraps at most once.
LEMMA Wraps ==
  \A a \in 0 .. 2 * QueueSize - 1 :
      a % QueueSize = IF a < QueueSize THEN a ELSE a - QueueSize
<1> SUFFICES ASSUME NEW a \in 0 .. 2 * QueueSize - 1
             PROVE  a % QueueSize = IF a < QueueSize THEN a ELSE a - QueueSize
  OBVIOUS
<1>1. QueueSize \in Nat /\ QueueSize > 0
  OBVIOUS
<1>2. CASE a < QueueSize
  BY <1>1, <1>2
<1>3. CASE a >= QueueSize
  <2>1. PICK b \in 0 .. QueueSize - 1 : a = b + QueueSize
    <3>1. a - QueueSize \in 0 .. QueueSize - 1 /\ a = (a - QueueSize) + QueueSize
      BY <1>1, <1>3
    <3> QED
      BY <3>1
  <2>2. b % QueueSize = b
    BY <1>1, <2>1
  <2>3. (b + QueueSize) % QueueSize = b
    BY <1>1, <2>1, <2>2
  <2> QED
    BY <1>1, <1>3, <2>1, <2>3
<1> QED
  BY <1>1, <1>2, <1>3

\* Where the i-th command lies: head + i - 1, wrapped.
LEMMA AtIs ==
  ASSUME NEW h \in 0 .. QueueSize - 1, NEW i \in 1 .. QueueSize
  PROVE  /\ (h + i - 1) % QueueSize = IF h + i - 1 < QueueSize THEN h + i - 1 ELSE h + i - 1 - QueueSize
         /\ (h + i - 1) % QueueSize \in 0 .. QueueSize - 1
<1>1. PICK a \in 0 .. 2 * QueueSize - 1 : a = h + i - 1
  <2>1. h + i - 1 \in 0 .. 2 * QueueSize - 1
    OBVIOUS
  <2> QED
    BY <2>1
<1>2. a % QueueSize = IF a < QueueSize THEN a ELSE a - QueueSize
  BY Wraps
<1>3. (IF a < QueueSize THEN a ELSE a - QueueSize) \in 0 .. QueueSize - 1
  OBVIOUS
<1> QED
  BY <1>1, <1>2, <1>3

\* What a session's fields are good for here.
LEMMA RingFields ==
  ASSUME NEW x \in Session
  PROVE  /\ x.head \in 0 .. QueueSize - 1 /\ x.count \in 0 .. QueueSize
         /\ x.cell \in [Cells -> Commands \cup {None}] /\ Cells = 0 .. QueueSize - 1
BY DEF Session, Cells

\* The queue as a sequence.
LEMMA LineIs ==
  ASSUME NEW x \in Session
  PROVE  /\ Line(x) \in Seq(Commands \cup {None}) /\ Len(Line(x)) = x.count
         /\ \A i \in 1 .. x.count : Line(x)[i] = x.cell[At(x, i)]
<1>1. /\ x.head \in 0 .. QueueSize - 1 /\ x.count \in 0 .. QueueSize
      /\ x.cell \in [Cells -> Commands \cup {None}] /\ Cells = 0 .. QueueSize - 1
  BY RingFields
<1>2. \A i \in 1 .. x.count : At(x, i) \in Cells
  <2> TAKE i \in 1 .. x.count
  <2>1. i \in 1 .. QueueSize
    BY <1>1
  <2> QED
    BY <1>1, <2>1, AtIs DEF At
<1>3. \A i \in 1 .. x.count : x.cell[At(x, i)] \in Commands \cup {None}
  BY <1>1, <1>2
<1>4. x.count \in Nat
  BY <1>1
<1> QED
  BY <1>3, <1>4 DEF Line

\* Sequences that agree everywhere are the same.
LEMMA Alike ==
  ASSUME NEW S, NEW p \in Seq(S), NEW q \in Seq(S), Len(p) = Len(q),
         \A i \in 1 .. Len(q) : q[i] = p[i]
  PROVE  q = p
<1>1. p \in [1 .. Len(q) -> S] /\ q \in [1 .. Len(q) -> S]
  OBVIOUS
<1> QED
  BY <1>1

\* An empty ring is the empty queue.
LEMMA LineOfNone ==
  ASSUME NEW x, x.count = 0
  PROVE  Line(x) = <<>>
BY DEF Line

\* queue_push appends.
LEMMA LineOfPush ==
  ASSUME NEW x \in Session, NEW c \in Commands, ~Full(x)
  PROVE  Line(Push(x, c)) = Append(Line(x), c)
<1> DEFINE y == Push(x, c)
           n == x.count
           k == (x.head + n) % QueueSize
           S == Commands \cup {None}
<1>1. /\ x.head \in 0 .. QueueSize - 1 /\ x.cell \in [Cells -> S] /\ Cells = 0 .. QueueSize - 1
      /\ n \in 0 .. QueueSize - 1
  BY RingFields DEF Full
<1>2. y \in Session
  BY PushType
<1>3. y.head = x.head /\ y.count = n + 1 /\ y.cell = [x.cell EXCEPT ![k] = c]
  BY DEF Push, Session
<1>4. At(x, n + 1) = k
  <2>1. x.head + (n + 1) - 1 = x.head + n
    BY <1>1
  <2> QED
    BY <2>1 DEF At
<1>5. n + 1 \in 1 .. QueueSize
  BY <1>1
<1>6. k \in Cells
  BY <1>1, <1>4, <1>5, AtIs DEF At
<1>7. \A i \in 1 .. n : At(y, i) = At(x, i) /\ At(x, i) # k /\ At(x, i) \in Cells
  <2> TAKE i \in 1 .. n
  <2>1. i \in 1 .. QueueSize
    BY <1>1
  <2>2. At(x, i) = IF x.head + i - 1 < QueueSize THEN x.head + i - 1 ELSE x.head + i - 1 - QueueSize
    BY <1>1, <2>1, AtIs DEF At
  <2>3. k = IF x.head + n < QueueSize THEN x.head + n ELSE x.head + n - QueueSize
    <3>1. At(x, n + 1) = IF x.head + (n + 1) - 1 < QueueSize THEN x.head + (n + 1) - 1
                         ELSE x.head + (n + 1) - 1 - QueueSize
      BY <1>1, <1>5, AtIs DEF At
    <3> HIDE DEF k
    <3> QED
      BY <1>1, <1>4, <3>1
  <2> HIDE DEF k
  <2>4. At(x, i) # k
    BY <1>1, <2>1, <2>2, <2>3
  <2>5. At(x, i) \in Cells
    BY <1>1, <2>1, AtIs DEF At
  <2> QED
    BY <1>3, <2>4, <2>5 DEF At
<1>8. At(y, n + 1) = k
  BY <1>3, <1>4 DEF At
<1>9. /\ Line(x) \in Seq(S) /\ Len(Line(x)) = n /\ \A i \in 1 .. n : Line(x)[i] = x.cell[At(x, i)]
      /\ Line(y) \in Seq(S) /\ Len(Line(y)) = n + 1
      /\ \A i \in 1 .. n + 1 : Line(y)[i] = y.cell[At(y, i)]
  BY <1>2, <1>3, LineIs
<1> HIDE DEF y, k
<1>10. /\ y.cell[k] = c
       /\ \A i \in 1 .. n : y.cell[At(y, i)] = x.cell[At(x, i)]
  BY <1>1, <1>3, <1>6, <1>7
<1>11. \A i \in 1 .. n : Line(y)[i] = Line(x)[i]
  <2> TAKE i \in 1 .. n
  <2>1. i \in 1 .. n + 1
    BY <1>1
  <2> QED
    BY <1>9, <1>10, <2>1
<1>12. Line(y)[n + 1] = c
  <2>1. n + 1 \in 1 .. n + 1
    BY <1>1
  <2> QED
    BY <1>8, <1>9, <1>10, <2>1
<1> DEFINE p == Append(Line(x), c)
<1>13. p \in Seq(S) /\ Len(p) = n + 1 /\ (\A i \in 1 .. n : p[i] = Line(x)[i]) /\ p[n + 1] = c
  BY <1>1, <1>9
<1> HIDE DEF p
<1>14. \A i \in 1 .. n + 1 : Line(y)[i] = p[i]
  <2> TAKE i \in 1 .. n + 1
  <2>1. i \in 1 .. n \/ i = n + 1
    BY <1>1
  <2> QED
    BY <1>11, <1>12, <1>13, <2>1
<1>15. Line(y) = p
  BY <1>9, <1>13, <1>14, Alike
<1> QED
  BY <1>15 DEF y, p

\* queue_pop takes the oldest command off.
LEMMA LineOfPop ==
  ASSUME NEW x \in Session, x.count > 0
  PROVE  Line(x) # <<>> /\ Line(Pop(x)) = Tail(Line(x))
<1> DEFINE y == Pop(x)
           n == x.count - 1
           S == Commands \cup {None}
<1>1. /\ x.head \in 0 .. QueueSize - 1 /\ x.cell \in [Cells -> S] /\ Cells = 0 .. QueueSize - 1
      /\ x.count = n + 1 /\ n \in 0 .. QueueSize - 1
  BY RingFields
<1>2. y \in Session
  BY PopType
<1>3. y.head = (x.head + 1) % QueueSize /\ y.count = n /\ y.cell = x.cell
  BY DEF Pop, Session
<1>4. y.head = IF x.head + 1 < QueueSize THEN x.head + 1 ELSE x.head + 1 - QueueSize
  <2>1. PICK a \in 0 .. 2 * QueueSize - 1 : a = x.head + 1
    BY <1>1
  <2>2. a % QueueSize = IF a < QueueSize THEN a ELSE a - QueueSize
    BY Wraps
  <2> HIDE DEF y
  <2>3. y.head = a % QueueSize
    BY <1>3, <2>1, Zenon
  <2> QED
    BY <1>1, <2>1, <2>2, <2>3
<1> HIDE DEF y, n
<1>5. \A i \in 1 .. n : At(y, i) = At(x, i + 1)
  <2> TAKE i \in 1 .. n
  <2>1. i \in 1 .. QueueSize /\ i + 1 \in 1 .. QueueSize
    BY <1>1
  <2>2. y.head \in 0 .. QueueSize - 1
    BY <1>1, <1>4
  <2>3. (y.head + i - 1) % QueueSize
            = IF y.head + i - 1 < QueueSize THEN y.head + i - 1 ELSE y.head + i - 1 - QueueSize
    BY <2>1, <2>2, AtIs
  <2>4. (x.head + (i + 1) - 1) % QueueSize
            = IF x.head + (i + 1) - 1 < QueueSize THEN x.head + (i + 1) - 1
              ELSE x.head + (i + 1) - 1 - QueueSize
    BY <1>1, <2>1, AtIs
  <2>5. (IF y.head + i - 1 < QueueSize THEN y.head + i - 1 ELSE y.head + i - 1 - QueueSize)
            = IF x.head + (i + 1) - 1 < QueueSize THEN x.head + (i + 1) - 1
              ELSE x.head + (i + 1) - 1 - QueueSize
    <3>1. PICK h \in 0 .. QueueSize - 1 : h = x.head
      BY <1>1
    <3>2. PICK g \in 0 .. QueueSize - 1 : g = y.head
      BY <2>2
    <3>3. g = IF h + 1 < QueueSize THEN h + 1 ELSE h + 1 - QueueSize
      BY <1>4, <3>1, <3>2
    <3>4. (IF g + i - 1 < QueueSize THEN g + i - 1 ELSE g + i - 1 - QueueSize)
            = IF h + (i + 1) - 1 < QueueSize THEN h + (i + 1) - 1 ELSE h + (i + 1) - 1 - QueueSize
      BY <2>1, <3>1, <3>2, <3>3
    <3> QED
      BY <3>1, <3>2, <3>4
  <2> QED
    BY <2>3, <2>4, <2>5 DEF At
<1>6. /\ Line(x) \in Seq(S) /\ Len(Line(x)) = n + 1
      /\ \A i \in 1 .. n + 1 : Line(x)[i] = x.cell[At(x, i)]
      /\ Line(y) \in Seq(S) /\ Len(Line(y)) = n
      /\ \A i \in 1 .. n : Line(y)[i] = y.cell[At(y, i)]
  BY <1>1, <1>2, <1>3, LineIs
<1>7. \A i \in 1 .. n : Line(y)[i] = Line(x)[i + 1]
  <2> TAKE i \in 1 .. n
  <2>1. i + 1 \in 1 .. n + 1
    BY <1>1
  <2> QED
    BY <1>3, <1>5, <1>6, <2>1
<1> DEFINE p == Tail(Line(x))
<1>8. Line(x) # <<>> /\ p \in Seq(S) /\ Len(p) = n /\ \A i \in 1 .. n : p[i] = Line(x)[i + 1]
  BY <1>1, <1>6
<1> HIDE DEF p
<1>9. \A i \in 1 .. n : Line(y)[i] = p[i]
  BY <1>7, <1>8
<1>10. Line(y) = p
  BY <1>6, <1>8, <1>9, Alike
<1> QED
  BY <1>8, <1>10 DEF y, p

\* What leaves the ring alone leaves the queue alone.
LEMMA LineKept ==
  ASSUME NEW x, NEW y, y.cell = x.cell, y.head = x.head, y.count = x.count
  PROVE  Line(y) = Line(x)
BY DEF Line, At

\* What a step may do to the queue: nothing, or one step of CommandQueue.
QueueStep(x, y) ==
  \/ Line(y) = Line(x) \/ Line(y) = <<>>
  \/ Line(x) # <<>> /\ Line(y) = Tail(Line(x))
  \/ \E c \in Commands :
       Line(y) = <<c>> \/ (Len(Line(x)) < QueueSize /\ Line(y) = Append(Line(x), c))

\* A cleared ring with one command in it.
LEMMA LineOfFirst ==
  ASSUME NEW x \in Session, x.count = 0, NEW c \in Commands
  PROVE  Line(Push(x, c)) = <<c>>
<1>1. ~Full(x)
  BY DEF Full
<1>2. Line(Push(x, c)) = Append(Line(x), c) /\ Line(x) = <<>>
  BY <1>1, LineOfPush, LineOfNone
<1> QED
  BY <1>2

\* Appended, or the first of a session that the command opened.
LEMMA AcceptSteps ==
  ASSUME NEW x, Sound(x), NEW c \in Commands, Accepts(x), NEW y,
         y.cell = Accept(x, c).cell, y.head = Accept(x, c).head, y.count = Accept(x, c).count
  PROVE  QueueStep(x, y)
<1>1. Line(y) = Line(Accept(x, c))
  BY LineKept
<1>2. CASE x.state \in {"idle", "error"}
  <2>1. Accept(x, c) = Push(LoginSession(x), c)
    BY <1>2 DEF Accept
  <2>2. LoginSession(x) \in Session /\ LoginSession(x).count = 0
    BY LoginSound DEF Sound
  <2>3. Line(Push(LoginSession(x), c)) = <<c>>
    BY <2>2, LineOfFirst
  <2> QED
    BY <1>1, <2>1, <2>3 DEF QueueStep
<1>3. CASE x.state \notin {"idle", "error"}
  <2>1. Accept(x, c) = Push(x, c) /\ ~Full(x)
    BY <1>3 DEF Accept, Accepts
  <2>2. x \in Session /\ x.count \in 0 .. QueueSize
    BY RingFields DEF Sound
  <2>3. Line(y) = Append(Line(x), c) /\ Len(Line(x)) < QueueSize
    BY <1>1, <2>1, <2>2, LineOfPush, LineIs DEF Full
  <2> QED
    BY <2>3 DEF QueueStep
<1> QED
  BY <1>2, <1>3

\* The three ways a session ends empty the ring.
LEMMA EndEmpties ==
  ASSUME NEW x \in Session
  PROVE  /\ Line(SessionFail(x)) = <<>> /\ Line(SessionClose(x)) = <<>> /\ Line(Disable(x)) = <<>>
         /\ Line(Clear(x)) = <<>> /\ Line(LoginSession(x)) = <<>>
<1>1. /\ SessionFail(x).count = 0 /\ SessionClose(x).count = 0 /\ Disable(x).count = 0
      /\ Clear(x).count = 0 /\ LoginSession(x).count = 0
  <2>1. Clear(x) \in Session /\ Clear(x).count = 0
    BY ClearType
  <2>2. LoginSession(x).count = 0
    BY LoginSound
  <2> HIDE DEF Clear
  <2>3. SessionFail(x).count = 0 /\ SessionClose(x).count = 0 /\ Disable(x).count = 0
    BY <2>1 DEF SessionFail, SessionClose, Disable, Session
  <2> QED
    BY <2>1, <2>2, <2>3
<1> QED
  BY <1>1, LineOfNone

\* What the operator does to the queue.
LEMMA OperatorSteps ==
  ASSUME IInv, NEW t \in Tasks, Operator(t)
  PROVE  QueueStep(s, s')
<1>1. Sound(s) /\ s \in Session
  BY DEF IInv, Sound
<1>2. CASE Login(t)
  <2>1. Line(s') = <<>>
    BY <1>1, <1>2, EndEmpties DEF Login, Apply
  <2> QED
    BY <2>1 DEF QueueStep
<1>3. CASE SendCommand(t)
  <2>1. s' = Accept(s, "list") /\ Accepts(s) /\ "list" \in Commands
    BY <1>3 DEF SendCommand, Apply, Commands
  <2> QED
    BY <1>1, <2>1, AcceptSteps
<1>4. CASE Logoff(t)
  <2> DEFINE z == Push(Clear(s), "bye")
  <2>1. Clear(s) \in Session /\ Clear(s).count = 0 /\ "bye" \in Commands
    BY <1>1, ClearType DEF Commands
  <2>2. Line(z) = <<"bye">>
    BY <2>1, LineOfFirst
  <2>3. z \in Session
    BY <2>1, PushType DEF Full
  <2>4. s' = [z EXCEPT !.state = "logging_off", !.byeOwed = TRUE]
    BY <1>4 DEF Logoff, Apply
  <2> HIDE DEF z
  <2>5. s'.cell = z.cell /\ s'.head = z.head /\ s'.count = z.count
    BY <2>3, <2>4 DEF Session
  <2>6. Line(s') = <<"bye">>
    BY <2>2, <2>5, LineKept
  <2> QED
    BY <2>1, <2>6 DEF QueueStep
<1>5. CASE ComposeBegin(t)
  <2> DEFINE z == Accept(s, "sp")
  <2>1. Accepts(s) /\ "sp" \in Commands
    BY <1>5 DEF ComposeBegin, Commands
  <2>2. z \in Session
    BY <1>1, <2>1, AcceptSound DEF Sound
  <2>3. s' = [z EXCEPT !.composing = TRUE,
                       !.state = IF @ = "logged_in" THEN "composing" ELSE @]
    BY <1>5 DEF ComposeBegin, Apply
  <2> HIDE DEF z
  <2>4. s'.cell = z.cell /\ s'.head = z.head /\ s'.count = z.count
    BY <2>2, <2>3 DEF Session
  <2> QED
    BY <1>1, <2>1, <2>4, AcceptSteps DEF z
<1>6. CASE ComposeLine(t)
  <2>1. s' = Accept(s, "line") /\ Accepts(s) /\ "line" \in Commands
    BY <1>6 DEF ComposeLine, Apply, Commands
  <2> QED
    BY <1>1, <2>1, AcceptSteps
<1>7. CASE ComposeEnd(t)
  <2> DEFINE z == Accept(s, "ex")
  <2>1. Accepts(s) /\ "ex" \in Commands
    BY <1>7 DEF ComposeEnd, Commands
  <2>2. z \in Session
    BY <1>1, <2>1, AcceptSound DEF Sound
  <2>3. s' = ToCommandMode(z)
    BY <1>7 DEF ComposeEnd, Apply
  <2> HIDE DEF z
  <2>4. s'.cell = z.cell /\ s'.head = z.head /\ s'.count = z.count
    BY <2>2, <2>3 DEF Session, ToCommandMode
  <2> QED
    BY <1>1, <2>1, <2>4, AcceptSteps DEF z
<1>8. CASE ComposeAbort(t)
  <2>1. Clear(s) \in Session /\ Clear(s).count = 0 /\ s' = ToCommandMode(Clear(s))
    BY <1>1, <1>8, ClearType DEF ComposeAbort, Apply
  <2>2. s'.count = 0
    BY <2>1 DEF ToCommandMode, Session
  <2> QED
    BY <2>2, LineOfNone DEF QueueStep
<1> QED
  BY <1>2, <1>3, <1>4, <1>5, <1>6, <1>7, <1>8 DEF Operator

\* What the service's messages do to it.
LEMMA ReceiveSteps ==
  ASSUME IInv, NEW t \in Tasks, Receive(t)
  PROVE  QueueStep(s, s')
<1> DEFINE x == [s EXCEPT !.hold = TRUE]
<1>1. s \in Session
  BY DEF IInv, Sound
<1>2. x \in Session /\ x.cell = s.cell /\ x.head = s.head /\ x.count = s.count
  BY <1>1 DEF Session
<1>3. CASE ServiceAck(t)
  <2>1. s' = [s EXCEPT !.hold = TRUE, !.out = None, !.tries = Tries, !.state = AckState]
    BY <1>3 DEF ServiceAck, Apply
  <2>2. s'.cell = s.cell /\ s'.head = s.head /\ s'.count = s.count
    BY <1>1, <2>1 DEF Session
  <2> QED
    BY <2>2, LineKept DEF QueueStep
<1>4. CASE Challenge(t)
  <2>1. CASE s' = SessionFail(x)
    BY <1>2, <2>1, EndEmpties DEF QueueStep
  <2>2. CASE s' = TransmitNew([s EXCEPT !.hold = TRUE, !.tries = Tries,
                                        !.state = "challenge_sent"], "answer")
    <3>1. s'.cell = s.cell /\ s'.head = s.head /\ s'.count = s.count
      BY <1>1, <2>2 DEF TransmitNew, Session
    <3> QED
      BY <3>1, LineKept DEF QueueStep
  <2> QED
    BY <1>4, <2>1, <2>2 DEF Challenge, Apply
<1>5. ASSUME s' = Admit(x) PROVE QueueStep(s, s')
  <2> HIDE DEF x
  <2>1. s'.cell = s.cell /\ s'.head = s.head /\ s'.count = s.count
    BY <1>2, <1>5 DEF Admit, Session
  <2> QED
    BY <2>1, LineKept DEF QueueStep
<1>6. ASSUME s' = x PROVE QueueStep(s, s')
  BY <1>2, <1>6, LineKept DEF QueueStep
<1>7. CASE LoggedOff(t)
  <2>1. s' = SessionClose(x)
    BY <1>7 DEF LoggedOff, Apply
  <2> HIDE DEF x
  <2> QED
    BY <1>2, <2>1, EndEmpties DEF QueueStep
<1>8. CASE LoginValid(t) \/ Reply(t)
  <2>1. s' = Admit(x) \/ s' = x
    BY <1>8 DEF LoginValid, Reply, Apply
  <2> QED
    BY <1>5, <1>6, <2>1
<1> QED
  BY <1>3, <1>4, <1>7, <1>8 DEF Receive

\* What the tick does to it.
LEMMA TickSteps ==
  ASSUME IInv, NEW t \in Tasks, Tick(t)
  PROVE  QueueStep(s, s')
<1>1. s \in Session /\ Awake \in Session /\ Sound(s)
      /\ Awake.count = s.count /\ Awake.cell = s.cell /\ Awake.head = s.head
  BY AwakeSound DEF IInv, Sound
<1>2. Line(Awake) = Line(s)
  BY <1>1, LineKept
<1>3. CASE TickDisable(t) \/ TickExpire(t) \/ TickGiveUp(t)
  <2>1. s' \in {Disable(s), SessionClose(Awake), SessionFail(Awake)}
    BY <1>3 DEF TickDisable, TickExpire, TickGiveUp, Apply
  <2> QED
    BY <1>1, <2>1, EndEmpties DEF QueueStep
<1>4. CASE TickRetransmit(t)
  <2>1. s' = TransmitAgain([Awake EXCEPT !.tries = @ - 1])
    BY <1>4 DEF TickRetransmit, Apply
  <2>2. s'.cell = s.cell /\ s'.head = s.head /\ s'.count = s.count
    BY <1>1, <2>1 DEF TransmitAgain, Session
  <2> QED
    BY <2>2, LineKept DEF QueueStep
<1>5. CASE TickSend(t)
  <2> DEFINE p == Pop(Awake)
  <2>1. Awake.count > 0 /\ s' = TransmitNew([p EXCEPT !.tries = Tries], s.cell[s.head])
    BY <1>1, <1>5 DEF TickSend, Apply
  <2>2. Line(Awake) # <<>> /\ Line(p) = Tail(Line(Awake)) /\ p \in Session
    BY <1>1, <2>1, LineOfPop, PopType
  <2> HIDE DEF p
  <2>3. s'.cell = p.cell /\ s'.head = p.head /\ s'.count = p.count
    BY <2>1, <2>2 DEF TransmitNew, Session
  <2>4. Line(s') = Line(p)
    BY <2>3, LineKept
  <2> QED
    BY <1>2, <2>2, <2>4 DEF QueueStep
<1>6. CASE TickPoll(t)
  <2>1. s' = Push(LoginSession(Awake), "list") /\ "list" \in Commands
    BY <1>6 DEF TickPoll, Apply, Commands
  <2>2. LoginSession(Awake) \in Session /\ LoginSession(Awake).count = 0
    BY <1>1, LoginSound DEF Sound
  <2>3. Line(s') = <<"list">>
    BY <2>1, <2>2, LineOfFirst
  <2> QED
    BY <2>1, <2>3 DEF QueueStep
<1>7. CASE TickWake(t)
  BY <1>2, <1>7 DEF TickWake, Apply, QueueStep
<1> QED
  BY <1>3, <1>4, <1>5, <1>6, <1>7 DEF Tick

\* Every step of the session is one of the queue or leaves it alone.
LEMMA StepIsFifo == IInv /\ [Next]_vars => [Fifo!Next]_Contents
<1> SUFFICES ASSUME IInv, [Next]_vars PROVE [Fifo!Next]_Contents
  OBVIOUS
<1>1. Contents = Line(s) /\ Contents' = Line(s')
  BY DEF Contents, Line, At
<1>2. QueueStep(s, s') => [Fifo!Next]_Contents
  BY <1>1 DEF QueueStep, Fifo!Next, Fifo!Append1, Fifo!Restart, Fifo!Take, Fifo!Empty
<1>3. ASSUME s' = s PROVE QueueStep(s, s')
  BY <1>3 DEF QueueStep
<1>4. s \in Session
  BY DEF IInv, Sound
<1>5. CASE Clock \/ Switch
  <2>1. \/ s' = s \/ s' = [s EXCEPT !.late = TRUE]
        \/ s' = [s EXCEPT !.hold = FALSE] \/ s' = [s EXCEPT !.expired = TRUE]
    BY <1>5 DEF Clock, Switch, ReplyOverdue, HoldEnds, LifetimeEnds, PollComes
  <2>2. s'.cell = s.cell /\ s'.head = s.head /\ s'.count = s.count
    BY <1>4, <2>1 DEF Session
  <2> QED
    BY <1>2, <2>2, LineKept DEF QueueStep
<1>6. ASSUME NEW t \in Tasks, Flush(t) PROVE s' = s
  BY <1>6 DEF Flush
<1>7. CASE UNCHANGED vars
  BY <1>7, <1>2, <1>3 DEF vars
<1> QED
  BY <1>2, <1>3, <1>5, <1>6, <1>7, OperatorSteps, ReceiveSteps, TickSteps DEF Next, Tasks

\* The ring of s_queue with its head and depth implements the bounded queue:
\* whatever is queued, sent, cleared by a login or log-off, given up or switched
\* off, commands leave in the order they came and never more than fit are held
\* (queue_push, queue_pop, queue_clear under every entry point of winlink.c).
THEOREM RingIsTheQueue == Spec => FifoSpec
<1>1. Init => Fifo!Init
  BY DEF Init, Fifo!Init, Contents
<1> QED
  BY <1>1, StepIsFifo, Invariance, PTL DEF Spec, FifoSpec, Fifo!Spec
=============================================================================
