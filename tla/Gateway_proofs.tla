--------------------------- MODULE Gateway_proofs --------------------------
(***************************************************************************)
(* Proofs about what the gateway does with a frame it hears: the path      *)
(* rules of the digipeater, followed over the hops (DigiPath), and that    *)
(* each hop is one that HopSpec promises, for paths of any length, any     *)
(* alias table, any stations and any settings of the Digi page; the        *)
(* duplicate cache the digipeater and the IGate share (RxDispatch), for    *)
(* rings of any depth and settings changed at any time; and the beacon     *)
(* scheduler's round (BeaconTimers), for any intervals, page saves, turns, *)
(* wake-ups and transmissions of a pass.                                   *)
(***************************************************************************)
EXTENDS DigiPath, RxDispatch, BeaconTimers, SequenceTheorems, FiniteSetTheorems,
        WellFoundedInduction, TLAPS

-----------------------------------------------------------------------------
(* The path of a frame over its hops *)

\* A non-empty set of naturals has a least element, and Min returns it.
LEMMA MinIs ==
  ASSUME NEW S \in SUBSET Nat, S # {}
  PROVE  Min(S) \in S /\ \A x \in S : Min(S) <= x
<1> DEFINE R == {p \in Nat \X Nat : p[1] < p[2]}
<1>1. IsWellFoundedOn(R, Nat)
  BY NatLessThanWellFounded, Zenon DEF OpToRel
<1>2. PICK x \in S : \A y \in S : ~(<<y, x>> \in R)
  <2> HIDE DEF R
  <2> QED
    BY <1>1, WFMin
<1>3. \A y \in S : ~(y < x)
  BY <1>2
<1>4. \E m \in S : \A y \in S : m <= y
  BY <1>3
<1> QED
  BY <1>4 DEF Min

Names == Stations \cup {a.call : a \in Sendable} \cup {""}
Address == [call : Names, ssid : 0 .. 15]
Frame == [entry : [Slots -> Address], count : 0 .. MaxRpt, used : SUBSET Slots, dst : 0 .. MaxDest]

\* A gate token that no row claims is passed over.
Passed(f, k) == f.entry[k].call \in GateTokens /\ Rows(f.entry[k].call) = {}

\* A path in hand: its used addresses carry a name and stand in front.
Path(f) ==
  /\ f \in Frame /\ f.used \subseteq In(f)
  /\ \A k \in f.used : f.entry[k].call # ""
  /\ \A k \in f.used, u \in Unused(f) : Passed(f, u) \/ k < u

\* As long as the destination asks for a hop that the path has room for, not
\* even a token stands between.
Pending(f) == page.dest /\ f.dst \in 1 .. 7
InOrder(f) == \A k \in f.used, u \in Unused(f) : k < u

\* The signatures of a path are in what becomes of it.
Keeps(f, g) == \A k \in f.used : \E j \in g.used : g.entry[j] = f.entry[k]
Signs(s, f) == \E k \in f.used : f.entry[k] = Own(s)

LEMMA Bounds == MaxRpt \in Nat /\ MaxRpt > 1 /\ MaxDest \in Nat
BY RptAssumption DEF RptAssumption

LEMMA OwnIs == \A s \in Stations : Own(s) \in Address /\ Own(s).call # ""
<1> TAKE s \in Stations
<1>1. s \in Names /\ s # ""
  BY CallAssumption DEF CallAssumption, Names
<1>2. 0 \in 0 .. 15
  OBVIOUS
<1>3. [call |-> s, ssid |-> 0] \in [call : Names, ssid : 0 .. 15]
  BY <1>1, <1>2, Zenon
<1>4. [call |-> s, ssid |-> 0].call # ""
  BY <1>1
<1> QED
  BY <1>3, <1>4 DEF Own, Address

LEMMA EmptyIs == Empty \in Address /\ Empty.call = ""
<1>1. 0 \in 0 .. 15 /\ "" \in Names
  BY DEF Names
<1>2. [call |-> "", ssid |-> 0] \in [call : Names, ssid : 0 .. 15]
  BY <1>1, Zenon
<1>3. [call |-> "", ssid |-> 0].call = ""
  OBVIOUS
<1> QED
  BY <1>2, <1>3 DEF Empty, Address

LEMMA UnusedAre ==
  ASSUME NEW f, Path(f)
  PROVE  /\ f.count \in 0 .. MaxRpt /\ f.used \subseteq 0 .. f.count - 1
         /\ Unused(f) \subseteq 0 .. f.count - 1 /\ Unused(f) \cap f.used = {}
BY DEF Path, Frame, Unused, In

\* The station's callsign over an unused address.
LEMMA ClaimIs ==
  ASSUME NEW f \in Frame, NEW s \in Stations, NEW idx \in Slots
  PROVE  LET g == Claim(s, f, idx) IN
         /\ g \in Frame /\ g.count = f.count /\ g.dst = f.dst
         /\ g.used = f.used \cup {idx}
         /\ g.entry[idx] = Own(s)
         /\ \A k \in Slots \ {idx} : g.entry[k] = f.entry[k]
<1> DEFINE g == Claim(s, f, idx)
<1>1. g = [f EXCEPT !.entry = [f.entry EXCEPT ![idx] = Own(s)], !.used = f.used \cup {idx}]
  BY DEF Claim, Frame
<1> QED
  BY ZenonT(30), <1>1, OwnIs DEF Frame

\* The addresses from idx on, one slot further: what was used among them is used
\* where it went.
LEMMA ShiftIs ==
  ASSUME NEW f \in Frame, NEW idx \in In(f), f.used \subseteq In(f), idx \notin f.used,
         f.count < MaxRpt
  PROVE  LET g == Shifted(f, idx)
             behind == {k \in f.used : k \in idx .. f.count - 1}
         IN
         /\ g \in Frame /\ g.count = f.count /\ g.dst = f.dst
         /\ \A k \in 0 .. idx - 1 : g.entry[k] = f.entry[k]
         /\ behind = {} => g.used = f.used
         /\ behind # {} =>
              LET last == Min(behind) IN
              /\ last \in f.used /\ idx < last /\ last + 1 < MaxRpt /\ last < f.count
              /\ \A k \in behind : last <= k
              /\ \A k \in idx + 1 .. last + 1 : g.entry[k] = f.entry[k - 1]
              /\ \A k \in last + 2 .. MaxRpt - 1 : g.entry[k] = f.entry[k]
              /\ g.used = {k \in f.used : k < last \/ k > last + 1} \cup {last + 1}
<1> DEFINE g == Shifted(f, idx)
           behind == {k \in f.used : k \in idx .. f.count - 1}
           last == IF behind = {} THEN f.count ELSE Min(behind)
           moved == idx + 1 .. last + 1
           entry == [k \in Slots |-> IF k \in moved THEN f.entry[k - 1] ELSE f.entry[k]]
           used == {k \in Slots : (IF k \in moved THEN k - 1 ELSE k) \in f.used}
<1>0. /\ f.count \in 0 .. MaxRpt /\ idx \in 0 .. f.count - 1 /\ MaxRpt \in Nat /\ MaxRpt > 1
      /\ f.used \subseteq 0 .. f.count - 1
  BY Bounds DEF Frame, In
<1>1. behind # {} => /\ last \in f.used /\ idx < last /\ last < f.count /\ last + 1 < MaxRpt
                     /\ \A k \in behind : last <= k
  <2> SUFFICES ASSUME behind # {}
               PROVE  /\ last \in f.used /\ idx < last /\ last < f.count /\ last + 1 < MaxRpt
                      /\ \A k \in behind : last <= k
    OBVIOUS
  <2>1. behind \subseteq Nat
    BY <1>0
  <2>2. last \in behind /\ \A k \in behind : last <= k
    BY <2>1, MinIs
  <2> QED
    BY <1>0, <2>2
<1>2. last \in Nat /\ idx <= last /\ last <= f.count
  BY <1>0, <1>1
<1>3. g = IF last + 1 >= MaxRpt THEN f ELSE [f EXCEPT !.entry = entry, !.used = used]
  BY DEF Shifted
<1> HIDE DEF g
<1>4. g \in Frame /\ g.count = f.count /\ g.dst = f.dst
  <2>1. entry \in [Slots -> Address]
    <3>1. \A k \in moved : k \in Slots => k - 1 \in Slots
      BY <1>0, <1>2 DEF Slots
    <3> QED
      BY <3>1 DEF Frame
  <2>2. used \in SUBSET Slots
    OBVIOUS
  <2> HIDE DEF entry, used
  <2> QED
    BY <1>3, <2>1, <2>2 DEF Frame
<1>5. g.entry = IF last + 1 >= MaxRpt THEN f.entry ELSE entry
  <2> HIDE DEF entry, used, last
  <2> QED
    BY <1>3 DEF Frame
<1>6. g.used = IF last + 1 >= MaxRpt THEN f.used ELSE used
  <2> HIDE DEF entry, used, last
  <2> QED
    BY <1>3 DEF Frame
<1>7. \A k \in 0 .. idx - 1 : g.entry[k] = f.entry[k]
  <2> HIDE DEF behind, last
  <2> QED
    BY <1>0, <1>2, <1>5 DEF Slots
<1>8. ASSUME behind = {} PROVE g.used = f.used
  <2>1. last = f.count /\ \A k \in f.used : k < idx
    BY <1>0, <1>8
  <2> HIDE DEF behind, last
  <2>2. \A k \in Slots : k \in moved => k - 1 \notin f.used /\ k \notin f.used
    BY <1>0, <2>1 DEF Slots
  <2>3. f.used \subseteq Slots
    BY <1>0 DEF Slots
  <2>4. used = f.used
    BY <2>2, <2>3
  <2> HIDE DEF used
  <2> QED
    BY <1>6, <2>4
<1>9. ASSUME behind # {}
      PROVE  /\ \A k \in idx + 1 .. last + 1 : g.entry[k] = f.entry[k - 1]
             /\ \A k \in last + 2 .. MaxRpt - 1 : g.entry[k] = f.entry[k]
             /\ g.used = {k \in f.used : k < last \/ k > last + 1} \cup {last + 1}
  <2>1. /\ last \in f.used /\ idx < last /\ last < f.count /\ last + 1 < MaxRpt
        /\ \A k \in f.used : k < idx \/ last <= k
    BY <1>0, <1>1, <1>9
  <2> HIDE DEF behind, last
  <2>2. g.entry = entry /\ g.used = used
    BY <1>0, <1>2, <1>5, <1>6, <2>1
  <2>3. \A k \in idx + 1 .. last + 1 : g.entry[k] = f.entry[k - 1]
    BY <1>0, <1>2, <2>1, <2>2 DEF Slots
  <2>4. \A k \in last + 2 .. MaxRpt - 1 : g.entry[k] = f.entry[k]
    BY <1>0, <1>2, <2>1, <2>2 DEF Slots
  <2>5. \A k \in Slots : k \in used <=> k \in {j \in f.used : j < last \/ j > last + 1} \cup {last + 1}
    <3> SUFFICES ASSUME NEW k \in Slots
                 PROVE  k \in used <=> (k \in f.used /\ (k < last \/ k > last + 1)) \/ k = last + 1
      OBVIOUS
    <3>1. CASE k \in moved
      <4>1. k - 1 \in f.used <=> k = last + 1
        BY <1>0, <1>2, <2>1, <3>1
      <4>2. k < last => k \notin f.used
        BY <1>0, <1>2, <2>1, <3>1
      <4> QED
        BY <1>0, <1>2, <3>1, <4>1, <4>2 DEF Slots
    <3>2. CASE k \notin moved
      <4>1. k < idx + 1 \/ k > last + 1
        BY <1>0, <1>2, <3>2 DEF Slots
      <4> QED
        BY <1>0, <1>2, <2>1, <3>2, <4>1 DEF Slots
    <3> QED
      BY <3>1, <3>2
  <2>6. last + 1 \in Slots /\ f.used \subseteq Slots
    BY <1>0, <1>2, <2>1 DEF Slots
  <2> HIDE DEF used
  <2>7. used \subseteq Slots
    BY DEF used
  <2> QED
    BY <2>2, <2>3, <2>4, <2>5, <2>6, <2>7
<1>10. behind # {} => last = Min(behind)
  OBVIOUS
<1> HIDE DEF last
<1>11. behind # {} =>
         LET first == Min(behind) IN
         /\ first \in f.used /\ idx < first /\ first + 1 < MaxRpt /\ first < f.count
         /\ \A k \in behind : first <= k
         /\ \A k \in idx + 1 .. first + 1 : g.entry[k] = f.entry[k - 1]
         /\ \A k \in first + 2 .. MaxRpt - 1 : g.entry[k] = f.entry[k]
         /\ g.used = {k \in f.used : k < first \/ k > first + 1} \cup {first + 1}
  BY <1>1, <1>9, <1>10
<1> QED
  BY <1>4, <1>7, <1>8, <1>11 DEF g

\* A callsign inserted before the first address that counts leaves a path in
\* hand, and where all used addresses stand in front they stay where they are.
LEMMA InsertIs ==
  ASSUME NEW f, Path(f), NEW s \in Stations, NEW idx \in Unused(f), f.count < MaxRpt,
         \A u \in Unused(f) : u < idx => Passed(f, u)
  PROVE  LET g == InsertOwn(s, f, idx) IN
         /\ Path(g) /\ g.count = f.count + 1 /\ g.dst = f.dst
         /\ idx \in g.used /\ g.entry[idx] = Own(s)
         /\ (\A k \in f.used : k < idx) =>
              /\ g.used = f.used \cup {idx}
              /\ \A k \in f.used : g.entry[k] = f.entry[k]
<1> DEFINE h == Shifted(f, idx)
           m == [h EXCEPT !.count = @ + 1]
           g == InsertOwn(s, f, idx)
           behind == {k \in f.used : k \in idx .. f.count - 1}
           first == Min(behind)
<1>1. /\ f \in Frame /\ f.count \in 0 .. MaxRpt /\ f.used \subseteq 0 .. f.count - 1
      /\ idx \in 0 .. f.count - 1 /\ idx \notin f.used /\ MaxRpt \in Nat
  BY UnusedAre, Bounds DEF Path
<1>2. idx \in In(f) /\ f.used \subseteq In(f)
  BY <1>1 DEF In
<1>3. /\ h \in Frame /\ h.count = f.count /\ h.dst = f.dst
      /\ \A k \in 0 .. idx - 1 : h.entry[k] = f.entry[k]
      /\ behind = {} => h.used = f.used
      /\ behind # {} =>
           /\ first \in f.used /\ idx < first /\ first + 1 < MaxRpt /\ first < f.count
           /\ \A k \in behind : first <= k
           /\ \A k \in idx + 1 .. first + 1 : h.entry[k] = f.entry[k - 1]
           /\ \A k \in first + 2 .. MaxRpt - 1 : h.entry[k] = f.entry[k]
           /\ h.used = {k \in f.used : k < first \/ k > first + 1} \cup {first + 1}
  BY <1>1, <1>2, ShiftIs
<1> HIDE DEF h, first
<1>4. /\ m \in Frame /\ m.count = f.count + 1 /\ m.dst = f.dst
      /\ m.used = h.used /\ m.entry = h.entry
  BY <1>1, <1>3 DEF Frame
<1>a. g = Claim(s, m, idx)
  BY DEF InsertOwn, m, h
<1> HIDE DEF m, g
<1>5. /\ g \in Frame /\ g.count = f.count + 1 /\ g.dst = f.dst
      /\ g.used = h.used \cup {idx} /\ g.entry[idx] = Own(s)
      /\ \A k \in Slots \ {idx} : g.entry[k] = h.entry[k]
  <2>1. idx \in Slots
    BY <1>1 DEF Slots
  <2> QED
    BY <1>3, <1>4, <1>a, <2>1, ClaimIs
<1>6. Own(s).call # ""
  BY OwnIs
<1>7. CASE behind = {}
  <2>1. \A k \in f.used : k < idx
    BY <1>1, <1>7
  <2>2. g.used = f.used \cup {idx} /\ \A k \in 0 .. idx - 1 : g.entry[k] = f.entry[k]
    BY <1>1, <1>3, <1>5, <1>7 DEF Slots
  <2>3. \A k \in f.used : g.entry[k] = f.entry[k]
    BY <1>1, <2>1, <2>2
  <2>4. ASSUME NEW k \in g.used, NEW u \in Unused(g) PROVE Passed(g, u) \/ k < u
    <3>1. /\ k \in Nat /\ k <= idx
          /\ u \in 0 .. f.count /\ u # idx /\ u \notin f.used
      BY <1>1, <1>5, <2>1, <2>2 DEF Unused, In
    <3>2. CASE u < idx
      <4>1. u \in Unused(f) /\ g.entry[u] = f.entry[u]
        BY <1>1, <2>2, <3>1, <3>2 DEF Unused, In
      <4> QED
        BY <3>2, <4>1 DEF Passed
    <3>3. CASE u > idx
      BY <1>1, <3>1, <3>3
    <3> QED
      BY <1>1, <3>1, <3>2, <3>3
  <2>5. g.used \subseteq In(g)
    BY <1>1, <1>5, <2>2 DEF In
  <2>6. \A k \in g.used : g.entry[k].call # ""
    BY <1>5, <1>6, <2>2, <2>3 DEF Path
  <2>7. Path(g)
    BY <1>5, <2>4, <2>5, <2>6 DEF Path
  <2> QED
    BY <1>5, <2>2, <2>3, <2>7 DEF g
<1>8. CASE behind # {}
  <2>1. /\ first \in f.used /\ idx < first /\ first + 1 < MaxRpt /\ first < f.count
        /\ \A k \in f.used : k < idx \/ first <= k
        /\ \A k \in idx + 1 .. first + 1 : g.entry[k] = f.entry[k - 1]
        /\ \A k \in first + 2 .. MaxRpt - 1 : g.entry[k] = f.entry[k]
        /\ g.used = {k \in f.used : k < first \/ k > first + 1} \cup {first + 1, idx}
        /\ \A k \in 0 .. idx - 1 : g.entry[k] = f.entry[k]
    BY <1>1, <1>3, <1>5, <1>8 DEF Slots
  <2>2. ~(\A k \in f.used : k < idx)
    BY <1>1, <2>1
  <2>3. \A k \in g.used : g.entry[k].call # ""
    <3>1. \A k \in f.used : f.entry[k].call # ""
      BY DEF Path
    <3>2. g.entry[first + 1] = f.entry[first]
      BY <1>1, <2>1
    <3>3. \A k \in f.used : k < first \/ k > first + 1 => g.entry[k] = f.entry[k]
      BY <1>1, <2>1
    <3> QED
      BY <1>5, <1>6, <2>1, <3>1, <3>2, <3>3
  <2>4. ASSUME NEW k \in g.used, NEW u \in Unused(g) PROVE Passed(g, u) \/ k < u
    <3>1. u \in 0 .. f.count /\ u # idx /\ u # first + 1 /\ u \notin g.used
      BY <1>1, <1>5, <2>1 DEF Unused, In
    <3>2. \A v \in Unused(f) : Passed(f, v) \/ first < v
      BY <2>1 DEF Path
    <3>3. CASE u < idx
      <4>1. u \in Unused(f) /\ g.entry[u] = f.entry[u]
        BY <1>1, <2>1, <3>1, <3>3 DEF Unused, In
      <4> QED
        BY <3>3, <4>1 DEF Passed
    <3>4. CASE u \in idx + 1 .. first
      <4>1. u - 1 \in Unused(f) /\ g.entry[u] = f.entry[u - 1]
        BY <1>1, <2>1, <3>4 DEF Unused, In
      <4>2. Passed(f, u - 1)
        BY <1>1, <2>1, <3>2, <3>4, <4>1
      <4> QED
        BY <4>1, <4>2 DEF Passed
    <3>5. CASE u > first + 1
      <4>1. CASE u = f.count
        BY <1>1, <2>1, <4>1, <3>5
      <4>2. CASE u < f.count
        <5>1. u \in Unused(f) /\ g.entry[u] = f.entry[u]
          BY <1>1, <2>1, <3>1, <3>5, <4>2 DEF Unused, In
        <5>2. Passed(f, u) \/ \A j \in f.used : j < u
          BY <5>1 DEF Path
        <5>3. CASE Passed(f, u)
          BY <5>1, <5>3 DEF Passed
        <5>4. CASE \A j \in f.used : j < u
          BY <1>1, <2>1, <3>5, <5>4
        <5> QED
          BY <5>2, <5>3, <5>4
      <4> QED
        BY <1>1, <3>1, <4>1, <4>2
    <3> QED
      BY <1>1, <2>1, <3>1, <3>3, <3>4, <3>5
  <2>5. g.used \subseteq In(g)
    BY <1>1, <1>5, <2>1 DEF In
  <2>6. Path(g)
    BY <1>5, <2>3, <2>4, <2>5 DEF Path
  <2> QED
    BY <1>5, <2>2, <2>6 DEF g
<1> QED
  BY <1>7, <1>8

\* Another count on an address changes nothing but that.
LEMMA SsidIs ==
  ASSUME NEW f \in Frame, NEW idx \in Slots, NEW hops \in 0 .. 15
  PROVE  LET g == [f EXCEPT !.entry[idx].ssid = hops] IN
         /\ g \in Frame /\ g.count = f.count /\ g.dst = f.dst /\ g.used = f.used
         /\ \A k \in Slots : g.entry[k].call = f.entry[k].call
         /\ \A k \in Slots \ {idx} : g.entry[k] = f.entry[k]
<1> DEFINE address == [f.entry[idx] EXCEPT !.ssid = hops]
           entry == [f.entry EXCEPT ![idx] = address]
           g == [f EXCEPT !.entry[idx].ssid = hops]
<1>1. address \in Address /\ address.call = f.entry[idx].call
  BY DEF Frame, Address
<1> HIDE DEF address
<1>2. /\ entry \in [Slots -> Address] /\ entry[idx] = address
      /\ \A k \in Slots \ {idx} : entry[k] = f.entry[k]
  BY <1>1 DEF Frame
<1>3. g = [f EXCEPT !.entry = entry]
  BY DEF address
<1> HIDE DEF g, entry
<1>4. g \in Frame /\ g.entry = entry /\ g.count = f.count /\ g.dst = f.dst /\ g.used = f.used
  BY <1>2, <1>3 DEF Frame
<1> QED
  BY <1>1, <1>2, <1>4 DEF g

\* The callsign over the address that decides.
LEMMA ClaimGives ==
  ASSUME NEW f, Path(f), NEW s \in Stations, NEW idx \in Unused(f),
         \A u \in Unused(f) : u < idx => Passed(f, u)
  PROVE  LET g == Claim(s, f, idx) IN
         /\ Path(g) /\ g.count = f.count /\ g.dst = f.dst /\ Keeps(f, g)
         /\ (\A k \in In(f) : f.entry[k].call # "") => \A k \in In(g) : g.entry[k].call # ""
<1> DEFINE g == Claim(s, f, idx)
<1>1. /\ f \in Frame /\ f.count \in 0 .. MaxRpt /\ f.used \subseteq 0 .. f.count - 1
      /\ idx \in 0 .. f.count - 1 /\ idx \notin f.used /\ MaxRpt \in Nat
  BY UnusedAre, Bounds DEF Path
<1>2. idx \in Slots /\ In(f) \subseteq Slots
  BY <1>1 DEF Slots, In
<1>3. /\ g \in Frame /\ g.count = f.count /\ g.dst = f.dst
      /\ g.used = f.used \cup {idx}
      /\ g.entry[idx] = Own(s)
      /\ \A k \in Slots \ {idx} : g.entry[k] = f.entry[k]
  BY <1>1, <1>2, ClaimIs
<1> HIDE DEF g
<1>4. Own(s).call # ""
  BY OwnIs
<1>5. In(g) = In(f) /\ f.used \subseteq In(f) /\ idx \in In(f)
  BY <1>1, <1>3 DEF In
<1>6. g.used \subseteq In(g)
  BY <1>3, <1>5
<1>7. \A k \in g.used : g.entry[k].call # ""
  BY <1>2, <1>3, <1>4, <1>5 DEF Path
<1>8. ASSUME NEW k \in g.used, NEW u \in Unused(g) PROVE Passed(g, u) \/ k < u
  <2>1. u \in Unused(f) /\ u # idx /\ g.entry[u] = f.entry[u]
    BY <1>2, <1>3, <1>5 DEF Unused
  <2>2. Passed(g, u) <=> Passed(f, u)
    BY <2>1 DEF Passed
  <2>3. CASE k \in f.used
    BY <2>1, <2>2, <2>3 DEF Path
  <2>4. CASE k = idx
    <3>1. u \in 0 .. f.count - 1
      BY <2>1, UnusedAre
    <3>2. u < idx \/ idx < u
      BY <1>1, <2>1, <3>1
    <3> QED
      BY <2>1, <2>2, <2>4, <3>2
  <2> QED
    BY <1>3, <2>3, <2>4
<1>9. Keeps(f, g)
  BY <1>1, <1>2, <1>3, <1>5 DEF Keeps
<1>10. (\A k \in In(f) : f.entry[k].call # "") => \A k \in In(g) : g.entry[k].call # ""
  BY <1>2, <1>3, <1>4, <1>5
<1>11. Path(g)
  BY <1>3, <1>6, <1>7, <1>8 DEF Path
<1> QED
  BY <1>3, <1>9, <1>10, <1>11 DEF g

Recounted(f, idx, hops) == [f EXCEPT !.entry[idx].ssid = hops]

\* An address nobody has served yet gets another count.
LEMMA SsidGives ==
  ASSUME NEW f, Path(f), NEW idx \in Slots, idx \notin f.used, NEW hops \in 0 .. 15
  PROVE  LET g == Recounted(f, idx, hops) IN
         /\ Path(g) /\ g.count = f.count /\ g.dst = f.dst /\ Keeps(f, g)
         /\ g.used = f.used /\ \A k \in f.used : g.entry[k] = f.entry[k]
         /\ (\A k \in In(f) : f.entry[k].call # "") => \A k \in In(g) : g.entry[k].call # ""
<1> DEFINE g == Recounted(f, idx, hops)
<1>1. f \in Frame /\ f.used \subseteq In(f)
  BY DEF Path
<1>2. In(f) \subseteq Slots
  BY Bounds, <1>1 DEF In, Slots, Frame
<1>3. /\ g \in Frame /\ g.count = f.count /\ g.dst = f.dst /\ g.used = f.used
      /\ \A k \in Slots : g.entry[k].call = f.entry[k].call
      /\ \A k \in Slots \ {idx} : g.entry[k] = f.entry[k]
  BY <1>1, SsidIs DEF Recounted
<1> HIDE DEF g
<1>4. In(g) = In(f) /\ Unused(g) = Unused(f)
  BY <1>3 DEF In, Unused
<1>5. \A u \in Unused(f) : Passed(g, u) <=> Passed(f, u)
  BY <1>2, <1>3 DEF Passed, Unused
<1>6. \A k \in f.used : g.entry[k] = f.entry[k]
  BY <1>1, <1>2, <1>3
<1>7. Path(g)
  BY <1>1, <1>3, <1>4, <1>5, <1>6 DEF Path
<1>8. Keeps(f, g)
  BY <1>3, <1>6 DEF Keeps
<1> QED
  BY <1>2, <1>3, <1>4, <1>6, <1>7, <1>8 DEF g

\* A hop behind the route by destination: the path stays one in hand, a full one
\* stays full unless its head is discarded, which leaves one address used.
Later(f, g) ==
  /\ Path(g) /\ g.dst = f.dst /\ Unused(f) # {}
  /\ page.preempt # "discard" => Keeps(f, g)
  /\ \/ InOrder(g)
     \/ ~Room(f) => g.count = f.count /\ \A k \in In(g) : g.entry[k].call # ""

LEMMA ByAliasGives ==
  ASSUME NEW f, Path(f), NEW s \in Stations, Decodable(f), NEW idx \in Unused(f),
         \A u \in Unused(f) : u < idx => Passed(f, u), \A k \in f.used : k < idx,
         NEW row, row.max \in 1 .. 7, ByAlias(s, f, idx, row).code = 2
  PROVE  Later(f, ByAlias(s, f, idx, row).frame)
<1> DEFINE n == f.entry[idx].ssid
           hops == HopsLeft(row, n)
           g == InsertOwn(s, f, idx)
<1>1. /\ f \in Frame /\ f.count \in 0 .. MaxRpt /\ f.used \subseteq 0 .. f.count - 1
      /\ idx \in 0 .. f.count - 1 /\ idx \notin f.used /\ MaxRpt \in Nat
  BY UnusedAre, Bounds DEF Path
<1>2. idx \in Slots
  BY <1>1 DEF Slots
<1>3. n \in 0 .. 15
  BY <1>1, <1>2 DEF Frame, Address
<1>4. n # 0 => hops \in 0 .. 15
  BY <1>3 DEF HopsLeft
<1>5. Later(f, Claim(s, f, idx))
  BY ZenonT(30), ClaimGives DEF Later, Decodable
<1>6. n # 0 => Later(f, Recounted(f, idx, hops))
  <2> HIDE DEF hops, n
  <2> QED
    BY <1>1, <1>2, <1>4, SsidGives DEF Later, Decodable
<1>7. ASSUME Room(f)
      PROVE  /\ Path(g) /\ g.count = f.count + 1 /\ g.dst = f.dst
             /\ g.used = f.used \cup {idx} /\ \A k \in f.used : g.entry[k] = f.entry[k]
  BY <1>1, <1>7, InsertIs DEF Room
<1>8. Room(f) => Later(f, g)
  <2> HIDE DEF g
  <2> QED
    BY <1>7 DEF Later, Keeps
<1>9. ASSUME n # 0, Room(f), idx + 1 < MaxRpt
      PROVE  Later(f, Recounted(g, idx + 1, hops))
  <2> DEFINE h == Recounted(g, idx + 1, hops)
  <2>1. idx + 1 \in Slots /\ idx + 1 \notin f.used \cup {idx}
    BY <1>1, <1>9 DEF Slots
  <2> HIDE DEF g, hops, n
  <2>2. /\ Path(h) /\ h.dst = g.dst /\ h.used = g.used
        /\ \A k \in g.used : h.entry[k] = g.entry[k]
    <3>1. Path(g) /\ idx + 1 \in Slots /\ idx + 1 \notin g.used /\ hops \in 0 .. 15
      BY <1>4, <1>7, <1>9, <2>1
    <3>2. \A i \in Slots : i \notin g.used =>
            LET r == Recounted(g, i, hops) IN
            /\ Path(r) /\ r.dst = g.dst /\ r.used = g.used
            /\ \A k \in g.used : r.entry[k] = g.entry[k]
      BY <3>1, SsidGives
    <3> QED
      BY <3>1, <3>2
  <2> HIDE DEF h
  <2>3. Keeps(f, h)
    BY <1>7, <1>9, <2>2 DEF Keeps
  <2> QED
    BY <1>7, <1>9, <2>2, <2>3 DEF Later, h
<1>10. ByAlias(s, f, idx, row) \in
         {Result(2, Claim(s, f, idx)), Result(0, f)}
         \cup (IF n = 0 THEN {} ELSE {Result(2, Recounted(f, idx, hops))})
         \cup (IF ~Room(f) \/ n = 0 THEN {}
               ELSE {Result(2, IF idx + 1 < MaxRpt THEN Recounted(g, idx + 1, hops)
                               ELSE g)})
  BY DEF ByAlias, Recounted
<1> QED
  <2> HIDE DEF g, hops, n
  <2> QED
    BY <1>5, <1>6, <1>8, <1>9, <1>10 DEF Result

\* The first unused address that is no unclaimed token is behind all used ones.
LEMMA ByTableGives ==
  ASSUME NEW f, Path(f), NEW s \in Stations, Decodable(f), ByTable(s, f).code = 2
  PROVE  Later(f, ByTable(s, f).frame)
<1> DEFINE deciding == {k \in Unused(f) : \/ Rows(f.entry[k].call) # {}
                                          \/ f.entry[k].call \notin GateTokens}
           idx == Min(deciding)
           rows == Rows(f.entry[idx].call)
<1>1. deciding # {} /\ rows # {} /\ ByTable(s, f) = ByAlias(s, f, idx, Table[Min(rows)])
  <2>1. ByTable(s, f) =
          IF deciding = {} THEN Result(0, f)
          ELSE IF rows # {} THEN ByAlias(s, f, idx, Table[Min(rows)])
          ELSE IF f.entry[idx] = Own(s) THEN Result(1, [f EXCEPT !.used = @ \cup {idx}])
          ELSE Result(0, f)
    BY DEF ByTable
  <2> HIDE DEF rows, idx, deciding
  <2> QED
    BY <2>1 DEF Result
<1>2. deciding \subseteq Nat
  BY UnusedAre
<1>3. idx \in deciding /\ \A k \in deciding : idx <= k
  BY <1>1, <1>2, MinIs
<1>4. rows \subseteq DOMAIN Table
  BY DEF Rows
<1>5. Min(rows) \in rows
  <2>1. rows \subseteq Nat
    BY <1>4, TableAssumption DEF TableAssumption
  <2> HIDE DEF rows
  <2> QED
    BY <1>1, <2>1, MinIs
<1>6. Table[Min(rows)].max \in 1 .. 7
  <2>1. Min(rows) \in DOMAIN Table
    BY <1>4, <1>5
  <2> HIDE DEF rows
  <2> QED
    BY <2>1, TableAssumption DEF TableAssumption
<1>7. idx \in Unused(f) /\ ~Passed(f, idx)
  BY <1>3 DEF Passed
<1>8. \A u \in Unused(f) : u < idx => Passed(f, u)
  <2> SUFFICES ASSUME NEW u \in Unused(f), u < idx, ~Passed(f, u)
               PROVE  FALSE
    OBVIOUS
  <2>1. u \in deciding
    BY DEF Passed
  <2>2. u \in Nat /\ idx \in Nat
    BY <1>2, <1>3, <2>1
  <2> HIDE DEF idx, deciding
  <2> QED
    BY <1>3, <2>1, <2>2
<1>9. \A k \in f.used : k < idx
  BY <1>7 DEF Path
<1> HIDE DEF idx, rows
<1> QED
  BY <1>1, <1>6, <1>7, <1>8, <1>9, ByAliasGives

\* What an explicit route is about is no gate token.
LEMMA MatchCounts ==
  ASSUME NEW f, NEW s \in Stations, NEW k, PreemptMatches(s, f.entry[k])
  PROVE  ~Passed(f, k)
BY TokenAssumption DEF TokenAssumption, PreemptMatches, Passed, Own

\* An explicit route passes over what stands in front, or discards it.
LEMMA ByPreemptionGives ==
  ASSUME NEW f, Path(f), NEW s \in Stations, Decodable(f), page \in Pages,
         page.preempt # "off", ByPreemption(s, f).code = 2
  PROVE  Later(f, ByPreemption(s, f).frame)
<1> DEFINE matches == {k \in Unused(f) : PreemptMatches(s, f.entry[k])}
           match == Min(matches)
           first == Min(Unused(f))
           marked == [f EXCEPT !.used = @ \cup PassedOver(first, match)]
           kept == f.count - match
           headed == [f EXCEPT !.count = kept,
                        !.entry = [k \in Slots |-> IF k < kept THEN @[match + k] ELSE @[k]],
                        !.used = {k \in 0 .. kept - 1 : match + k \in @}]
<1>1. matches # {} /\ match # first
      /\ ByPreemption(s, f) = IF page.preempt = "mark" THEN Result(2, Claim(s, marked, match))
                              ELSE Result(2, Claim(s, headed, 0))
  <2> HIDE DEF match, marked, headed, first
  <2> QED
    BY DEF ByPreemption, Result, match, marked, headed, first, kept
<1>2. /\ f \in Frame /\ f.count \in 0 .. MaxRpt /\ f.used \subseteq 0 .. f.count - 1
      /\ Unused(f) \subseteq 0 .. f.count - 1 /\ MaxRpt \in Nat
  BY UnusedAre, Bounds DEF Path
<1>a. match \in matches
  <2>1. matches \subseteq Nat
    BY <1>2
  <2> QED
    BY <1>1, <2>1, MinIs
<1>3. match \in Unused(f) /\ PreemptMatches(s, f.entry[match])
  BY <1>a
<1>4. first \in Unused(f) /\ \A u \in Unused(f) : first <= u
  BY <1>2, <1>3, MinIs
<1>5. match \in 0 .. f.count - 1 /\ first \in 0 .. f.count - 1 /\ first < match /\ match \notin f.used
  <2>1. match \in 0 .. f.count - 1 /\ first \in 0 .. f.count - 1 /\ match \notin f.used
    BY <1>2, <1>3, <1>4 DEF Unused
  <2> HIDE DEF match, first
  <2> QED
    BY <1>1, <1>3, <1>4, <2>1
<1>6. \A k \in 0 .. f.count - 1 : k \in f.used \/ k \in Unused(f)
  BY DEF Unused, In
<1>7. \A k \in 0 .. f.count - 1 : f.entry[k].call # ""
  BY DEF Decodable, In
<1>8. Own(s).call # ""
  BY OwnIs
<1> HIDE DEF match, first
<1>9. CASE page.preempt = "mark"
  <2> DEFINE g == Claim(s, marked, match)
  <2>1. /\ marked \in Frame /\ marked.count = f.count /\ marked.dst = f.dst
        /\ marked.used = f.used \cup (first .. match) /\ marked.entry = f.entry
    <3>1. f.used \cup (first .. match) \in SUBSET Slots
      BY <1>2, <1>5 DEF Slots
    <3> QED
      BY <1>2, <3>1 DEF Frame, PassedOver
  <2> HIDE DEF marked
  <2>2. match \in Slots
    BY <1>2, <1>5 DEF Slots
  <2>3. /\ g \in Frame /\ g.count = f.count /\ g.dst = f.dst
        /\ g.used = f.used \cup (first .. match)
        /\ g.entry[match] = Own(s)
        /\ \A k \in Slots \ {match} : g.entry[k] = f.entry[k]
    <3>1. marked.used \cup {match} = f.used \cup (first .. match)
      BY <1>5, <2>1
    <3> QED
      BY <2>1, <2>2, <3>1, ClaimIs
  <2> HIDE DEF g
  <2>4. \A k \in 0 .. f.count - 1 : g.entry[k].call # ""
    <3>1. \A k \in 0 .. f.count - 1 : k \in Slots
      BY <1>2 DEF Slots
    <3>2. \A k \in (0 .. f.count - 1) \ {match} : g.entry[k] = f.entry[k]
      BY <2>3, <3>1
    <3>3. g.entry[match].call # ""
      BY <1>8, <2>3
    <3> QED
      BY <1>7, <3>2, <3>3
  <2>5. g.used \subseteq 0 .. f.count - 1
    BY <1>2, <1>5, <2>3
  <2>6. ASSUME NEW k \in g.used, NEW u \in Unused(g) PROVE Passed(g, u) \/ k < u
    <3>1. u \in Unused(f) /\ u # match /\ u \notin first .. match /\ u \in 0 .. f.count - 1
      BY <1>5, <2>3 DEF Unused, In
    <3>2. match < u
      BY <1>4, <1>5, <3>1
    <3>3. CASE k \in first .. match
      BY <1>5, <3>1, <3>2, <3>3
    <3>4. CASE k \in f.used
      <4>1. g.entry[u] = f.entry[u]
        BY <1>2, <2>3, <3>1 DEF Slots
      <4>2. Passed(f, u) \/ k < u
        BY <3>1, <3>4 DEF Path
      <4> QED
        BY <4>1, <4>2 DEF Passed
    <3> QED
      BY <2>3, <3>3, <3>4
  <2>7. In(g) = 0 .. f.count - 1
    BY <2>3 DEF In
  <2>8. Path(g)
    BY <2>3, <2>4, <2>5, <2>6, <2>7 DEF Path
  <2>9. Keeps(f, g)
    <3>1. \A k \in f.used : k \in Slots \ {match}
      BY <1>2, <1>5 DEF Slots
    <3> QED
      BY <2>3, <3>1 DEF Keeps
  <2>10. Later(f, g)
    BY <1>3, <2>3, <2>4, <2>7, <2>8, <2>9 DEF Later
  <2> QED
    BY <1>1, <1>9, <2>10 DEF Result, g
<1>10. CASE page.preempt # "mark"
  <2>1. page.preempt = "discard"
    BY <1>10, PageAssumption DEF PageAssumption
  <2> DEFINE g == Claim(s, headed, 0)
             entry == [k \in Slots |-> IF k < kept THEN f.entry[match + k] ELSE f.entry[k]]
             used == {k \in 0 .. kept - 1 : match + k \in f.used}
  <2>2. kept \in 1 .. MaxRpt /\ kept <= f.count
    BY <1>2, <1>5
  <2>3. entry \in [Slots -> Address] /\ used \in SUBSET Slots
    <3>1. \A k \in Slots : k < kept => match + k \in Slots
      BY <1>2, <1>5 DEF Slots
    <3>2. entry \in [Slots -> Address]
      <4> HIDE DEF kept
      <4> QED
        BY <1>2, <3>1 DEF Frame
    <3>3. \A k \in 0 .. kept - 1 : k \in Slots
      BY <1>2, <2>2 DEF Slots
    <3> QED
      BY <3>2, <3>3
  <2>4. headed = [f EXCEPT !.count = kept, !.entry = entry, !.used = used]
    OBVIOUS
  <2> HIDE DEF headed, kept, entry, used
  <2>5. /\ headed \in Frame /\ headed.count = kept /\ headed.dst = f.dst
        /\ headed.used = used /\ headed.entry = entry
    <3>1. kept \in 0 .. MaxRpt
      BY <1>2, <2>2
    <3> QED
      BY <1>2, <2>3, <2>4, <3>1 DEF Frame
  <2>6. 0 \in Slots
    BY Bounds DEF Slots
  <2>7. /\ g \in Frame /\ g.count = kept /\ g.dst = f.dst
        /\ g.used = used \cup {0} /\ g.entry[0] = Own(s)
        /\ \A k \in Slots \ {0} : g.entry[k] = entry[k]
    BY <2>5, <2>6, ClaimIs
  <2> HIDE DEF g
  <2>8. used \subseteq 0 .. kept - 1 /\ 0 \in 0 .. kept - 1 /\ \A k \in used : match + k \in f.used
    BY <2>2 DEF used
  <2>9. \A k \in 0 .. kept - 1 : /\ k \in Slots /\ match + k \in 0 .. f.count - 1
                                 /\ entry[k] = f.entry[match + k]
    <3>1. \A k \in 0 .. kept - 1 : k \in Slots /\ k < kept
      BY <1>2, <2>2 DEF Slots
    <3>2. \A k \in 0 .. kept - 1 : match + k \in 0 .. f.count - 1
      BY <1>2, <1>5, <2>2 DEF kept
    <3> QED
      BY <3>1, <3>2 DEF entry
  <2>10. \A k \in g.used : g.entry[k].call # ""
    <3>1. \A k \in used \ {0} : g.entry[k] = f.entry[match + k] /\ match + k \in 0 .. f.count - 1
      BY <2>7, <2>8, <2>9
    <3>2. g.entry[0].call # ""
      BY <1>8, <2>7
    <3>3. ASSUME NEW k \in used \ {0} PROVE g.entry[k].call # ""
      <4>1. f.entry[match + k].call # ""
        BY <1>7, <3>1
      <4> QED
        BY <3>1, <4>1
    <3> QED
      BY <2>7, <3>2, <3>3
  <2>11. ASSUME NEW k \in g.used, NEW u \in Unused(g) PROVE Passed(g, u) \/ k < u
    <3>1. u \in 0 .. kept - 1 /\ u # 0 /\ u \notin used
      BY <2>7 DEF Unused, In
    <3>2. match + u \in Unused(f) /\ g.entry[u] = f.entry[match + u]
      <4>1. match + u \notin f.used
        BY <3>1 DEF used
      <4> QED
        BY <2>7, <2>9, <3>1, <4>1 DEF Unused, In
    <3>3. CASE k = 0
      BY <2>2, <3>1, <3>3
    <3>4. CASE k \in used
      <4>1. Passed(f, match + u) \/ match + k < match + u
        BY <2>8, <3>2, <3>4 DEF Path
      <4>2. Passed(g, u) <=> Passed(f, match + u)
        BY <3>2 DEF Passed
      <4>3. match + k < match + u => k < u
        BY <1>5, <2>2, <2>8, <3>1, <3>4
      <4> QED
        BY <4>1, <4>2, <4>3
    <3> QED
      BY <2>7, <3>3, <3>4
  <2>12. g.used \subseteq In(g)
    BY <2>7, <2>8 DEF In
  <2>13. Path(g)
    BY <2>7, <2>10, <2>11, <2>12 DEF Path
  <2>14. Later(f, g)
    <3>1. \A k \in f.used : k < match
      <4>1. ~Passed(f, match)
        BY <1>3, MatchCounts
      <4> QED
        BY <1>3, <4>1 DEF Path
    <3>2. g.used = {0}
      <4>1. used = {}
        <5> SUFFICES ASSUME NEW k \in 0 .. kept - 1, match + k \in f.used PROVE FALSE
          BY DEF used
        <5>1. match + k < match
          BY <3>1
        <5> QED
          BY <1>5, <2>2, <5>1
      <4> QED
        BY <2>7, <4>1
    <3>3. InOrder(g)
      BY <2>2, <2>7, <3>2 DEF InOrder, Unused, In
    <3> QED
      BY <1>3, <2>1, <2>7, <2>13, <3>3 DEF Later
  <2> QED
    BY <1>1, <1>10, <2>14 DEF Result, g
<1> QED
  BY <1>9, <1>10

\* The route by destination: the hop is taken off the destination, and where all
\* used addresses stood in front they still do.
LEMMA DestGives ==
  ASSUME NEW f, Path(f), NEW s \in Stations, ByDestSsid(s, f).code = 2
  PROVE  LET g == ByDestSsid(s, f).frame IN
         /\ Path(g) /\ f.dst \in 1 .. 7 /\ Room(f)
         /\ InOrder(f) => InOrder(g) /\ Keeps(f, g) /\ ~Signs(s, f)
<1> DEFINE open == {k \in In(f) : k \notin f.used \/ f.entry[k] = Own(s)}
           idx == Min(open)
           spent == [f EXCEPT !.dst = @ - 1]
           one == [spent EXCEPT !.count = 1]
<1>1. /\ f \in Frame /\ f.count \in 0 .. MaxRpt /\ f.used \subseteq 0 .. f.count - 1
      /\ MaxRpt \in Nat /\ MaxRpt > 1 /\ MaxDest \in Nat
  BY UnusedAre, Bounds DEF Path
<1>2. /\ f.dst \in 1 .. 7
      /\ \/ f.count = 0 /\ ByDestSsid(s, f).frame = Claim(s, one, 0)
         \/ /\ f.count # 0 /\ open # {} /\ idx \notin f.used /\ Room(f)
            /\ ByDestSsid(s, f).frame = InsertOwn(s, spent, idx)
  <2>1. ByDestSsid(s, f) =
          IF f.dst \notin 1 .. 7 THEN Result(0, f)
          ELSE IF f.count = 0 THEN Result(2, Claim(s, one, 0))
          ELSE IF open = {} \/ idx \in f.used THEN Result(0, f)
          ELSE IF f.entry[idx] = Own(s) THEN Result(1, [spent EXCEPT !.used = @ \cup {idx}])
          ELSE IF Room(f) THEN Result(2, InsertOwn(s, spent, idx))
          ELSE Result(0, f)
    BY DEF ByDestSsid
  <2> HIDE DEF open, idx, spent, one
  <2> QED
    BY <2>1 DEF Result
<1>3. spent \in Frame /\ spent.count = f.count /\ spent.used = f.used /\ spent.entry = f.entry
  <2>1. f.dst - 1 \in 0 .. MaxDest
    BY <1>1, <1>2 DEF Frame
  <2> QED
    BY <1>1, <2>1 DEF Frame
<1>4. CASE f.count = 0
  <2> DEFINE g == Claim(s, one, 0)
  <2>1. f.used = {}
    BY <1>1, <1>4
  <2>2. one \in Frame /\ one.count = 1 /\ one.used = {}
    <3>1. 1 \in 0 .. MaxRpt
      BY <1>1
    <3> HIDE DEF spent
    <3> QED
      BY <1>3, <2>1, <3>1 DEF Frame
  <2> HIDE DEF one
  <2>3. 0 \in Slots
    BY <1>1 DEF Slots
  <2>4. g \in Frame /\ g.count = 1 /\ g.used = {0} /\ g.entry[0] = Own(s)
    BY <2>2, <2>3, ClaimIs
  <2> HIDE DEF g
  <2>5. In(g) = {0} /\ Unused(g) = {}
    BY <2>4 DEF In, Unused
  <2>6. Path(g) /\ InOrder(g)
    BY <2>4, <2>5, OwnIs DEF Path, InOrder
  <2>7. Keeps(f, g) /\ ~Signs(s, f) /\ Room(f)
    BY <1>1, <1>4, <2>1 DEF Keeps, Signs, Room
  <2> QED
    BY <1>2, <1>4, <2>6, <2>7 DEF g
<1>5. CASE f.count # 0
  <2> DEFINE g == InsertOwn(s, spent, idx)
  <2>1. open # {} /\ idx \notin f.used /\ Room(f)
    BY <1>2, <1>5
  <2>2. open \subseteq Nat
    BY <1>1 DEF In
  <2>3. idx \in open /\ \A k \in open : idx <= k
    BY <2>1, <2>2, MinIs
  <2>4. In(spent) = In(f) /\ Unused(spent) = Unused(f) /\ f.count < MaxRpt
    BY <1>3, <2>1 DEF In, Unused, Room
  <2>5. idx \in Unused(f) /\ \A u \in Unused(f) : idx <= u
    BY <2>1, <2>3 DEF Unused
  <2>6. Path(spent)
    <3> HIDE DEF spent
    <3> QED
      BY <1>3, <2>4 DEF Path, Passed
  <2> HIDE DEF idx, open, spent
  <2>7. /\ Path(g) /\ g.count = f.count + 1
        /\ (\A k \in f.used : k < idx) =>
             /\ g.used = f.used \cup {idx}
             /\ \A k \in f.used : g.entry[k] = f.entry[k]
    <3>1. Unused(f) \subseteq Nat
      BY UnusedAre
    <3>2. \A u \in Unused(f) : ~(u < idx)
      BY <2>5, <3>1
    <3>3. /\ idx \in Unused(spent) /\ spent.count < MaxRpt
          /\ \A u \in Unused(spent) : u < idx => Passed(spent, u)
      BY <1>3, <2>4, <2>5, <3>2
    <3> QED
      BY <1>3, <2>6, <3>3, InsertIs
  <2> HIDE DEF g
  <2>8. ASSUME InOrder(f) PROVE InOrder(g) /\ Keeps(f, g) /\ ~Signs(s, f)
    <3>1. \A k \in f.used : k < idx
      BY <2>5, <2>8 DEF InOrder
    <3>2. g.used = f.used \cup {idx} /\ \A k \in f.used : g.entry[k] = f.entry[k]
      BY <2>7, <3>1
    <3>3. Keeps(f, g)
      BY <3>2 DEF Keeps
    <3>4. ~Signs(s, f)
      <4> SUFFICES ASSUME NEW k \in f.used, f.entry[k] = Own(s) PROVE FALSE
        BY DEF Signs
      <4>1. k \in open
        BY <1>1 DEF open, In
      <4>2. k \in Nat /\ idx \in Nat
        BY <1>1, <2>2, <2>3
      <4> QED
        BY <2>3, <3>1, <4>1, <4>2
    <3>5. ASSUME NEW k \in g.used, NEW u \in Unused(g) PROVE k < u
      <4>1. u \in 0 .. f.count /\ u # idx /\ u \notin f.used
        BY <1>1, <2>7, <3>2 DEF Unused, In
      <4>2. idx \in 0 .. f.count - 1
        BY <2>5, UnusedAre
      <4>3. ~(u < idx)
        <5> SUFFICES ASSUME u < idx PROVE FALSE
          OBVIOUS
        <5>1. u \in Unused(f)
          BY <1>1, <4>1, <4>2 DEF Unused, In
        <5> QED
          BY <2>5, <4>1, <4>2, <5>1
      <4>4. idx < u
        BY <4>1, <4>2, <4>3
      <4>5. k \in Nat /\ k <= idx
        BY <1>1, <3>1, <3>2, <4>2
      <4> QED
        BY <4>1, <4>2, <4>4, <4>5
    <3> QED
      BY <3>3, <3>4, <3>5 DEF InOrder
  <2> QED
    BY <1>2, <1>5, <2>1, <2>7, <2>8 DEF g
<1> QED
  BY <1>4, <1>5

\* While the route by destination has room it takes the frame, or the frame has
\* been at the station before.
LEMMA DestFirst ==
  ASSUME NEW f, Path(f), NEW s \in Stations, Pending(f), Room(f), Unused(f) # {}
  PROVE  ByDestSsid(s, f).code # 0 \/ BeenHere(s, f)
<1> DEFINE open == {k \in In(f) : k \notin f.used \/ f.entry[k] = Own(s)}
           idx == Min(open)
           spent == [f EXCEPT !.dst = @ - 1]
<1>1. ByDestSsid(s, f) =
        IF f.count = 0 THEN Result(2, Claim(s, [spent EXCEPT !.count = 1], 0))
        ELSE IF open = {} \/ idx \in f.used THEN Result(0, f)
        ELSE IF f.entry[idx] = Own(s) THEN Result(1, [spent EXCEPT !.used = @ \cup {idx}])
        ELSE Result(2, InsertOwn(s, spent, idx))
  BY DEF ByDestSsid, Pending
<1>2. open # {} /\ open \subseteq Nat
  BY UnusedAre DEF Unused, In
<1>3. idx \in open
  BY <1>2, MinIs
<1>4. idx \in f.used => BeenHere(s, f)
  BY <1>3 DEF BeenHere
<1> HIDE DEF open, idx, spent
<1> QED
  BY <1>1, <1>2, <1>4 DEF Result

\* What a receiver decodes: a nameless last address is gone, the rest is there.
LEMMA AirIs ==
  ASSUME NEW f, Path(f)
  PROVE  LET g == OnAir(f) IN
         /\ Path(g) /\ g.dst = f.dst /\ Keeps(f, g)
         /\ InOrder(f) => InOrder(g)
         /\ (~Room(f) /\ \A k \in In(f) : f.entry[k].call # "") => ~Room(g)
<1> DEFINE sent == IF f.count > 0 /\ f.entry[f.count - 1] = Empty THEN f.count - 1 ELSE f.count
           entry == [k \in Slots |-> IF k < sent THEN f.entry[k] ELSE Empty]
           g == OnAir(f)
<1>1. /\ f \in Frame /\ f.count \in 0 .. MaxRpt /\ f.used \subseteq 0 .. f.count - 1
      /\ MaxRpt \in Nat
  BY UnusedAre, Bounds DEF Path
<1>a. Empty.call = ""
  BY EmptyIs
<1>2. sent \in 0 .. MaxRpt /\ sent <= f.count /\ f.used \subseteq 0 .. sent - 1
  <2>1. CASE f.count > 0 /\ f.entry[f.count - 1] = Empty
    <3>1. f.entry[f.count - 1].call = ""
      BY <1>a, <2>1
    <3>2. f.count - 1 \notin f.used
      BY <3>1 DEF Path
    <3>3. sent = f.count - 1 /\ f.count > 0
      BY <2>1
    <3> HIDE DEF sent
    <3> QED
      BY <1>1, <3>2, <3>3
  <2>2. CASE ~(f.count > 0 /\ f.entry[f.count - 1] = Empty)
    <3>1. sent = f.count
      BY <2>2
    <3> HIDE DEF sent
    <3> QED
      BY <1>1, <3>1
  <2> QED
    BY <2>1, <2>2
<1>3. (\A k \in In(f) : f.entry[k].call # "") => sent = f.count
  <2>1. f.count > 0 => f.count - 1 \in In(f)
    BY <1>1 DEF In
  <2>2. (f.count > 0 /\ f.entry[f.count - 1] = Empty) =>
          \E k \in In(f) : f.entry[k].call = ""
    BY <1>a, <2>1
  <2> QED
    BY <2>2
<1>4. Empty \in Address
  BY EmptyIs
<1>5. entry \in [Slots -> Address]
  <2> HIDE DEF sent
  <2> QED
    BY <1>1, <1>4 DEF Frame
<1>6. g = [f EXCEPT !.count = sent, !.entry = entry]
  BY DEF OnAir
<1>7. \A k \in 0 .. sent - 1 : entry[k] = f.entry[k]
  <2> HIDE DEF sent
  <2> QED
    BY <1>1, <1>2 DEF Slots
<1> HIDE DEF sent, entry, g
<1>8. /\ g \in Frame /\ g.count = sent /\ g.entry = entry
      /\ g.used = f.used /\ g.dst = f.dst
  BY <1>1, <1>2, <1>5, <1>6 DEF Frame
<1>9. \A u \in Unused(g) : u \in Unused(f) /\ u \in 0 .. sent - 1
  BY <1>1, <1>2, <1>8 DEF Unused, In
<1>10. \A k \in f.used : g.entry[k] = f.entry[k]
  BY <1>2, <1>7, <1>8
<1>11. \A u \in Unused(g) : Passed(g, u) <=> Passed(f, u)
  BY <1>7, <1>8, <1>9 DEF Passed
<1>12. Path(g)
  <2>1. g.used \subseteq In(g)
    BY <1>2, <1>8 DEF In
  <2> QED
    BY <1>8, <1>9, <1>10, <1>11, <2>1 DEF Path
<1>13. InOrder(f) => InOrder(g)
  BY <1>8, <1>9 DEF InOrder
<1>14. Keeps(f, g)
  BY <1>8, <1>10 DEF Keeps
<1>15. (~Room(f) /\ \A k \in In(f) : f.entry[k].call # "") => ~Room(g)
  BY <1>3, <1>8 DEF Room
<1> QED
  BY <1>8, <1>12, <1>13, <1>14, <1>15 DEF g

\* A frame in hand whose destination asks for a hop there is room for has all its
\* used addresses in front.
Orderly(f) == Pending(f) /\ Room(f) => InOrder(f)

\* A hop leaves a path in hand; unless signatures are discarded it keeps them, and
\* none was the station's own.
LEMMA DigiGives ==
  ASSUME NEW f, Path(f), NEW s \in Stations, Decodable(f), page \in Pages,
         Digi(s, f).code = 2
  PROVE  LET g == Digi(s, f).frame IN
         /\ Path(g)
         /\ Orderly(f) =>
              /\ ~Signs(s, f) /\ Orderly(OnAir(g))
              /\ page.preempt # "discard" => Keeps(f, g)
<1> DEFINE dest == IF page.dest THEN ByDestSsid(s, f) ELSE Result(0, f)
           ahead == IF page.preempt # "off" THEN ByPreemption(s, f) ELSE Result(0, f)
           g == Digi(s, f).frame
<1>1. Digi(s, f) =
        IF dest.code # 0 THEN dest
        ELSE IF (\E k \in In(f) : f.entry[k].call \in NetTokens) \/ BeenHere(s, f)
          THEN Result(0, f)
        ELSE IF ahead.code # 0 THEN ahead
        ELSE ByTable(s, f)
  BY DEF Digi
<1>2. CASE dest.code # 0
  <2>1. Digi(s, f) = dest
    BY <1>1, <1>2
  <2>2. page.dest
    BY <1>2 DEF Result
  <2>3. dest = ByDestSsid(s, f)
    BY <2>2
  <2>4. ByDestSsid(s, f).code = 2 /\ g = ByDestSsid(s, f).frame
    BY <2>1, <2>3
  <2> HIDE DEF g
  <2>5. /\ Path(g) /\ f.dst \in 1 .. 7 /\ Room(f)
        /\ InOrder(f) => InOrder(g) /\ Keeps(f, g) /\ ~Signs(s, f)
    BY <2>4, DestGives
  <2>6. Orderly(f) => InOrder(f)
    BY <2>2, <2>5 DEF Orderly, Pending
  <2>7. InOrder(g) => Orderly(OnAir(g))
    BY <2>5, AirIs DEF Orderly
  <2> QED
    BY <2>5, <2>6, <2>7 DEF g
<1>3. CASE dest.code = 0
  <2>1. /\ ~BeenHere(s, f)
        /\ Digi(s, f) = IF ahead.code # 0 THEN ahead ELSE ByTable(s, f)
    <3> HIDE DEF dest, ahead
    <3> QED
      BY <1>1, <1>3 DEF Result
  <2>2. Later(f, g)
    <3>1. CASE ahead.code # 0
      <4>1. Digi(s, f) = ahead
        BY <2>1, <3>1
      <4>2. page.preempt # "off"
        BY <3>1 DEF Result
      <4>3. ahead = ByPreemption(s, f)
        BY <4>2
      <4>4. ByPreemption(s, f).code = 2 /\ g = ByPreemption(s, f).frame
        BY <4>1, <4>3
      <4> HIDE DEF g
      <4> QED
        BY <4>2, <4>4, ByPreemptionGives
    <3>2. CASE ahead.code = 0
      <4>1. Digi(s, f) = ByTable(s, f)
        <5> HIDE DEF ahead
        <5> QED
          BY <2>1, <3>2
      <4>2. ByTable(s, f).code = 2 /\ g = ByTable(s, f).frame
        BY <4>1
      <4> HIDE DEF g
      <4> QED
        BY <4>2, ByTableGives
    <3> QED
      BY <3>1, <3>2
  <2> HIDE DEF g
  <2>3. ~Signs(s, f)
    BY <2>1 DEF Signs, BeenHere, Path
  <2>4. Pending(f) => ~Room(f)
    <3> SUFFICES ASSUME Pending(f), Room(f) PROVE FALSE
      OBVIOUS
    <3>1. ByDestSsid(s, f).code # 0
      BY <2>1, <2>2, DestFirst DEF Later
    <3>2. dest = ByDestSsid(s, f)
      BY DEF Pending
    <3> QED
      BY <1>3, <3>1, <3>2
  <2>5. Orderly(OnAir(g)) /\ (page.preempt # "discard" => Keeps(f, g))
    <3>1. /\ Path(g) /\ g.dst = f.dst /\ (page.preempt # "discard" => Keeps(f, g))
          /\ \/ InOrder(g)
             \/ ~Room(f) => g.count = f.count /\ \A k \in In(g) : g.entry[k].call # ""
      BY <2>2 DEF Later
    <3>2. ASSUME Pending(f), ~InOrder(g) PROVE ~Room(OnAir(g))
      <4>1. /\ ~Room(f) /\ g.count = f.count
            /\ \A k \in In(g) : g.entry[k].call # ""
        BY <2>4, <3>1, <3>2
      <4>2. ~Room(g)
        BY <4>1 DEF Room
      <4> QED
        BY <3>1, <4>1, <4>2, AirIs
    <3>3. OnAir(g).dst = f.dst /\ (InOrder(g) => InOrder(OnAir(g)))
      BY <3>1, AirIs
    <3> QED
      BY <3>1, <3>2, <3>3 DEF Orderly, Pending
  <2>6. Path(g)
    BY <2>2 DEF Later
  <2> QED
    BY <2>3, <2>5, <2>6 DEF g
<1> QED
  BY <1>2, <1>3

\* What every hop keeps: the path in hand, the hop a destination still asks for
\* unhindered, and the signatures of all who signed.
DigiInv ==
  /\ page \in Pages /\ Path(frame) /\ Orderly(frame)
  /\ trail \in Seq([by : Stations, signed : BOOLEAN])
  /\ page.preempt # "discard" =>
       \A i \in DOMAIN trail : trail[i].signed => Signs(trail[i].by, frame)
  /\ NoSecondVisit

LEMMA InitDigi == Init => DigiInv
<1> SUFFICES ASSUME Init PROVE DigiInv
  OBVIOUS
<1>1. page \in Pages /\ trail = <<>>
  BY DEF Init
<1>a. PICK n \in 0 .. MaxFresh, dst \in 0 .. MaxDest :
        \E path \in [1 .. n -> Sendable] : frame = Fresh(path, dst)
  BY DEF Init
<1>2. PICK path \in [1 .. n -> Sendable] : frame = Fresh(path, dst)
  BY <1>a
<1>3. n \in 0 .. MaxRpt /\ MaxRpt \in Nat
  BY RptAssumption DEF RptAssumption
<1>4. Len(path) = n
  BY <1>3
<1>5. Sendable \subseteq Address
  <2> SUFFICES ASSUME NEW a \in Sendable PROVE a \in Address
    OBVIOUS
  <2>1. a \in [call : STRING, ssid : 0 .. 15]
    BY CallAssumption DEF CallAssumption
  <2>2. a.call \in Names
    BY DEF Names
  <2> QED
    BY <2>1, <2>2 DEF Address
<1>6. Empty \in Address
  BY EmptyIs
<1> DEFINE entry == [k \in Slots |-> IF k < Len(path) THEN path[k + 1] ELSE Empty]
<1>7. entry \in [Slots -> Address]
  <2>1. \A k \in Slots : k < n => path[k + 1] \in Address
    BY <1>3, <1>5 DEF Slots
  <2> QED
    BY <1>4, <1>6, <2>1
<1>8. frame = [entry |-> entry, count |-> n, used |-> {}, dst |-> dst]
  BY <1>2, <1>4 DEF Fresh
<1> HIDE DEF entry
<1>9. frame \in Frame /\ frame.used = {}
  BY <1>3, <1>7, <1>8 DEF Frame
<1>10. Path(frame) /\ Orderly(frame)
  BY <1>9 DEF Path, Orderly, InOrder
<1>11. trail \in Seq([by : Stations, signed : BOOLEAN]) /\ DOMAIN trail = {}
  BY <1>1
<1> QED
  BY <1>1, <1>10, <1>11 DEF DigiInv, NoSecondVisit

LEMMA StepDigi == DigiInv /\ [Next]_vars => DigiInv'
<1> SUFFICES ASSUME DigiInv, [Next]_vars PROVE DigiInv'
  OBVIOUS
<1>1. CASE UNCHANGED vars
  BY <1>1 DEF vars, DigiInv, Path, Passed, Rows, Unused, In, Orderly, Pending, Room, InOrder,
              Signs, NoSecondVisit
<1>2. CASE Next
  <2>1. PICK s \in Stations : Relay(s)
    BY <1>2 DEF Next
  <2> DEFINE g == Digi(s, frame).frame
             signed == \E k \in g.used : g.entry[k] = Own(s)
             entry == [by |-> s, signed |-> signed]
  <2>2. /\ Decodable(frame) /\ Digi(s, frame).code = 2
        /\ frame' = OnAir(g) /\ trail' = Append(trail, entry) /\ page' = page
    BY <2>1 DEF Relay
  <2>3. page \in Pages /\ Path(frame) /\ Orderly(frame) /\ trail \in Seq([by : Stations, signed : BOOLEAN])
    BY DEF DigiInv
  <2>4. signed \in BOOLEAN /\ (signed <=> Signs(s, g))
    BY DEF Signs
  <2> HIDE DEF g, signed
  <2>5. /\ Path(g)
        /\ ~Signs(s, frame) /\ Orderly(OnAir(g))
        /\ page.preempt # "discard" => Keeps(frame, g)
    BY <2>2, <2>3, DigiGives DEF g
  <2>6. Path(OnAir(g)) /\ Keeps(g, OnAir(g))
    BY <2>5, AirIs
  <2>7. Path(frame')
    BY <2>2, <2>6
  <2>8. Path(frame)'
    BY <2>2, <2>7 DEF Path, Passed, Rows, Unused, In
  <2>9. /\ trail' \in Seq([by : Stations, signed : BOOLEAN])
        /\ DOMAIN trail' = DOMAIN trail \cup {Len(trail) + 1} /\ Len(trail) \in Nat
        /\ DOMAIN trail = 1 .. Len(trail)
        /\ \A i \in DOMAIN trail : trail'[i] = trail[i]
        /\ trail'[Len(trail) + 1].by = s /\ trail'[Len(trail) + 1].signed = signed
    <3>1. entry \in [by : Stations, signed : BOOLEAN]
      BY <2>4
    <3>2. entry.by = s /\ entry.signed = signed
      OBVIOUS
    <3> HIDE DEF entry
    <3> QED
      BY <2>2, <2>3, <3>1, <3>2
  <2>10. ASSUME page.preempt # "discard"
         PROVE  /\ \A i \in DOMAIN trail' : trail'[i].signed => Signs(trail'[i].by, frame')
                /\ \A i, j \in DOMAIN trail' :
                     i < j /\ trail'[i].signed => trail'[j].by # trail'[i].by
    <3>1. /\ \A i \in DOMAIN trail : trail[i].signed => Signs(trail[i].by, frame)
          /\ \A i, j \in DOMAIN trail : i < j /\ trail[i].signed => trail[j].by # trail[i].by
      BY <2>10 DEF DigiInv, NoSecondVisit
    <3>2. Keeps(frame, g) /\ ~Signs(s, frame)
      BY <2>5, <2>10
    <3>3. \A t \in Stations : Signs(t, frame) => Signs(t, frame')
      BY <2>2, <2>6, <3>2 DEF Signs, Keeps
    <3>4. signed => Signs(s, frame')
      BY <2>2, <2>4, <2>6 DEF Signs, Keeps
    <3>5. \A i \in DOMAIN trail : trail[i].by \in Stations
      <4> DEFINE Records == [by : Stations, signed : BOOLEAN]
      <4>1. \A i \in DOMAIN trail : trail[i] \in Records
        <5>1. trail \in Seq(Records)
          BY <2>3
        <5> HIDE DEF Records
        <5> QED
          BY <5>1
      <4> QED
        BY <4>1
    <3>6. \A i \in DOMAIN trail' : trail'[i].signed => Signs(trail'[i].by, frame')
      BY <2>9, <3>1, <3>3, <3>4, <3>5
    <3>7. ASSUME NEW i \in DOMAIN trail', NEW j \in DOMAIN trail', i < j, trail'[i].signed
          PROVE  trail'[j].by # trail'[i].by
      <4>1. i \in DOMAIN trail
        BY <2>9, <3>7
      <4>2. trail[i].signed /\ trail'[i] = trail[i] /\ Signs(trail[i].by, frame)
        BY <2>9, <3>1, <3>7, <4>1
      <4>3. CASE j \in DOMAIN trail
        BY <2>9, <3>1, <3>7, <4>1, <4>2, <4>3
      <4>4. CASE j = Len(trail) + 1
        BY <2>9, <3>2, <4>2, <4>4
      <4> QED
        BY <2>9, <4>3, <4>4
    <3> QED
      BY <2>2, <3>2, <3>6, <3>7
  <2>11. page' \in Pages
    BY <2>2, <2>3
  <2> HIDE DEF entry
  <2>12. page'.preempt # "discard" =>
           /\ \A i \in DOMAIN trail' : trail'[i].signed => Signs(trail'[i].by, frame')
           /\ \A i, j \in DOMAIN trail' :
                i < j /\ trail'[i].signed => trail'[j].by # trail'[i].by
    BY <2>2, <2>10
  <2>13. Orderly(frame)'
    BY <2>2, <2>5 DEF Orderly, Pending, Room, InOrder, Unused, In
  <2> QED
    BY <2>8, <2>9, <2>11, <2>12, <2>13 DEF DigiInv, NoSecondVisit
<1> QED
  BY <1>1, <1>2

\* At every hop the path is one a digipeater further on can parse and serve: it
\* fits the frame, its live part is behind its served part, and no station has
\* served it twice (digirepeater.c:230-457).
THEOREM PathKept == Spec => []PathSound
<1>1. DigiInv => PathSound
  <2> SUFFICES ASSUME DigiInv PROVE PathSound
    OBVIOUS
  <2>1. Path(frame) /\ frame \in Frame
    BY DEF DigiInv, Path
  <2>2. TypeOK
    <3>1. /\ frame.count \in 0 .. MaxRpt /\ frame.used \subseteq In(frame)
          /\ DOMAIN frame.entry = Slots /\ frame.dst \in 0 .. MaxDest
      BY <2>1 DEF Path, Frame
    <3>2. \A k \in Slots : frame.entry[k] \in Address
      BY <2>1 DEF Frame
    <3>3. \A k \in Slots : frame.entry[k].ssid \in 0 .. 15
      BY <3>2 DEF Address
    <3> QED
      BY <3>1, <3>3 DEF TypeOK, DigiInv
  <2>3. ServedFirst
    <3> SUFFICES ASSUME NEW k \in frame.used, NEW u \in Unused(frame) \ Tokens(frame)
                 PROVE  k < u
      BY DEF ServedFirst
    <3>1. ~Passed(frame, u)
      BY DEF Passed, Tokens, Unused
    <3> QED
      BY <2>1, <3>1 DEF Path
  <2> QED
    BY <2>2, <2>3 DEF PathSound, DigiInv
<1> QED
  BY <1>1, InitDigi, StepDigi, PTL DEF Spec

-----------------------------------------------------------------------------
(* The route of some slots, one slot after the other *)

LEMMA LeastOne ==
  ASSUME NEW S \in SUBSET Nat, S # {}
  PROVE  \E m \in S : \A j \in S : m <= j
<1> QED
  BY MinIs

Addresses == [Slots -> Address]

\* Sequences, joined and extended.
Joined(s, t) == s \o t
Put(s, x) == Append(s, x)
One(x) == <<x>>

LEMMA JoinedType == \A s, t \in Seq(Address) : Joined(s, t) \in Seq(Address)
BY DEF Joined

LEMMA PutType == \A s \in Seq(Address), x \in Address : Put(s, x) \in Seq(Address)
BY DEF Put

LEMMA PutIs ==
  ASSUME NEW s \in Seq(Address), NEW t \in Seq(Address), NEW x \in Address
  PROVE  /\ Put(Joined(s, t), x) = Joined(s, Put(t, x))
         /\ Put(s, x) = Joined(s, One(x)) /\ Put(<<>>, x) = One(x)
         /\ Joined(s, <<>>) = s /\ Joined(<<>>, s) = s /\ One(x) \in Seq(Address)
<1>1. Append(s \o t, x) = s \o Append(t, x)
  <2>1. Append(t, x) = t \o <<x>> /\ Append(s \o t, x) = (s \o t) \o <<x>>
    BY AppendIsConcat
  <2>2. (s \o t) \o <<x>> = s \o (t \o <<x>>)
    BY ConcatAssociative
  <2> QED
    BY <2>1, <2>2
<1>2. Append(s, x) = s \o <<x>> /\ Append(<<>>, x) = <<x>>
  BY AppendIsConcat
<1>3. s \o <<>> = s /\ <<>> \o s = s /\ <<x>> \in Seq(Address)
  OBVIOUS
<1> QED
  BY <1>1, <1>2, <1>3 DEF Put, Joined, One

\* The routes of the first n slots.
Routed(u, e, S) ==
  u = [n \in 0 .. MaxRpt |-> IF n = 0 THEN <<>>
                             ELSE IF n - 1 \in S THEN Append(u[n - 1], e[n - 1]) ELSE u[n - 1]]

LEMMA RouteThere ==
  ASSUME NEW e, NEW S
  PROVE  \E u : Routed(u, e, S) /\ Route(e, S) = u[MaxRpt]
<1> DEFINE To(u, m) == u = [n \in 0 .. m |-> IF n = 0 THEN <<>>
                                             ELSE IF n - 1 \in S THEN Append(u[n - 1], e[n - 1])
                                             ELSE u[n - 1]]
           bad == {m \in Nat : ~(\E u : To(u, m))}
           upTo == CHOOSE u : To(u, MaxRpt)
<1>1. bad = {}
  <2> SUFFICES ASSUME bad # {} PROVE FALSE
    OBVIOUS
  <2>1. PICK m \in bad : \A j \in bad : m <= j
    BY LeastOne
  <2>2. m # 0
    <3> DEFINE u == [n \in 0 .. 0 |-> <<>>]
    <3>1. To(u, 0)
      OBVIOUS
    <3> QED
      BY <2>1, <3>1
  <2>3. m - 1 \in Nat /\ m - 1 \notin bad
    <3> HIDE DEF To
    <3> QED
      BY <2>1, <2>2
  <2>4. PICK u : To(u, m - 1)
    <3> HIDE DEF To
    <3> QED
      BY <2>3
  <2> DEFINE last == IF m - 1 \in S THEN Append(u[m - 1], e[m - 1]) ELSE u[m - 1]
             v == [n \in 0 .. m |-> IF n = m THEN last ELSE u[n]]
  <2>5. \A n \in 0 .. m : v[n] = IF n = 0 THEN <<>>
                                 ELSE IF n - 1 \in S THEN Append(v[n - 1], e[n - 1])
                                 ELSE v[n - 1]
    <3>1. ASSUME NEW n \in 0 .. m - 1
          PROVE  v[n] = IF n = 0 THEN <<>>
                        ELSE IF n - 1 \in S THEN Append(v[n - 1], e[n - 1]) ELSE v[n - 1]
      <4>1. u[n] = IF n = 0 THEN <<>>
                   ELSE IF n - 1 \in S THEN Append(u[n - 1], e[n - 1]) ELSE u[n - 1]
        BY <2>4, Zenon
      <4>2. v[n] = u[n] /\ (n # 0 => v[n - 1] = u[n - 1])
        <5> HIDE DEF last
        <5> QED
          BY <2>3
      <4> HIDE DEF v
      <4> QED
        BY <4>1, <4>2
    <3>2. v[m] = last /\ v[m - 1] = u[m - 1]
      <4>1. m \in 0 .. m /\ m - 1 \in 0 .. m /\ m - 1 # m
        BY <2>3
      <4> HIDE DEF last
      <4> QED
        BY <4>1
    <3>3. ASSUME NEW n \in 0 .. m PROVE n = m \/ n \in 0 .. m - 1
      BY <2>3
    <3> HIDE DEF v
    <3> QED
      BY <2>2, <3>1, <3>2, <3>3
  <2>6. v = [n \in 0 .. m |-> v[n]]
    <3> HIDE DEF last
    <3> QED
      OBVIOUS
  <2>7. To(v, m)
    <3> HIDE DEF v
    <3> QED
      BY <2>5, <2>6, Zenon
  <2> HIDE DEF To
  <2> QED
    BY <2>1, <2>7
<1>2. \E u : To(u, MaxRpt)
  <2> HIDE DEF To
  <2> QED
    BY <1>1, Bounds
<1>3. To(upTo, MaxRpt)
  <2> HIDE DEF To
  <2> QED
    BY <1>2
<1>4. Routed(upTo, e, S)
  <2> HIDE DEF upTo
  <2> QED
    BY <1>3, Zenon DEF Routed
<1>5. Route(e, S) = upTo[MaxRpt]
  BY Zenon DEF Route
<1> QED
  BY <1>4, <1>5

LEMMA RoutedStep ==
  ASSUME NEW u, NEW e, NEW S, Routed(u, e, S)
  PROVE  /\ u[0] = <<>>
         /\ \A n \in Slots : u[n + 1] = IF n \in S THEN Put(u[n], e[n]) ELSE u[n]
<1>1. MaxRpt \in Nat
  BY Bounds
<1>2. \A n \in 0 .. MaxRpt : u[n] = IF n = 0 THEN <<>>
                                     ELSE IF n - 1 \in S THEN Append(u[n - 1], e[n - 1])
                                     ELSE u[n - 1]
  BY Zenon DEF Routed
<1>3. u[0] = <<>>
  <2>1. 0 \in 0 .. MaxRpt
    BY <1>1
  <2> QED
    BY <1>2, <2>1, Zenon
<1>4. ASSUME NEW n \in Slots PROVE u[n + 1] = IF n \in S THEN Put(u[n], e[n]) ELSE u[n]
  <2>1. n + 1 \in 0 .. MaxRpt /\ n + 1 # 0 /\ (n + 1) - 1 = n
    BY <1>1 DEF Slots
  <2>2. u[n + 1] = IF (n + 1) - 1 \in S THEN Append(u[(n + 1) - 1], e[(n + 1) - 1]) ELSE u[(n + 1) - 1]
    BY <1>2, <2>1, Zenon
  <2>3. u[n + 1] = IF n \in S THEN Append(u[n], e[n]) ELSE u[n]
    BY <2>1, <2>2, Zenon
  <2> QED
    BY <2>3, Zenon DEF Put
<1> QED
  BY <1>3, <1>4

LEMMA RoutedType ==
  ASSUME NEW u, NEW e \in Addresses, NEW S, Routed(u, e, S)
  PROVE  \A n \in 0 .. MaxRpt : u[n] \in Seq(Address)
<1> DEFINE bad == {n \in 0 .. MaxRpt : u[n] \notin Seq(Address)}
<1> SUFFICES ASSUME bad # {} PROVE FALSE
  OBVIOUS
<1>1. MaxRpt \in Nat
  BY Bounds
<1>2. PICK m \in bad : \A j \in bad : m <= j
  <2>1. bad \in SUBSET Nat
    BY <1>1
  <2> QED
    BY <2>1, LeastOne
<1>3. m # 0
  <2>1. u[0] = <<>> /\ <<>> \in Seq(Address)
    BY RoutedStep
  <2> QED
    BY <1>2, <2>1
<1>4. m - 1 \in 0 .. MaxRpt /\ m - 1 \notin bad /\ m - 1 \in Slots /\ (m - 1) + 1 = m
  BY <1>1, <1>2, <1>3 DEF Slots
<1>5. u[m - 1] \in Seq(Address) /\ e[m - 1] \in Address
  BY <1>4 DEF Addresses
<1>6. u[m] = IF m - 1 \in S THEN Put(u[m - 1], e[m - 1]) ELSE u[m - 1]
  <2>1. \A n \in Slots : u[n + 1] = IF n \in S THEN Put(u[n], e[n]) ELSE u[n]
    BY RoutedStep
  <2> QED
    BY <1>4, <2>1
<1>7. u[m] \in Seq(Address)
  BY <1>5, <1>6, PutType
<1> QED
  BY <1>2, <1>7

\* Over slots of which none is listed the route stands still.
LEMMA RoutedGap ==
  ASSUME NEW u, NEW e, NEW S, Routed(u, e, S), NEW a \in 0 .. MaxRpt, NEW b \in 0 .. MaxRpt,
         a <= b, \A k \in S : ~(a <= k /\ k < b)
  PROVE  u[b] = u[a]
<1> DEFINE bad == {n \in a .. b : u[n] # u[a]}
<1> SUFFICES ASSUME bad # {} PROVE FALSE
  BY Bounds
<1>1. MaxRpt \in Nat
  BY Bounds
<1>2. PICK m \in bad : \A j \in bad : m <= j
  <2>1. bad \in SUBSET Nat
    BY <1>1
  <2> QED
    BY <2>1, LeastOne
<1>3. m # a
  BY <1>2
<1>4. m - 1 \in a .. b /\ m - 1 \notin bad /\ m - 1 \in Slots /\ (m - 1) + 1 = m /\ m - 1 \notin S
  BY <1>1, <1>2, <1>3 DEF Slots
<1>5. u[m - 1] = u[a]
  BY <1>4
<1>6. \A n \in Slots : n \notin S => u[n + 1] = u[n]
  BY RoutedStep
<1> QED
  BY <1>2, <1>4, <1>5, <1>6

LEMMA RouteType ==
  ASSUME NEW e \in Addresses, NEW S PROVE Route(e, S) \in Seq(Address)
<1>1. PICK u : Routed(u, e, S) /\ Route(e, S) = u[MaxRpt]
  BY RouteThere
<1> QED
  BY <1>1, RoutedType, Bounds

LEMMA RouteNone == \A e : Route(e, {}) = <<>>
<1> TAKE e
<1>1. PICK u : Routed(u, e, {}) /\ Route(e, {}) = u[MaxRpt]
  BY RouteThere
<1>2. MaxRpt \in Nat /\ 0 \in 0 .. MaxRpt /\ MaxRpt \in 0 .. MaxRpt /\ 0 <= MaxRpt
  BY Bounds
<1>3. u[MaxRpt] = u[0]
  BY <1>1, <1>2, RoutedGap
<1> QED
  BY <1>1, <1>3, RoutedStep

LEMMA RouteOne ==
  ASSUME NEW e \in Addresses, NEW k \in Slots PROVE Route(e, {k}) = One(e[k])
<1>1. PICK u : Routed(u, e, {k}) /\ Route(e, {k}) = u[MaxRpt]
  BY RouteThere
<1>2. /\ MaxRpt \in Nat /\ 0 \in 0 .. MaxRpt /\ MaxRpt \in 0 .. MaxRpt
      /\ k \in 0 .. MaxRpt /\ k + 1 \in 0 .. MaxRpt /\ 0 <= k /\ k + 1 <= MaxRpt
  BY Bounds DEF Slots
<1>3. u[k] = u[0]
  BY <1>1, <1>2, RoutedGap
<1>4. u[MaxRpt] = u[k + 1]
  BY <1>1, <1>2, RoutedGap
<1>5. u[0] = <<>> /\ u[k + 1] = Put(u[k], e[k])
  BY <1>1, RoutedStep
<1>6. e[k] \in Address /\ <<>> \in Seq(Address)
  BY DEF Addresses
<1> QED
  BY <1>1, <1>3, <1>4, <1>5, <1>6, PutIs

\* Slots in front of others are in front of them in the route.
LEMMA RouteJoin ==
  ASSUME NEW e \in Addresses, NEW S \in SUBSET Slots, NEW T \in SUBSET Slots,
         \A k \in S, t \in T : k < t
  PROVE  Route(e, S \cup T) = Joined(Route(e, S), Route(e, T))
<1>1. PICK u : Routed(u, e, S) /\ Route(e, S) = u[MaxRpt]
  BY RouteThere
<1>2. PICK v : Routed(v, e, T) /\ Route(e, T) = v[MaxRpt]
  BY RouteThere
<1>3. PICK w : Routed(w, e, S \cup T) /\ Route(e, S \cup T) = w[MaxRpt]
  BY RouteThere
<1> DEFINE bad == {n \in 0 .. MaxRpt : w[n] # Joined(u[n], v[n])}
<1>4. bad = {}
  <2> SUFFICES ASSUME bad # {} PROVE FALSE
    OBVIOUS
  <2>1. MaxRpt \in Nat
    BY Bounds
  <2>2. PICK m \in bad : \A j \in bad : m <= j
    <3>1. bad \in SUBSET Nat
      BY <2>1
    <3> QED
      BY <3>1, LeastOne
  <2>3. \A n \in 0 .. MaxRpt : u[n] \in Seq(Address) /\ v[n] \in Seq(Address)
    BY <1>1, <1>2, RoutedType
  <2>4. u[0] = <<>> /\ v[0] = <<>> /\ w[0] = <<>>
    BY <1>1, <1>2, <1>3, RoutedStep
  <2>5. <<>> \in Seq(Address)
    OBVIOUS
  <2>6. Empty \in Address
    BY EmptyIs
  <2>7. m # 0
    <3>1. Joined(<<>>, <<>>) = <<>>
      BY <2>5, <2>6, PutIs
    <3> QED
      BY <2>2, <2>4, <3>1
  <2>8. m - 1 \in 0 .. MaxRpt /\ m - 1 \notin bad /\ m - 1 \in Slots /\ (m - 1) + 1 = m
    BY <2>1, <2>2, <2>7 DEF Slots
  <2> DEFINE k == m - 1
  <2>9. w[k] = Joined(u[k], v[k]) /\ e[k] \in Address /\ u[k] \in Seq(Address) /\ v[k] \in Seq(Address)
    BY <2>3, <2>8 DEF Addresses
  <2>10. /\ w[m] = IF k \in S \cup T THEN Put(w[k], e[k]) ELSE w[k]
         /\ u[m] = IF k \in S THEN Put(u[k], e[k]) ELSE u[k]
         /\ v[m] = IF k \in T THEN Put(v[k], e[k]) ELSE v[k]
    <3>1. k + 1 = m /\ k \in Slots
      BY <2>8
    <3> HIDE DEF k
    <3> QED
      BY <1>1, <1>2, <1>3, <3>1, RoutedStep
  <2>11. k \in S => v[k] = <<>> /\ k \notin T
    <3> SUFFICES ASSUME k \in S PROVE v[k] = <<>> /\ k \notin T
      OBVIOUS
    <3>1. \A t \in T : t \in Slots /\ k < t
      OBVIOUS
    <3>2. k \notin T
      <4> SUFFICES ASSUME k \in T PROVE FALSE
        OBVIOUS
      <4>1. k < k /\ k \in Nat
        BY <2>8, <3>1 DEF Slots
      <4> QED
        BY <4>1
    <3>3. 0 \in 0 .. MaxRpt /\ k \in 0 .. MaxRpt /\ 0 <= k /\ \A t \in T : ~(0 <= t /\ t < k)
      BY <2>1, <2>8, <3>1 DEF Slots
    <3>4. v[k] = v[0]
      <4> HIDE DEF k
      <4> QED
        BY <1>2, <3>3, RoutedGap, ZenonT(30)
    <3> QED
      BY <2>4, <3>2, <3>4
  <2> HIDE DEF k
  <2>12. w[m] = Joined(u[m], v[m])
    <3>1. CASE k \in S
      <4>1. v[k] = <<>> /\ v[m] = <<>> /\ u[m] = Put(u[k], e[k]) /\ w[m] = Put(w[k], e[k])
        BY <2>10, <2>11, <3>1
      <4>2. w[k] = u[k]
        BY <2>9, <4>1, PutIs
      <4>3. Put(u[k], e[k]) \in Seq(Address)
        BY <2>9, PutType
      <4>4. Joined(u[m], v[m]) = u[m]
        BY <2>9, <4>1, <4>3, PutIs
      <4> QED
        BY <4>1, <4>2, <4>4
    <3>2. CASE k \notin S /\ k \in T
      BY <2>9, <2>10, <3>2, PutIs
    <3>3. CASE k \notin S /\ k \notin T
      BY <2>9, <2>10, <3>3
    <3> QED
      BY <3>1, <3>2, <3>3
  <2> QED
    BY <2>2, <2>12
<1>5. w[MaxRpt] = Joined(u[MaxRpt], v[MaxRpt])
  <2>1. MaxRpt \in 0 .. MaxRpt
    BY Bounds
  <2> HIDE DEF Joined
  <2> QED
    BY <1>4, <2>1
<1> QED
  BY <1>1, <1>2, <1>3, <1>5

\* Addresses that are moved together stay in their order.
LEMMA RouteMoved ==
  ASSUME NEW e \in Addresses, NEW g \in Addresses, NEW S \in SUBSET Slots, NEW d \in Nat,
         NEW T \in SUBSET Slots, \A k \in S : k + d \in T /\ g[k + d] = e[k], \A t \in T : t - d \in S
  PROVE  Route(g, T) = Route(e, S)
<1>1. PICK u : Routed(u, e, S) /\ Route(e, S) = u[MaxRpt]
  BY RouteThere
<1>2. PICK v : Routed(v, g, T) /\ Route(g, T) = v[MaxRpt]
  BY RouteThere
<1>0. MaxRpt \in Nat /\ 0 \in 0 .. MaxRpt /\ MaxRpt \in 0 .. MaxRpt
  BY Bounds
<1>3. CASE d > MaxRpt
  <2>1. S = {}
    <3> SUFFICES ASSUME NEW k \in S PROVE FALSE
      OBVIOUS
    <3>1. k + d \in T /\ k \in Nat
      BY DEF Slots
    <3>2. k + d \in 0 .. MaxRpt - 1
      BY <3>1 DEF Slots
    <3> QED
      BY <1>0, <1>3, <3>1, <3>2
  <2>2. T = {}
    BY <2>1
  <2> QED
    BY <2>1, <2>2, RouteNone
<1>4. CASE d <= MaxRpt
  <2> DEFINE top == MaxRpt - d
             bad == {n \in 0 .. top : v[n + d] # u[n]}
  <2>1. top \in 0 .. MaxRpt /\ d \in 0 .. MaxRpt /\ top + d = MaxRpt
    BY <1>0, <1>4
  <2>2. \A t \in T : t \in Nat /\ d <= t /\ t < MaxRpt /\ t - d \in S /\ t - d < top
    BY <1>0, <1>4 DEF Slots
  <2>3. \A k \in S : k \in Nat /\ k < top /\ k + d \in T
    <3> SUFFICES ASSUME NEW k \in S PROVE k \in Nat /\ k < top /\ k + d \in T
      OBVIOUS
    <3>1. k + d \in T /\ k \in Nat
      BY DEF Slots
    <3> QED
      BY <1>0, <2>2, <3>1
  <2>4. v[d] = <<>> /\ u[0] = <<>>
    <3>1. 0 <= d /\ \A t \in T : ~(0 <= t /\ t < d)
      BY <2>2
    <3>2. v[d] = v[0]
      BY <1>0, <1>2, <2>1, <3>1, RoutedGap
    <3> QED
      BY <1>1, <1>2, <3>2, RoutedStep
  <2>5. bad = {}
    <3> SUFFICES ASSUME bad # {} PROVE FALSE
      OBVIOUS
    <3>1. PICK m \in bad : \A j \in bad : m <= j
      <4>1. bad \in SUBSET Nat
        BY <2>1
      <4> QED
        BY <4>1, LeastOne
    <3> HIDE DEF top
    <3>2. m # 0
      <4>1. 0 + d = d
        OBVIOUS
      <4> QED
        BY <2>4, <3>1, <4>1
    <3>3. /\ m - 1 \in 0 .. top /\ m - 1 \notin bad /\ m - 1 \in Slots /\ (m - 1) + 1 = m
          /\ (m - 1) + d \in Slots /\ ((m - 1) + d) + 1 = m + d
      BY <1>0, <2>1, <3>1, <3>2 DEF Slots
    <3> DEFINE k == m - 1
    <3>4. v[k + d] = u[k]
      BY <3>3
    <3>5. u[m] = IF k \in S THEN Put(u[k], e[k]) ELSE u[k]
      <4>1. k + 1 = m /\ k \in Slots
        BY <3>3
      <4> HIDE DEF k
      <4> QED
        BY <1>1, <4>1, RoutedStep
    <3>6. v[m + d] = IF k + d \in T THEN Put(v[k + d], g[k + d]) ELSE v[k + d]
      <4>1. (k + d) + 1 = m + d /\ k + d \in Slots
        BY <3>3
      <4>2. \A n \in Slots : v[n + 1] = IF n \in T THEN Put(v[n], g[n]) ELSE v[n]
        BY <1>2, RoutedStep
      <4> HIDE DEF k
      <4> QED
        BY <4>1, <4>2
    <3>7. k + d \in T <=> k \in S
      <4>1. k + d \in T => (k + d) - d \in S
        BY <2>2
      <4>2. (k + d) - d = k
        BY <3>3
      <4> QED
        BY <2>3, <4>1, <4>2
    <3>8. v[m + d] = u[m]
      <4>1. CASE k \in S
        <5>1. g[k + d] = e[k]
          BY <4>1
        <5> HIDE DEF k
        <5> QED
          BY <3>4, <3>5, <3>6, <3>7, <4>1, <5>1
      <4>2. CASE k \notin S
        <5> HIDE DEF k
        <5> QED
          BY <3>4, <3>5, <3>6, <3>7, <4>2
      <4> QED
        BY <4>1, <4>2
    <3> QED
      BY <3>1, <3>8
  <2>6. v[MaxRpt] = u[top]
    <3>1. top \in 0 .. top
      BY <2>1
    <3> HIDE DEF top
    <3> QED
      BY <2>1, <2>5, <3>1
  <2>7. u[MaxRpt] = u[top]
    <3>1. top <= MaxRpt /\ \A k \in S : ~(top <= k /\ k < MaxRpt)
      BY <1>0, <2>1, <2>3
    <3> HIDE DEF top
    <3> QED
      BY <1>0, <1>1, <2>1, <3>1, RoutedGap
  <2> QED
    BY <1>1, <1>2, <2>6, <2>7
<1> QED
  BY <1>0, <1>3, <1>4

LEMMA RouteSame ==
  ASSUME NEW e \in Addresses, NEW g \in Addresses, NEW S \in SUBSET Slots, \A k \in S : g[k] = e[k]
  PROVE  Route(g, S) = Route(e, S)
<1>1. \A k \in S : k + 0 = k /\ k - 0 = k
  BY DEF Slots
<1>2. 0 \in Nat /\ \A k \in S : k + 0 \in S /\ g[k + 0] = e[k] /\ k - 0 \in S
  BY <1>1
<1> QED
  BY <1>2, RouteMoved

-----------------------------------------------------------------------------
(* What some slots ask for, one slot after the other *)

Cost(e, S, n) == IF n \in S THEN e[n].ssid + 1 ELSE 0
Counted(u, e, S) ==
  u = [n \in 0 .. MaxRpt |-> IF n = 0 THEN 0
                             ELSE u[n - 1] + (IF n - 1 \in S THEN e[n - 1].ssid + 1 ELSE 0)]

LEMMA AskedThere ==
  ASSUME NEW e, NEW S
  PROVE  \E u : Counted(u, e, S) /\ AskedBy(e, S) = u[MaxRpt]
<1> DEFINE To(u, m) == u = [n \in 0 .. m |-> IF n = 0 THEN 0
                              ELSE u[n - 1] + (IF n - 1 \in S THEN e[n - 1].ssid + 1 ELSE 0)]
           bad == {m \in Nat : ~(\E u : To(u, m))}
           upTo == CHOOSE u : To(u, MaxRpt)
<1>1. bad = {}
  <2> SUFFICES ASSUME bad # {} PROVE FALSE
    OBVIOUS
  <2>1. PICK m \in bad : \A j \in bad : m <= j
    BY LeastOne
  <2>2. m # 0
    <3> DEFINE u == [n \in 0 .. 0 |-> 0]
    <3>1. To(u, 0)
      OBVIOUS
    <3> QED
      BY <2>1, <3>1
  <2>3. m - 1 \in Nat /\ m - 1 \notin bad
    <3> HIDE DEF To
    <3> QED
      BY <2>1, <2>2
  <2>4. PICK u : To(u, m - 1)
    <3> HIDE DEF To
    <3> QED
      BY <2>3
  <2> DEFINE last == u[m - 1] + (IF m - 1 \in S THEN e[m - 1].ssid + 1 ELSE 0)
             v == [n \in 0 .. m |-> IF n = m THEN last ELSE u[n]]
  <2>5. \A n \in 0 .. m : v[n] = IF n = 0 THEN 0
                                 ELSE v[n - 1] + (IF n - 1 \in S THEN e[n - 1].ssid + 1 ELSE 0)
    <3>1. ASSUME NEW n \in 0 .. m - 1
          PROVE  v[n] = IF n = 0 THEN 0
                        ELSE v[n - 1] + (IF n - 1 \in S THEN e[n - 1].ssid + 1 ELSE 0)
      <4>1. u[n] = IF n = 0 THEN 0
                   ELSE u[n - 1] + (IF n - 1 \in S THEN e[n - 1].ssid + 1 ELSE 0)
        BY <2>4, Zenon
      <4>2. v[n] = u[n] /\ (n # 0 => v[n - 1] = u[n - 1])
        <5> HIDE DEF last
        <5> QED
          BY <2>3
      <4> HIDE DEF v
      <4> QED
        BY <4>1, <4>2
    <3>2. v[m] = last /\ v[m - 1] = u[m - 1]
      <4>1. m \in 0 .. m /\ m - 1 \in 0 .. m /\ m - 1 # m
        BY <2>3
      <4> HIDE DEF last
      <4> QED
        BY <4>1
    <3>3. ASSUME NEW n \in 0 .. m PROVE n = m \/ n \in 0 .. m - 1
      BY <2>3
    <3> HIDE DEF v
    <3> QED
      BY <2>2, <3>1, <3>2, <3>3
  <2>6. v = [n \in 0 .. m |-> v[n]]
    <3> HIDE DEF last
    <3> QED
      OBVIOUS
  <2>7. To(v, m)
    <3> HIDE DEF v
    <3> QED
      BY <2>5, <2>6, Zenon
  <2> HIDE DEF To
  <2> QED
    BY <2>1, <2>7
<1>2. \E u : To(u, MaxRpt)
  <2> HIDE DEF To
  <2> QED
    BY <1>1, Bounds
<1>3. To(upTo, MaxRpt)
  <2> HIDE DEF To
  <2> QED
    BY <1>2
<1>4. Counted(upTo, e, S)
  <2> HIDE DEF upTo
  <2> QED
    BY <1>3, Zenon DEF Counted
<1>5. AskedBy(e, S) = upTo[MaxRpt]
  BY Zenon DEF AskedBy
<1> QED
  BY <1>4, <1>5

LEMMA CountedStep ==
  ASSUME NEW u, NEW e, NEW S, Counted(u, e, S)
  PROVE  u[0] = 0 /\ \A n \in Slots : u[n + 1] = u[n] + Cost(e, S, n)
<1>1. MaxRpt \in Nat
  BY Bounds
<1>2. \A n \in 0 .. MaxRpt : u[n] = IF n = 0 THEN 0
                                     ELSE u[n - 1] + (IF n - 1 \in S THEN e[n - 1].ssid + 1 ELSE 0)
  BY Zenon DEF Counted
<1>3. u[0] = 0
  <2>1. 0 \in 0 .. MaxRpt
    BY <1>1
  <2> QED
    BY <1>2, <2>1, Zenon
<1>4. ASSUME NEW n \in Slots PROVE u[n + 1] = u[n] + Cost(e, S, n)
  <2>1. n + 1 \in 0 .. MaxRpt /\ n + 1 # 0 /\ (n + 1) - 1 = n
    BY <1>1 DEF Slots
  <2>2. u[n + 1] = u[(n + 1) - 1] + (IF (n + 1) - 1 \in S THEN e[(n + 1) - 1].ssid + 1 ELSE 0)
    BY <1>2, <2>1, Zenon
  <2>3. u[n + 1] = u[n] + (IF n \in S THEN e[n].ssid + 1 ELSE 0)
    BY <2>1, <2>2, Zenon
  <2> QED
    BY <2>3, Zenon DEF Cost
<1> QED
  BY <1>3, <1>4

LEMMA CostIs ==
  ASSUME NEW e \in Addresses, NEW S, NEW n \in Slots PROVE Cost(e, S, n) \in Nat
<1>1. e[n].ssid \in Nat
  BY DEF Addresses, Address
<1> QED
  BY <1>1 DEF Cost

LEMMA CountedType ==
  ASSUME NEW u, NEW e \in Addresses, NEW S, Counted(u, e, S)
  PROVE  \A n \in 0 .. MaxRpt : u[n] \in Nat
<1> DEFINE bad == {n \in 0 .. MaxRpt : u[n] \notin Nat}
<1> SUFFICES ASSUME bad # {} PROVE FALSE
  OBVIOUS
<1>1. MaxRpt \in Nat
  BY Bounds
<1>2. PICK m \in bad : \A j \in bad : m <= j
  <2>1. bad \in SUBSET Nat
    BY <1>1
  <2> QED
    BY <2>1, LeastOne
<1>3. m # 0
  BY <1>2, CountedStep
<1>4. m - 1 \in 0 .. MaxRpt /\ m - 1 \notin bad /\ m - 1 \in Slots /\ (m - 1) + 1 = m
  BY <1>1, <1>2, <1>3 DEF Slots
<1>5. u[m - 1] \in Nat /\ Cost(e, S, m - 1) \in Nat
  BY <1>4, CostIs
<1>6. u[m] = u[m - 1] + Cost(e, S, m - 1)
  <2>1. \A n \in Slots : u[n + 1] = u[n] + Cost(e, S, n)
    BY CountedStep
  <2> QED
    BY <1>4, <2>1
<1> QED
  BY <1>2, <1>5, <1>6

LEMMA AskedType ==
  ASSUME NEW e \in Addresses, NEW S PROVE AskedBy(e, S) \in Nat
<1>1. PICK u : Counted(u, e, S) /\ AskedBy(e, S) = u[MaxRpt]
  BY AskedThere
<1> QED
  BY <1>1, CountedType, Bounds

\* What two disjoint sets of slots ask for together.
LEMMA AskedJoin ==
  ASSUME NEW e \in Addresses, NEW S \in SUBSET Slots, NEW T \in SUBSET Slots, S \cap T = {}
  PROVE  AskedBy(e, S \cup T) = AskedBy(e, S) + AskedBy(e, T)
<1>1. PICK u : Counted(u, e, S) /\ AskedBy(e, S) = u[MaxRpt]
  BY AskedThere
<1>2. PICK v : Counted(v, e, T) /\ AskedBy(e, T) = v[MaxRpt]
  BY AskedThere
<1>3. PICK w : Counted(w, e, S \cup T) /\ AskedBy(e, S \cup T) = w[MaxRpt]
  BY AskedThere
<1> DEFINE bad == {n \in 0 .. MaxRpt : w[n] # u[n] + v[n]}
<1>4. bad = {}
  <2> SUFFICES ASSUME bad # {} PROVE FALSE
    OBVIOUS
  <2>1. MaxRpt \in Nat
    BY Bounds
  <2>2. PICK m \in bad : \A j \in bad : m <= j
    <3>1. bad \in SUBSET Nat
      BY <2>1
    <3> QED
      BY <3>1, LeastOne
  <2>3. m # 0
    <3>1. u[0] = 0 /\ v[0] = 0 /\ w[0] = 0
      BY <1>1, <1>2, <1>3, CountedStep
    <3> QED
      BY <2>2, <3>1
  <2>4. m - 1 \in 0 .. MaxRpt /\ m - 1 \notin bad /\ m - 1 \in Slots /\ (m - 1) + 1 = m
    BY <2>1, <2>2, <2>3 DEF Slots
  <2> DEFINE k == m - 1
  <2>5. w[k] = u[k] + v[k]
    BY <2>4
  <2>6. /\ w[m] = w[k] + Cost(e, S \cup T, k)
        /\ u[m] = u[k] + Cost(e, S, k)
        /\ v[m] = v[k] + Cost(e, T, k)
    <3>1. k + 1 = m /\ k \in Slots
      BY <2>4
    <3> HIDE DEF k
    <3> QED
      BY <1>1, <1>2, <1>3, <3>1, CountedStep
  <2>7. u[k] \in Nat /\ v[k] \in Nat /\ Cost(e, S, k) \in Nat /\ Cost(e, T, k) \in Nat
    <3>1. k \in 0 .. MaxRpt /\ k \in Slots
      BY <2>4
    <3> HIDE DEF k
    <3> QED
      BY <1>1, <1>2, <3>1, CountedType, CostIs
  <2>8. Cost(e, S \cup T, k) = Cost(e, S, k) + Cost(e, T, k)
    <3>1. k \in Slots
      BY <2>4
    <3>2. e[k].ssid \in Nat
      BY <3>1 DEF Addresses, Address
    <3> HIDE DEF k
    <3> QED
      BY <3>2 DEF Cost
  <2> HIDE DEF k
  <2>9. w[m] = u[m] + v[m]
    BY <2>5, <2>6, <2>7, <2>8
  <2> QED
    BY <2>2, <2>9
<1>5. w[MaxRpt] = u[MaxRpt] + v[MaxRpt]
  <2>1. MaxRpt \in 0 .. MaxRpt
    BY Bounds
  <2> QED
    BY <1>4, <2>1
<1> QED
  BY <1>1, <1>2, <1>3, <1>5

LEMMA CountedGap ==
  ASSUME NEW u, NEW e \in Addresses, NEW S, Counted(u, e, S), NEW a \in 0 .. MaxRpt, NEW b \in 0 .. MaxRpt,
         a <= b, \A k \in S : ~(a <= k /\ k < b)
  PROVE  u[b] = u[a]
<1> DEFINE bad == {n \in a .. b : u[n] # u[a]}
<1> SUFFICES ASSUME bad # {} PROVE FALSE
  BY Bounds
<1>1. MaxRpt \in Nat
  BY Bounds
<1>2. PICK m \in bad : \A j \in bad : m <= j
  <2>1. bad \in SUBSET Nat
    BY <1>1
  <2> QED
    BY <2>1, LeastOne
<1>3. m # a
  BY <1>2
<1>4. m - 1 \in a .. b /\ m - 1 \notin bad /\ m - 1 \in Slots /\ (m - 1) + 1 = m /\ m - 1 \notin S
  BY <1>1, <1>2, <1>3 DEF Slots
<1>5. u[m - 1] = u[a] /\ u[a] \in Nat
  BY <1>4, CountedType
<1>6. u[m] = u[m - 1] + 0
  <2>1. \A n \in Slots : u[n + 1] = u[n] + Cost(e, S, n)
    BY CountedStep
  <2> QED
    BY <1>4, <2>1 DEF Cost
<1> QED
  BY <1>2, <1>5, <1>6

LEMMA AskedOne ==
  ASSUME NEW e \in Addresses, NEW k \in Slots
  PROVE  AskedBy(e, {k}) = e[k].ssid + 1 /\ AskedBy(e, {}) = 0
<1>0. MaxRpt \in Nat /\ 0 \in 0 .. MaxRpt /\ MaxRpt \in 0 .. MaxRpt /\ 0 <= MaxRpt
  BY Bounds
<1>1. PICK u : Counted(u, e, {k}) /\ AskedBy(e, {k}) = u[MaxRpt]
  BY AskedThere
<1>2. k \in 0 .. MaxRpt /\ k + 1 \in 0 .. MaxRpt /\ 0 <= k /\ k + 1 <= MaxRpt
  BY <1>0 DEF Slots
<1>3. u[k] = u[0]
  BY <1>0, <1>1, <1>2, CountedGap
<1>4. u[MaxRpt] = u[k + 1]
  BY <1>0, <1>1, <1>2, CountedGap
<1>5. u[0] = 0 /\ u[k + 1] = u[k] + Cost(e, {k}, k)
  BY <1>1, CountedStep
<1>6. Cost(e, {k}, k) = e[k].ssid + 1 /\ e[k].ssid \in Nat
  BY DEF Cost, Addresses, Address
<1>7. PICK v : Counted(v, e, {}) /\ AskedBy(e, {}) = v[MaxRpt]
  BY AskedThere
<1>8. v[MaxRpt] = v[0] /\ v[0] = 0
  BY <1>0, <1>7, CountedGap, CountedStep
<1> QED
  BY <1>1, <1>3, <1>4, <1>5, <1>6, <1>7, <1>8

\* Addresses that are moved together ask for what they asked.
LEMMA AskedMoved ==
  ASSUME NEW e \in Addresses, NEW g \in Addresses, NEW S \in SUBSET Slots, NEW d \in Nat,
         NEW T \in SUBSET Slots, \A k \in S : k + d \in T /\ g[k + d] = e[k], \A t \in T : t - d \in S
  PROVE  AskedBy(g, T) = AskedBy(e, S)
<1>1. PICK u : Counted(u, e, S) /\ AskedBy(e, S) = u[MaxRpt]
  BY AskedThere
<1>2. PICK v : Counted(v, g, T) /\ AskedBy(g, T) = v[MaxRpt]
  BY AskedThere
<1>0. MaxRpt \in Nat /\ 0 \in 0 .. MaxRpt /\ MaxRpt \in 0 .. MaxRpt
  BY Bounds
<1>3. CASE d > MaxRpt
  <2>1. S = {}
    <3> SUFFICES ASSUME NEW k \in S PROVE FALSE
      OBVIOUS
    <3>1. k + d \in T /\ k \in Nat
      BY DEF Slots
    <3>2. k + d \in 0 .. MaxRpt - 1
      BY <3>1 DEF Slots
    <3> QED
      BY <1>0, <1>3, <3>1, <3>2
  <2>2. T = {}
    BY <2>1
  <2>3. 0 \in Slots
    BY Bounds DEF Slots
  <2> QED
    BY <2>1, <2>2, <2>3, AskedOne
<1>4. CASE d <= MaxRpt
  <2> DEFINE top == MaxRpt - d
             bad == {n \in 0 .. top : v[n + d] # u[n]}
  <2>1. top \in 0 .. MaxRpt /\ d \in 0 .. MaxRpt /\ top + d = MaxRpt
    BY <1>0, <1>4
  <2>2. \A t \in T : t \in Nat /\ d <= t /\ t < MaxRpt /\ t - d \in S /\ t - d < top
    BY <1>0, <1>4 DEF Slots
  <2>3. \A k \in S : k \in Nat /\ k < top /\ k + d \in T
    <3> SUFFICES ASSUME NEW k \in S PROVE k \in Nat /\ k < top /\ k + d \in T
      OBVIOUS
    <3>1. k + d \in T /\ k \in Nat
      BY DEF Slots
    <3> QED
      BY <1>0, <2>2, <3>1
  <2>4. v[d] = 0 /\ u[0] = 0
    <3>1. 0 <= d /\ \A t \in T : ~(0 <= t /\ t < d)
      BY <2>2
    <3>2. v[d] = v[0]
      BY <1>0, <1>2, <2>1, <3>1, CountedGap
    <3> QED
      BY <1>1, <1>2, <3>2, CountedStep
  <2>5. bad = {}
    <3> SUFFICES ASSUME bad # {} PROVE FALSE
      OBVIOUS
    <3>1. PICK m \in bad : \A j \in bad : m <= j
      <4>1. bad \in SUBSET Nat
        BY <2>1
      <4> QED
        BY <4>1, LeastOne
    <3> HIDE DEF top
    <3>2. m # 0
      <4>1. 0 + d = d
        OBVIOUS
      <4> QED
        BY <2>4, <3>1, <4>1
    <3>3. /\ m - 1 \in 0 .. top /\ m - 1 \notin bad /\ m - 1 \in Slots /\ (m - 1) + 1 = m
          /\ (m - 1) + d \in Slots /\ ((m - 1) + d) + 1 = m + d
      BY <1>0, <2>1, <3>1, <3>2 DEF Slots
    <3> DEFINE k == m - 1
    <3>4. v[k + d] = u[k]
      BY <3>3
    <3>5. u[m] = u[k] + Cost(e, S, k)
      <4>1. k + 1 = m /\ k \in Slots
        BY <3>3
      <4> HIDE DEF k
      <4> QED
        BY <1>1, <4>1, CountedStep
    <3>6. v[m + d] = v[k + d] + Cost(g, T, k + d)
      <4>1. (k + d) + 1 = m + d /\ k + d \in Slots
        BY <3>3
      <4>2. \A n \in Slots : v[n + 1] = v[n] + Cost(g, T, n)
        BY <1>2, CountedStep
      <4> HIDE DEF k
      <4> QED
        BY <4>1, <4>2
    <3>7. k + d \in T <=> k \in S
      <4>1. k + d \in T => (k + d) - d \in S
        BY <2>2
      <4>2. (k + d) - d = k
        BY <3>3
      <4> QED
        BY <2>3, <4>1, <4>2
    <3>8. Cost(g, T, k + d) = Cost(e, S, k)
      <4> HIDE DEF k
      <4> QED
        BY <3>7 DEF Cost
    <3> QED
      BY <3>1, <3>4, <3>5, <3>6, <3>8
  <2>6. v[MaxRpt] = u[top]
    <3>1. top \in 0 .. top
      BY <2>1
    <3> HIDE DEF top
    <3> QED
      BY <2>1, <2>5, <3>1
  <2>7. u[MaxRpt] = u[top]
    <3>1. top <= MaxRpt /\ \A k \in S : ~(top <= k /\ k < MaxRpt)
      BY <1>0, <2>1, <2>3
    <3> HIDE DEF top
    <3> QED
      BY <1>0, <1>1, <2>1, <3>1, CountedGap
  <2> QED
    BY <1>1, <1>2, <2>6, <2>7
<1> QED
  BY <1>0, <1>3, <1>4

LEMMA AskedSame ==
  ASSUME NEW e \in Addresses, NEW g \in Addresses, NEW S \in SUBSET Slots, \A k \in S : g[k] = e[k]
  PROVE  AskedBy(g, S) = AskedBy(e, S)
<1>1. \A k \in S : k + 0 = k /\ k - 0 = k
  BY DEF Slots
<1>2. 0 \in Nat /\ \A k \in S : k + 0 \in S /\ g[k + 0] = e[k] /\ k - 0 \in S
  BY <1>1
<1> QED
  BY <1>2, AskedMoved

\* Fewer slots ask for no more.
LEMMA AskedFewer ==
  ASSUME NEW e \in Addresses, NEW S \in SUBSET Slots, NEW T \in SUBSET S
  PROVE  AskedBy(e, T) <= AskedBy(e, S)
<1>1. T \cup (S \ T) = S /\ T \cap (S \ T) = {} /\ T \in SUBSET Slots /\ S \ T \in SUBSET Slots
  OBVIOUS
<1>2. AskedBy(e, T \cup (S \ T)) = AskedBy(e, T) + AskedBy(e, S \ T)
  BY <1>1, AskedJoin
<1>3. AskedBy(e, S) = AskedBy(e, T) + AskedBy(e, S \ T)
  BY <1>1, <1>2
<1>4. AskedBy(e, T) \in Nat /\ AskedBy(e, S \ T) \in Nat
  BY AskedType
<1> QED
  BY <1>3, <1>4

-----------------------------------------------------------------------------
(* The first address of a route, and those behind one *)

LEMMA OneJoined ==
  ASSUME NEW a \in Address, NEW t \in Seq(Address)
  PROVE  LET l == Joined(One(a), t) IN
         /\ l \in Seq(Address) /\ Len(l) = 1 + Len(t) /\ l[1] = a
         /\ \A i \in 1 .. Len(t) : l[i + 1] = t[i]
BY DEF Joined, One

WithHops(a, n) == [a EXCEPT !.ssid = n]
FirstWith(l, n) == [l EXCEPT ![1].ssid = n]

LEMMA FirstIs ==
  ASSUME NEW a \in Address, NEW t \in Seq(Address), NEW l, l = Joined(One(a), t)
  PROVE  /\ 1 \in DOMAIN l /\ l[1] = a /\ Hops!RemoveAt(l, 1) = t
         /\ \A n \in 0 .. 15 : FirstWith(l, n) = Joined(One(WithHops(a, n)), t)
<1>2. l \in Seq(Address) /\ Len(l) = 1 + Len(t) /\ Len(t) \in Nat
  BY OneJoined
<1>3. 1 \in 1 .. Len(l) /\ l[1] = a /\ \A i \in 1 .. Len(t) : l[i + 1] = t[i]
  BY <1>2 DEF Joined, One
<1>4. Hops!RemoveAt(l, 1) = t
  <2> DEFINE rest == SubSeq(l, 2, Len(l))
  <2>1. \A i \in 2 .. Len(l) : l[i] \in Address
    BY <1>2
  <2>2. /\ rest \in Seq(Address) /\ Len(rest) = IF 2 <= Len(l) THEN Len(l) - 2 + 1 ELSE 0
        /\ \A i \in 1 .. Len(l) - 2 + 1 : rest[i] = l[2 + i - 1]
    <3>1. Len(l) \in Int /\ 2 \in Int
      BY <1>2
    <3> QED
      BY <2>1, <3>1, SubSeqProperties
  <2>3. SubSeq(l, 1, 0) = <<>>
    BY SubSeqEmpty
  <2> HIDE DEF rest
  <2>4. Len(rest) = Len(t) /\ \A i \in 1 .. Len(rest) : rest[i] = t[i]
    <3>1. Len(rest) = Len(t)
      BY <1>2, <2>2
    <3>2. ASSUME NEW i \in 1 .. Len(t) PROVE rest[i] = t[i]
      <4>1. 2 + i - 1 = i + 1 /\ i \in 1 .. Len(l) - 2 + 1
        BY <1>2
      <4> QED
        BY <1>3, <2>2, <4>1
    <3> QED
      BY <3>1, <3>2
  <2>5. rest = t
    BY <2>2, <2>4, SeqEqual
  <2>6. Joined(<<>>, t) = t
    BY PutIs
  <2>7. Hops!RemoveAt(l, 1) = Joined(SubSeq(l, 1, 1 - 1), SubSeq(l, 1 + 1, Len(l)))
    BY DEF Hops!RemoveAt, Joined
  <2>8. 1 - 1 = 0 /\ 1 + 1 = 2
    OBVIOUS
  <2>9. Hops!RemoveAt(l, 1) = Joined(SubSeq(l, 1, 0), rest)
    BY <2>7, <2>8, Zenon DEF rest
  <2> QED
    BY <2>3, <2>5, <2>6, <2>9, Zenon
<1>5. ASSUME NEW n \in 0 .. 15
      PROVE  FirstWith(l, n) = Joined(One(WithHops(a, n)), t)
  <2> DEFINE b == WithHops(a, n)
             m == [l EXCEPT ![1] = b]
  <2>1. b \in Address
    BY DEF Address, WithHops
  <2>2. FirstWith(l, n) = m
    BY <1>3 DEF FirstWith, WithHops
  <2> HIDE DEF b
  <2>3. m \in Seq(Address) /\ Len(m) = Len(l) /\ m[1] = b /\ \A i \in 1 .. Len(t) : m[i + 1] = t[i]
    BY <1>2, <1>3, <2>1
  <2> DEFINE k == Joined(One(b), t)
  <2>5. /\ k \in Seq(Address) /\ Len(k) = 1 + Len(t) /\ k[1] = b
        /\ \A i \in 1 .. Len(t) : k[i + 1] = t[i]
    BY <2>1, OneJoined
  <2> HIDE DEF k, m
  <2>6. Len(m) = Len(k) /\ \A i \in 1 .. Len(m) : m[i] = k[i]
    <3>1. Len(m) = Len(k) /\ Len(k) = 1 + Len(t) /\ m[1] = k[1]
      BY <1>2, <2>3, <2>5
    <3>2. ASSUME NEW i \in 2 .. 1 + Len(t) PROVE m[i] = k[i]
      <4>1. i - 1 \in 1 .. Len(t) /\ (i - 1) + 1 = i
        BY <1>2
      <4>2. m[(i - 1) + 1] = t[i - 1] /\ k[(i - 1) + 1] = t[i - 1]
        BY <2>3, <2>5, <4>1
      <4> QED
        BY <4>1, <4>2
    <3> QED
      BY <1>2, <3>1, <3>2
  <2>7. m = k
    BY <2>3, <2>5, <2>6, SeqEqual
  <2> QED
    BY <2>2, <2>7 DEF k, b
<1> QED
  BY <1>2, <1>3, <1>4, <1>5

\* l is the addresses x, b and the addresses y.
Behind(l, b, x, y) ==
  \E i \in 1 .. Len(l) : l[i] = b /\ SubSeq(l, i + 1, Len(l)) = y /\ SubSeq(l, 1, i - 1) = x

LEMMA BehindIs ==
  ASSUME NEW p \in Seq(Address), NEW q \in Seq(Address), NEW b \in Address,
         NEW l, l = Joined(Joined(p, One(b)), q)
  PROVE  Behind(l, b, p, q)
<1>2. PICK n \in Nat : n = Len(p)
  OBVIOUS
<1>3. PICK r \in Nat : r = Len(q)
  OBVIOUS
<1>6. /\ l \in Seq(Address) /\ Len(l) = n + 1 + r /\ l[n + 1] = b
      /\ \A i \in 1 .. n : l[i] = p[i]
      /\ \A i \in 1 .. r : l[n + 1 + i] = q[i]
  BY <1>2, <1>3 DEF Joined, One
<1>7. l[n + 1] = b /\ n + 1 \in 1 .. Len(l)
  BY <1>6
<1>8. \A i \in 1 .. n : l[i] = p[i]
  BY <1>6
<1>9. \A i \in 1 .. r : l[n + 1 + i] = q[i]
  BY <1>6
<1>10. \A i \in 1 .. Len(l) : l[i] \in Address
  BY <1>6
<1>11. SubSeq(l, (n + 1) + 1, Len(l)) = q
  <2> DEFINE x == SubSeq(l, n + 2, n + 1 + r)
  <2>1. /\ x \in Seq(Address) /\ Len(x) = IF n + 2 <= n + 1 + r THEN (n + 1 + r) - (n + 2) + 1 ELSE 0
        /\ \A i \in 1 .. (n + 1 + r) - (n + 2) + 1 : x[i] = l[(n + 2) + i - 1]
    <3>1. n + 2 \in Int /\ n + 1 + r \in Int /\ \A i \in n + 2 .. n + 1 + r : l[i] \in Address
      BY <1>6, <1>10
    <3> QED
      BY <3>1, SubSeqProperties
  <2> HIDE DEF x
  <2>2. Len(x) = r
    BY <2>1
  <2>3. ASSUME NEW i \in 1 .. r PROVE x[i] = q[i]
    <3>1. i \in 1 .. (n + 1 + r) - (n + 2) + 1 /\ (n + 2) + i - 1 = n + 1 + i
      OBVIOUS
    <3> QED
      BY <1>9, <2>1, <3>1
  <2>4. x = q
    BY <1>3, <2>1, <2>2, <2>3, SeqEqual
  <2>5. (n + 1) + 1 = n + 2
    OBVIOUS
  <2> QED
    BY <1>6, <2>4, <2>5 DEF x
<1>12. SubSeq(l, 1, (n + 1) - 1) = p
  <2> DEFINE x == SubSeq(l, 1, n)
  <2>1. /\ x \in Seq(Address) /\ Len(x) = IF 1 <= n THEN n - 1 + 1 ELSE 0
        /\ \A i \in 1 .. n - 1 + 1 : x[i] = l[1 + i - 1]
    <3>1. 1 \in Int /\ n \in Int /\ \A i \in 1 .. n : l[i] \in Address
      BY <1>6, <1>10
    <3> QED
      BY <3>1, SubSeqProperties
  <2> HIDE DEF x
  <2>2. Len(x) = n
    BY <2>1
  <2>3. ASSUME NEW i \in 1 .. n PROVE x[i] = p[i]
    <3>1. i \in 1 .. n - 1 + 1 /\ 1 + i - 1 = i
      OBVIOUS
    <3> QED
      BY <1>8, <2>1, <3>1
  <2>4. x = p
    BY <1>2, <2>1, <2>2, <2>3, SeqEqual
  <2>5. (n + 1) - 1 = n
    OBVIOUS
  <2> QED
    BY <2>4, <2>5 DEF x
<1> QED
  BY <1>7, <1>11, <1>12 DEF Behind

-----------------------------------------------------------------------------
(* The slots of a path that are live and those that are served *)

Asks(f)   == Unused(f) \ Tokens(f)
Serves(f) == (In(f) \cap f.used) \ Tokens(f)
Asked(f)  == AskedBy(f.entry, Unused(f))

LEMMA ListsAre ==
  ASSUME NEW f, Path(f)
  PROVE  /\ f.entry \in Addresses /\ Unused(f) \in SUBSET Slots
         /\ Asks(f) \in SUBSET Slots /\ Serves(f) \in SUBSET Slots
         /\ Live(f) = Route(f.entry, Asks(f)) /\ Served(f) = Route(f.entry, Serves(f))
         /\ Live(f) \in Seq(Address) /\ Served(f) \in Seq(Address)
         /\ \A k \in Serves(f), u \in Asks(f) : k < u
         /\ Tokens(f) = {k \in In(f) : Passed(f, k)}
         /\ Asks(f) = {u \in Unused(f) : ~Passed(f, u)}
         /\ Serves(f) = {k \in f.used : ~Passed(f, k)}
<1>0. f \in Frame /\ f.count \in 0 .. MaxRpt /\ MaxRpt \in Nat /\ f.used \subseteq In(f)
  BY Bounds DEF Path, Frame
<1>1. f \in Frame /\ In(f) \subseteq Slots /\ f.used \subseteq In(f)
  BY <1>0 DEF In, Slots
<1>2. f.entry \in Addresses
  BY <1>1 DEF Frame, Addresses
<1>3. Tokens(f) = {k \in In(f) : Passed(f, k)}
  BY DEF Tokens, Passed
<1>4. /\ Asks(f) = {u \in Unused(f) : ~Passed(f, u)}
      /\ Serves(f) = {k \in f.used : ~Passed(f, k)}
  BY <1>1, <1>3 DEF Asks, Serves, Unused
<1>5. Asks(f) \in SUBSET Slots /\ Serves(f) \in SUBSET Slots /\ Unused(f) \in SUBSET Slots
  BY <1>1 DEF Asks, Serves, Unused
<1>6. Live(f) = Route(f.entry, Asks(f)) /\ Served(f) = Route(f.entry, Serves(f))
  BY DEF Live, Served, At, Asks, Serves
<1>7. Live(f) \in Seq(Address) /\ Served(f) \in Seq(Address)
  BY <1>2, <1>6, RouteType
<1>8. \A k \in Serves(f), u \in Asks(f) : k < u
  BY <1>4 DEF Path
<1> QED
  BY <1>2, <1>3, <1>4, <1>5, <1>6, <1>7, <1>8

LEMMA HeadIs ==
  ASSUME NEW e \in Addresses, NEW S \in SUBSET Slots, NEW idx \in S, \A u \in S : idx <= u
  PROVE  Route(e, S) = Joined(One(e[idx]), Route(e, S \ {idx}))
<1>1. {idx} \in SUBSET Slots /\ S \ {idx} \in SUBSET Slots /\ {idx} \cup (S \ {idx}) = S
  OBVIOUS
<1>2. \A k \in {idx}, t \in S \ {idx} : k < t
  BY DEF Slots
<1>3. Route(e, {idx} \cup (S \ {idx})) = Joined(Route(e, {idx}), Route(e, S \ {idx}))
  BY <1>1, <1>2, RouteJoin
<1>4. Route(e, {idx}) = One(e[idx])
  BY RouteOne
<1> QED
  BY <1>1, <1>3, <1>4

LEMMA AskedOff ==
  ASSUME NEW e \in Addresses, NEW S \in SUBSET Slots, NEW idx \in S
  PROVE  /\ AskedBy(e, S) = AskedBy(e, S \ {idx}) + e[idx].ssid + 1
         /\ e[idx].ssid \in Nat /\ AskedBy(e, S \ {idx}) \in Nat
<1>1. {idx} \in SUBSET Slots /\ S \ {idx} \in SUBSET Slots /\ (S \ {idx}) \cup {idx} = S
      /\ (S \ {idx}) \cap {idx} = {}
  OBVIOUS
<1>2. AskedBy(e, (S \ {idx}) \cup {idx}) = AskedBy(e, S \ {idx}) + AskedBy(e, {idx})
  BY <1>1, AskedJoin
<1>3. AskedBy(e, {idx}) = e[idx].ssid + 1
  BY AskedOne
<1>4. e[idx].ssid \in Nat /\ AskedBy(e, S \ {idx}) \in Nat
  BY AskedType DEF Addresses, Address
<1>5. AskedBy(e, S) = AskedBy(e, S \ {idx}) + AskedBy(e, {idx})
  BY <1>1, <1>2
<1> QED
  BY <1>3, <1>4, <1>5

\* A station signs behind all that was served.
LEMMA SignIs ==
  ASSUME NEW f, Path(f), NEW s \in Stations, NEW e \in Addresses, NEW idx \in Slots, e[idx] = Own(s),
         \A k \in Serves(f) : k < idx /\ e[k] = f.entry[k]
  PROVE  Route(e, Serves(f) \cup {idx}) = Put(Served(f), Own(s))
<1>1. f.entry \in Addresses /\ Serves(f) \in SUBSET Slots /\ Served(f) = Route(f.entry, Serves(f))
      /\ Served(f) \in Seq(Address)
  BY ListsAre
<1>2. Route(e, Serves(f) \cup {idx}) = Joined(Route(e, Serves(f)), Route(e, {idx}))
  <2>1. {idx} \in SUBSET Slots /\ \A k \in Serves(f), t \in {idx} : k < t
    OBVIOUS
  <2> QED
    BY <1>1, <2>1, RouteJoin
<1>3. Route(e, Serves(f)) = Served(f)
  BY <1>1, RouteSame
<1>4. Route(e, {idx}) = One(Own(s))
  BY RouteOne
<1>5. Joined(Served(f), One(Own(s))) = Put(Served(f), Own(s))
  BY <1>1, OwnIs, PutIs
<1> QED
  BY <1>2, <1>3, <1>4, <1>5

\* A station's name is no gate token.
LEMMA OwnCounts ==
  ASSUME NEW g, NEW s \in Stations, NEW idx, g.entry[idx] = Own(s) PROVE ~Passed(g, idx)
BY TokenAssumption DEF TokenAssumption, Passed, Own

\* What every address has a name in is received as it was sent.
LEMMA AirSame ==
  ASSUME NEW g, Path(g), Decodable(g)
  PROVE  LET h == OnAir(g) IN
         /\ Path(h) /\ h.dst = g.dst /\ Live(h) = Live(g) /\ Served(h) = Served(g)
         /\ Tokens(h) = Tokens(g) /\ Asked(h) = Asked(g)
<1> DEFINE h == OnAir(g)
           entry == [k \in Slots |-> IF k < g.count THEN g.entry[k] ELSE Empty]
<1>1. g \in Frame /\ g.count \in 0 .. MaxRpt /\ MaxRpt \in Nat /\ g.used \subseteq In(g)
  BY Bounds DEF Path, Frame
<1>2. ~(g.count > 0 /\ g.entry[g.count - 1] = Empty)
  <2> SUFFICES ASSUME g.count > 0, g.entry[g.count - 1] = Empty PROVE FALSE
    OBVIOUS
  <2>1. g.count - 1 \in In(g)
    BY <1>1 DEF In
  <2> QED
    BY <2>1, EmptyIs DEF Decodable
<1>3. h = [g EXCEPT !.count = g.count, !.entry = entry]
  <2> DEFINE sent == IF g.count > 0 /\ g.entry[g.count - 1] = Empty THEN g.count - 1 ELSE g.count
  <2>1. sent = g.count
    BY <1>2
  <2>2. h = [g EXCEPT !.count = sent, !.entry = [k \in Slots |-> IF k < sent THEN g.entry[k] ELSE Empty]]
    BY DEF OnAir
  <2> HIDE DEF sent, h
  <2> QED
    BY <2>1, <2>2
<1>4. \A k \in In(g) : k \in Slots /\ entry[k] = g.entry[k]
  BY <1>1 DEF In, Slots
<1>5. Path(h)
  BY AirIs
<1> HIDE DEF h, entry
<1>6. h.count = g.count /\ h.used = g.used /\ h.dst = g.dst /\ h.entry = entry
  BY <1>1, <1>3 DEF Frame
<1>7. In(h) = In(g) /\ Unused(h) = Unused(g) /\ \A k \in In(g) : h.entry[k] = g.entry[k]
  BY <1>4, <1>6 DEF In, Unused
<1>8. \A k \in In(g) : Passed(h, k) <=> Passed(g, k)
  BY <1>7 DEF Passed
<1>9. /\ Tokens(g) = {k \in In(g) : Passed(g, k)} /\ Tokens(h) = {k \in In(h) : Passed(h, k)}
      /\ Asks(g) = {u \in Unused(g) : ~Passed(g, u)} /\ Asks(h) = {u \in Unused(h) : ~Passed(h, u)}
      /\ Serves(g) = {k \in g.used : ~Passed(g, k)} /\ Serves(h) = {k \in h.used : ~Passed(h, k)}
      /\ g.entry \in Addresses /\ h.entry \in Addresses
      /\ Unused(g) \in SUBSET Slots /\ Asks(g) \in SUBSET Slots /\ Serves(g) \in SUBSET Slots
      /\ Live(g) = Route(g.entry, Asks(g)) /\ Served(g) = Route(g.entry, Serves(g))
      /\ Live(h) = Route(h.entry, Asks(h)) /\ Served(h) = Route(h.entry, Serves(h))
  BY <1>5, ListsAre
<1>10. Unused(g) \subseteq In(g) /\ Asks(g) \subseteq In(g) /\ Serves(g) \subseteq In(g)
  BY <1>1, <1>9 DEF Unused
<1>11. Tokens(h) = Tokens(g) /\ Asks(h) = Asks(g) /\ Serves(h) = Serves(g)
  <2>1. Tokens(h) = Tokens(g)
    BY <1>7, <1>8, <1>9
  <2>2. Asks(h) = Asks(g)
    BY <1>7, <1>8, <1>9, <1>10
  <2>3. Serves(h) = Serves(g)
    BY <1>1, <1>6, <1>8, <1>9
  <2> QED
    BY <2>1, <2>2, <2>3
<1>12. Route(h.entry, Asks(g)) = Route(g.entry, Asks(g))
  BY <1>7, <1>9, <1>10, RouteSame
<1>13. Route(h.entry, Serves(g)) = Route(g.entry, Serves(g))
  BY <1>7, <1>9, <1>10, RouteSame
<1>14. AskedBy(h.entry, Unused(g)) = AskedBy(g.entry, Unused(g))
  BY <1>7, <1>9, <1>10, AskedSame
<1> QED
  BY <1>5, <1>6, <1>7, <1>9, <1>11, <1>12, <1>13, <1>14 DEF h, Asked

\* The callsign over the first live address: that one is served.
LEMMA ClaimHop ==
  ASSUME NEW f, Path(f), Decodable(f), NEW s \in Stations, NEW idx \in Asks(f),
         \A u \in Asks(f) : idx <= u
  PROVE  LET g == Claim(s, f, idx) IN
         /\ Path(g) /\ Decodable(g) /\ g.dst = f.dst
         /\ Live(g) = Hops!RemoveAt(Live(f), 1) /\ Served(g) = Put(Served(f), Own(s))
         /\ Tokens(g) = Tokens(f) /\ Asked(g) < Asked(f)
<1> DEFINE g == Claim(s, f, idx)
<1>1. /\ f \in Frame /\ f.count \in 0 .. MaxRpt /\ MaxRpt \in Nat /\ f.used \subseteq In(f)
      /\ In(f) = 0 .. f.count - 1
  BY Bounds DEF Path, Frame, In
<1>2. /\ f.entry \in Addresses /\ Unused(f) \in SUBSET Slots
      /\ Asks(f) \in SUBSET Slots /\ Serves(f) \in SUBSET Slots
      /\ Live(f) = Route(f.entry, Asks(f)) /\ Served(f) = Route(f.entry, Serves(f))
      /\ \A k \in Serves(f), u \in Asks(f) : k < u
      /\ Tokens(f) = {k \in In(f) : Passed(f, k)}
      /\ Asks(f) = {u \in Unused(f) : ~Passed(f, u)}
      /\ Serves(f) = {k \in f.used : ~Passed(f, k)}
  BY ListsAre
<1>3. idx \in Slots /\ idx \in Unused(f) /\ idx \in In(f) /\ idx \notin f.used /\ ~Passed(f, idx)
  BY <1>2 DEF Unused
<1>4. \A u \in Unused(f) : u < idx => Passed(f, u)
  <2> SUFFICES ASSUME NEW u \in Unused(f), u < idx, ~Passed(f, u) PROVE FALSE
    OBVIOUS
  <2>1. u \in Asks(f) /\ u \in Nat /\ idx \in Nat
    BY <1>2, <1>3 DEF Slots
  <2> QED
    BY <2>1
<1>5. Path(g) /\ Decodable(g) /\ g.dst = f.dst /\ g.count = f.count
  BY <1>3, <1>4, ClaimGives DEF Decodable
<1>6. /\ g.used = f.used \cup {idx} /\ g.entry[idx] = Own(s)
      /\ \A k \in Slots \ {idx} : g.entry[k] = f.entry[k]
  BY <1>1, <1>3, ClaimIs
<1> HIDE DEF g
<1>7. /\ g.entry \in Addresses /\ Live(g) = Route(g.entry, Asks(g)) /\ Served(g) = Route(g.entry, Serves(g))
      /\ Tokens(g) = {k \in In(g) : Passed(g, k)}
      /\ Asks(g) = {u \in Unused(g) : ~Passed(g, u)}
      /\ Serves(g) = {k \in g.used : ~Passed(g, k)}
  BY <1>5, ListsAre
<1>8. In(g) = In(f) /\ Unused(g) = Unused(f) \ {idx}
  BY <1>5, <1>6 DEF In, Unused
<1>9. ~Passed(g, idx) /\ \A k \in Slots \ {idx} : Passed(g, k) <=> Passed(f, k)
  <2>1. ~Passed(g, idx)
    BY <1>6, OwnCounts
  <2> QED
    BY <1>6, <2>1 DEF Passed
<1>10. In(f) \subseteq Slots
  BY <1>1 DEF Slots
<1>11. Tokens(g) = Tokens(f)
  BY <1>2, <1>3, <1>7, <1>8, <1>9, <1>10
<1>12. Asks(g) = Asks(f) \ {idx}
  BY <1>2, <1>7, <1>8, <1>9
<1>13. Serves(g) = Serves(f) \cup {idx}
  BY <1>1, <1>2, <1>3, <1>6, <1>7, <1>9, <1>10
<1>14. Live(g) = Route(f.entry, Asks(f) \ {idx})
  <2>1. Asks(f) \ {idx} \in SUBSET Slots /\ \A k \in Asks(f) \ {idx} : g.entry[k] = f.entry[k]
    BY <1>2, <1>6
  <2>2. Route(g.entry, Asks(f) \ {idx}) = Route(f.entry, Asks(f) \ {idx})
    BY <1>2, <1>7, <2>1, RouteSame
  <2> QED
    BY <1>7, <1>12, <2>2
<1>15. Served(g) = Put(Served(f), Own(s))
  <2>1. \A k \in Serves(f) : k < idx /\ g.entry[k] = f.entry[k]
    BY <1>2, <1>3, <1>6
  <2> QED
    BY <1>3, <1>6, <1>7, <1>13, <2>1, SignIs
<1>16. Hops!RemoveAt(Live(f), 1) = Route(f.entry, Asks(f) \ {idx})
  <2>1. Live(f) = Joined(One(f.entry[idx]), Route(f.entry, Asks(f) \ {idx}))
    BY <1>2, HeadIs
  <2>2. f.entry[idx] \in Address /\ Route(f.entry, Asks(f) \ {idx}) \in Seq(Address)
    BY <1>2, <1>3, RouteType DEF Addresses
  <2> QED
    BY <2>1, <2>2, FirstIs
<1>17. Asked(g) < Asked(f)
  <2>1. Unused(f) \ {idx} \in SUBSET Slots /\ \A k \in Unused(f) \ {idx} : g.entry[k] = f.entry[k]
    BY <1>2, <1>6
  <2>2. AskedBy(g.entry, Unused(f) \ {idx}) = AskedBy(f.entry, Unused(f) \ {idx})
    BY <1>2, <1>7, <2>1, AskedSame
  <2>3. /\ AskedBy(f.entry, Unused(f)) = AskedBy(f.entry, Unused(f) \ {idx}) + f.entry[idx].ssid + 1
        /\ f.entry[idx].ssid \in Nat /\ AskedBy(f.entry, Unused(f) \ {idx}) \in Nat
    BY <1>2, <1>3, AskedOff
  <2>4. Asked(g) = AskedBy(f.entry, Unused(f) \ {idx})
    BY <1>8, <2>2 DEF Asked
  <2> QED
    BY <2>3, <2>4 DEF Asked
<1> QED
  BY <1>5, <1>11, <1>14, <1>15, <1>16, <1>17 DEF g

\* Another count on the first live address.
LEMMA RecountHop ==
  ASSUME NEW f, Path(f), Decodable(f), NEW idx \in Asks(f), \A u \in Asks(f) : idx <= u,
         NEW hops \in 0 .. 15
  PROVE  LET g == Recounted(f, idx, hops) IN
         /\ Path(g) /\ Decodable(g) /\ g.dst = f.dst
         /\ Live(g) = FirstWith(Live(f), hops) /\ Served(g) = Served(f)
         /\ Tokens(g) = Tokens(f)
         /\ Asked(g) + f.entry[idx].ssid = Asked(f) + hops
         /\ Asked(g) \in Nat /\ Asked(f) \in Nat /\ f.entry[idx].ssid \in Nat
<1> DEFINE g == Recounted(f, idx, hops)
<1>1. /\ f \in Frame /\ f.count \in 0 .. MaxRpt /\ MaxRpt \in Nat /\ f.used \subseteq In(f)
      /\ In(f) = 0 .. f.count - 1
  BY Bounds DEF Path, Frame, In
<1>2. /\ f.entry \in Addresses /\ Unused(f) \in SUBSET Slots
      /\ Asks(f) \in SUBSET Slots /\ Serves(f) \in SUBSET Slots
      /\ Live(f) = Route(f.entry, Asks(f)) /\ Served(f) = Route(f.entry, Serves(f))
      /\ \A k \in Serves(f), u \in Asks(f) : k < u
      /\ Tokens(f) = {k \in In(f) : Passed(f, k)}
      /\ Asks(f) = {u \in Unused(f) : ~Passed(f, u)}
      /\ Serves(f) = {k \in f.used : ~Passed(f, k)}
  BY ListsAre
<1>3. idx \in Slots /\ idx \in Unused(f) /\ idx \in In(f) /\ idx \notin f.used /\ ~Passed(f, idx)
  BY <1>2 DEF Unused
<1>5. Path(g) /\ Decodable(g) /\ g.dst = f.dst /\ g.count = f.count /\ g.used = f.used
  BY <1>3, SsidGives DEF Decodable
<1>6. /\ \A k \in Slots : g.entry[k].call = f.entry[k].call
      /\ \A k \in Slots \ {idx} : g.entry[k] = f.entry[k]
  BY <1>1, <1>3, SsidIs DEF Recounted
<1>a. g.entry[idx] = WithHops(f.entry[idx], hops)
  BY <1>1, <1>3 DEF Recounted, Frame, WithHops
<1> HIDE DEF g
<1>7. /\ g.entry \in Addresses /\ Live(g) = Route(g.entry, Asks(g)) /\ Served(g) = Route(g.entry, Serves(g))
      /\ Tokens(g) = {k \in In(g) : Passed(g, k)}
      /\ Asks(g) = {u \in Unused(g) : ~Passed(g, u)}
      /\ Serves(g) = {k \in g.used : ~Passed(g, k)}
  BY <1>5, ListsAre
<1>8. In(g) = In(f) /\ Unused(g) = Unused(f)
  BY <1>5 DEF In, Unused
<1>9. \A k \in Slots : Passed(g, k) <=> Passed(f, k)
  BY <1>6 DEF Passed
<1>10. In(f) \subseteq Slots
  BY <1>1 DEF Slots
<1>11. Tokens(g) = Tokens(f)
  BY <1>2, <1>7, <1>8, <1>9, <1>10
<1>12. Asks(g) = Asks(f)
  BY <1>2, <1>7, <1>8, <1>9
<1>13. Serves(g) = Serves(f)
  BY <1>1, <1>2, <1>5, <1>7, <1>9, <1>10
<1> DEFINE rest == Asks(f) \ {idx}
<1>14. Route(g.entry, rest) = Route(f.entry, rest)
  <2>1. rest \in SUBSET Slots /\ \A k \in rest : g.entry[k] = f.entry[k]
    BY <1>2, <1>6
  <2> HIDE DEF rest
  <2> QED
    BY <1>2, <1>7, <2>1, RouteSame
<1>15. Served(g) = Served(f)
  <2>1. \A k \in Serves(f) : g.entry[k] = f.entry[k]
    BY <1>2, <1>3, <1>6
  <2>2. Route(g.entry, Serves(f)) = Route(f.entry, Serves(f))
    BY <1>2, <1>7, <2>1, RouteSame
  <2> QED
    BY <1>2, <1>7, <1>13, <2>2
<1>16. Live(f) = Joined(One(f.entry[idx]), Route(f.entry, rest))
  BY <1>2, HeadIs
<1>17. Live(g) = Joined(One(g.entry[idx]), Route(g.entry, rest))
  BY <1>2, <1>7, <1>12, HeadIs
<1>18. f.entry[idx] \in Address /\ Route(f.entry, rest) \in Seq(Address)
  BY <1>2, <1>3, RouteType DEF Addresses
<1>19. Live(g) = FirstWith(Live(f), hops)
  <2>1. FirstWith(Live(f), hops) = Joined(One(WithHops(f.entry[idx], hops)), Route(f.entry, rest))
    <3> HIDE DEF rest
    <3> QED
      BY <1>16, <1>18, FirstIs
  <2> HIDE DEF rest
  <2> QED
    BY <1>14, <1>17, <1>a, <2>1, Zenon
<1>20. /\ Asked(g) + f.entry[idx].ssid = Asked(f) + hops
       /\ Asked(g) \in Nat /\ Asked(f) \in Nat /\ f.entry[idx].ssid \in Nat
  <2>1. Unused(f) \ {idx} \in SUBSET Slots /\ \A k \in Unused(f) \ {idx} : g.entry[k] = f.entry[k]
    BY <1>2, <1>6
  <2>2. AskedBy(g.entry, Unused(f) \ {idx}) = AskedBy(f.entry, Unused(f) \ {idx})
    BY <1>2, <1>7, <2>1, AskedSame
  <2>3. /\ AskedBy(f.entry, Unused(f)) = AskedBy(f.entry, Unused(f) \ {idx}) + f.entry[idx].ssid + 1
        /\ f.entry[idx].ssid \in Nat /\ AskedBy(f.entry, Unused(f) \ {idx}) \in Nat
    BY <1>2, <1>3, AskedOff
  <2>4. AskedBy(g.entry, Unused(f)) = AskedBy(g.entry, Unused(f) \ {idx}) + g.entry[idx].ssid + 1
    BY <1>2, <1>3, <1>7, AskedOff
  <2>5. g.entry[idx].ssid = hops
    BY <1>18, <1>a DEF Address, WithHops
  <2>6. Asked(g) = AskedBy(g.entry, Unused(f)) /\ Asked(f) = AskedBy(f.entry, Unused(f))
    BY <1>8 DEF Asked
  <2> QED
    BY <2>2, <2>3, <2>4, <2>5, <2>6
<1> QED
  BY <1>5, <1>11, <1>15, <1>19, <1>20 DEF g

\* Where nothing behind is used and two slots are free, all addresses from idx on
\* go one slot further.
LEMMA ShiftFree ==
  ASSUME NEW f \in Frame, NEW idx \in In(f), f.used \subseteq In(f), \A k \in f.used : k < idx,
         f.count + 1 < MaxRpt
  PROVE  LET g == Shifted(f, idx) IN
         /\ g \in Frame /\ g.count = f.count /\ g.dst = f.dst /\ g.used = f.used
         /\ \A k \in 0 .. idx : g.entry[k] = f.entry[k]
         /\ \A k \in idx .. f.count : g.entry[k + 1] = f.entry[k]
<1> DEFINE g == Shifted(f, idx)
           behind == {k \in f.used : k \in idx .. f.count - 1}
           last == IF behind = {} THEN f.count ELSE Min(behind)
           moved == idx + 1 .. last + 1
           entry == [k \in Slots |-> IF k \in moved THEN f.entry[k - 1] ELSE f.entry[k]]
           used == {k \in Slots : (IF k \in moved THEN k - 1 ELSE k) \in f.used}
<1>0. /\ f.count \in 0 .. MaxRpt /\ idx \in 0 .. f.count - 1 /\ MaxRpt \in Nat /\ MaxRpt > 1
      /\ f.used \subseteq 0 .. f.count - 1
  BY Bounds DEF Frame, In
<1>1. behind = {} /\ idx \notin f.used
  BY <1>0
<1>2. last = f.count
  BY <1>1
<1>3. g = IF last + 1 >= MaxRpt THEN f ELSE [f EXCEPT !.entry = entry, !.used = used]
  BY DEF Shifted
<1>4. g \in Frame /\ g.count = f.count /\ g.dst = f.dst /\ (behind = {} => g.used = f.used)
  <2>1. idx \notin f.used /\ f.count < MaxRpt
    BY <1>0, <1>1
  <2> QED
    BY <2>1, ShiftIs
<1> HIDE DEF g, last, behind, used
<1>5. g.entry = entry
  BY <1>0, <1>2, <1>3 DEF Frame
<1>6. \A k \in 0 .. idx : k \in Slots /\ k \notin moved
  BY <1>0, <1>2 DEF Slots
<1>7. \A k \in idx .. f.count : k + 1 \in Slots /\ k + 1 \in moved /\ (k + 1) - 1 = k
  BY <1>0, <1>2 DEF Slots
<1> HIDE DEF moved
<1>8. \A k \in 0 .. idx : g.entry[k] = f.entry[k]
  BY <1>5, <1>6
<1>9. \A k \in idx .. f.count : g.entry[k + 1] = f.entry[k]
  <2> SUFFICES ASSUME NEW k \in idx .. f.count PROVE g.entry[k + 1] = f.entry[k]
    OBVIOUS
  <2>1. g.entry[k + 1] = f.entry[(k + 1) - 1]
    BY <1>5, <1>7
  <2> QED
    BY <1>7, <2>1
<1> QED
  BY <1>1, <1>4, <1>8, <1>9 DEF g

\* The callsign inserted in front of what is live, with two slots free.
LEMMA InsertFree ==
  ASSUME NEW f, Path(f), NEW s \in Stations, NEW idx \in Unused(f), f.count + 1 < MaxRpt,
         \A u \in Unused(f) : u < idx => Passed(f, u), \A k \in f.used : k < idx
  PROVE  LET g == InsertOwn(s, f, idx) IN
         /\ Path(g) /\ g.count = f.count + 1 /\ g.dst = f.dst /\ g.used = f.used \cup {idx}
         /\ g.entry[idx] = Own(s) /\ \A k \in 0 .. idx - 1 : g.entry[k] = f.entry[k]
         /\ \A k \in idx .. f.count : g.entry[k + 1] = f.entry[k]
<1> DEFINE h == Shifted(f, idx)
           m == [h EXCEPT !.count = @ + 1]
           g == InsertOwn(s, f, idx)
<1>a. /\ f \in Frame /\ f.count \in 0 .. MaxRpt /\ f.used \subseteq 0 .. f.count - 1
      /\ idx \in 0 .. f.count - 1 /\ MaxRpt \in Nat
  BY UnusedAre, Bounds DEF Path
<1>1. /\ f \in Frame /\ f.count \in 0 .. MaxRpt /\ f.used \subseteq 0 .. f.count - 1
      /\ idx \in 0 .. f.count - 1 /\ MaxRpt \in Nat /\ f.count < MaxRpt
  BY <1>a
<1>2. idx \in In(f) /\ f.used \subseteq In(f)
  BY <1>1 DEF In
<1>3. /\ h \in Frame /\ h.count = f.count /\ h.dst = f.dst /\ h.used = f.used
      /\ \A k \in 0 .. idx : h.entry[k] = f.entry[k]
      /\ \A k \in idx .. f.count : h.entry[k + 1] = f.entry[k]
  BY <1>1, <1>2, ShiftFree
<1> HIDE DEF h
<1>4. m \in Frame /\ m.entry = h.entry
  BY <1>1, <1>3 DEF Frame
<1>5. g = Claim(s, m, idx)
  BY DEF InsertOwn, m, h
<1>6. /\ Path(g) /\ g.count = f.count + 1 /\ g.dst = f.dst /\ g.used = f.used \cup {idx}
      /\ g.entry[idx] = Own(s)
  BY <1>1, InsertIs
<1> HIDE DEF m, g
<1>7. \A k \in Slots \ {idx} : g.entry[k] = h.entry[k]
  <2>1. idx \in Slots
    BY <1>1 DEF Slots
  <2> QED
    BY <1>4, <1>5, <2>1, ClaimIs
<1>8. \A k \in 0 .. idx - 1 : k \in Slots \ {idx} /\ k \in 0 .. idx
  BY <1>1 DEF Slots
<1>9. \A k \in idx .. f.count : k + 1 \in Slots \ {idx}
  BY <1>1 DEF Slots
<1>10. \A k \in 0 .. idx - 1 : g.entry[k] = f.entry[k]
  BY <1>3, <1>7, <1>8
<1>11. \A k \in idx .. f.count : g.entry[k + 1] = f.entry[k]
  BY <1>3, <1>7, <1>9
<1> QED
  BY <1>6, <1>10, <1>11 DEF g

\* A set and its elements from idx on moved up have as many elements.
LEMMA UpCount ==
  ASSUME NEW S, IsFiniteSet(S), S \subseteq Nat, NEW T, NEW idx \in Nat,
         \A k \in S : (IF k < idx THEN k ELSE k + 1) \in T,
         \A t \in T : \E k \in S : t = IF k < idx THEN k ELSE k + 1
  PROVE  Cardinality(T) = Cardinality(S)
<1> DEFINE up == [k \in S |-> IF k < idx THEN k ELSE k + 1]
<1>1. up \in [S -> T]
  OBVIOUS
<1>2. \A a, b \in S : up[a] = up[b] => a = b
  OBVIOUS
<1>3. \A t \in T : \E k \in S : up[k] = t
  OBVIOUS
<1>4. up \in Bijection(S, T)
  <2> HIDE DEF up
  <2> QED
    BY <1>1, <1>2, <1>3 DEF Bijection, Injection, Surjection, IsInjective
<1>5. ExistsBijection(S, T)
  BY <1>4 DEF ExistsBijection
<1> QED
  BY <1>5, FS_Bijection

LEMMA InsertHop ==
  ASSUME NEW f, Path(f), Decodable(f), NEW s \in Stations, NEW idx \in Unused(f),
         f.count + 1 < MaxRpt,
         \A u \in Unused(f) : u < idx => Passed(f, u), \A k \in f.used : k < idx
  PROVE  LET g == InsertOwn(s, f, idx) IN
         /\ Path(g) /\ Decodable(g) /\ g.dst = f.dst
         /\ Live(g) = Live(f) /\ Served(g) = Put(Served(f), Own(s))
         /\ Cardinality(Tokens(g)) = Cardinality(Tokens(f)) /\ Asked(g) = Asked(f)
         /\ g.entry[idx + 1] = f.entry[idx]
         /\ idx \in Asks(f) => idx + 1 \in Asks(g) /\ \A u \in Asks(g) : idx + 1 <= u
<1> DEFINE g == InsertOwn(s, f, idx)
<1>1. /\ f \in Frame /\ f.count \in 0 .. MaxRpt /\ f.used \subseteq 0 .. f.count - 1
      /\ idx \in 0 .. f.count - 1 /\ MaxRpt \in Nat /\ idx \notin f.used
      /\ Unused(f) \subseteq 0 .. f.count - 1
  BY UnusedAre, Bounds DEF Path
<1>2. /\ f.entry \in Addresses /\ Unused(f) \in SUBSET Slots
      /\ Asks(f) \in SUBSET Slots /\ Serves(f) \in SUBSET Slots
      /\ Live(f) = Route(f.entry, Asks(f)) /\ Served(f) = Route(f.entry, Serves(f))
      /\ Tokens(f) = {k \in In(f) : Passed(f, k)}
      /\ Asks(f) = {u \in Unused(f) : ~Passed(f, u)}
      /\ Serves(f) = {k \in f.used : ~Passed(f, k)}
  BY ListsAre
<1>3. /\ Path(g) /\ g.count = f.count + 1 /\ g.dst = f.dst /\ g.used = f.used \cup {idx}
      /\ g.entry[idx] = Own(s) /\ \A k \in 0 .. idx - 1 : g.entry[k] = f.entry[k]
      /\ \A k \in idx .. f.count : g.entry[k + 1] = f.entry[k]
  BY InsertFree
<1> HIDE DEF g
<1>4. /\ g.entry \in Addresses /\ Live(g) = Route(g.entry, Asks(g)) /\ Served(g) = Route(g.entry, Serves(g))
      /\ Unused(g) \in SUBSET Slots /\ Asks(g) \in SUBSET Slots
      /\ Tokens(g) = {k \in In(g) : Passed(g, k)}
      /\ Asks(g) = {u \in Unused(g) : ~Passed(g, u)}
      /\ Serves(g) = {k \in g.used : ~Passed(g, k)}
  BY <1>3, ListsAre
<1>5. In(f) = 0 .. f.count - 1 /\ In(g) = 0 .. f.count
  BY <1>1, <1>3 DEF In
<1>6. /\ ~Passed(g, idx)
      /\ \A k \in 0 .. idx - 1 : Passed(g, k) <=> Passed(f, k)
      /\ \A k \in idx .. f.count : Passed(g, k + 1) <=> Passed(f, k)
  <2>1. ~Passed(g, idx)
    BY <1>3, OwnCounts
  <2> QED
    BY <1>3, <2>1 DEF Passed
<1>7. Decodable(g)
  <2> SUFFICES ASSUME NEW k \in In(g) PROVE g.entry[k].call # ""
    BY DEF Decodable
  <2>1. \A j \in In(f) : f.entry[j].call # ""
    BY DEF Decodable
  <2>2. CASE k < idx
    <3>1. k \in 0 .. idx - 1 /\ k \in In(f)
      BY <1>1, <1>5, <2>2
    <3> QED
      BY <1>3, <2>1, <3>1
  <2>3. CASE k = idx
    BY <1>3, <2>3, OwnIs
  <2>4. CASE k > idx
    <3>1. k - 1 \in idx .. f.count /\ k - 1 \in In(f) /\ (k - 1) + 1 = k
      BY <1>1, <1>5, <2>4
    <3>2. \A j \in idx .. f.count : g.entry[j + 1] = f.entry[j]
      BY <1>3
    <3>3. g.entry[(k - 1) + 1] = f.entry[k - 1]
      BY <3>1, <3>2
    <3>4. f.entry[k - 1].call # ""
      BY <2>1, <3>1
    <3>5. g.entry[k] = f.entry[k - 1]
      BY <3>1, <3>3
    <3> QED
      BY <3>4, <3>5
  <2>5. k < idx \/ k = idx \/ k > idx
    BY <1>1, <1>5
  <2> QED
    BY <2>2, <2>3, <2>4, <2>5
<1>8. \A k \in f.used : k \in 0 .. idx - 1
  BY <1>1
<1> DEFINE low  == {u \in Unused(f) : u < idx}
           high == {u \in Unused(f) : idx <= u}
           up   == {u \in Slots : idx + 1 <= u /\ u - 1 \in Unused(f)}
<1>9. /\ Unused(f) = low \cup high /\ low \cap high = {} /\ low \in SUBSET Slots /\ high \in SUBSET Slots
      /\ up \in SUBSET Slots /\ low \cap up = {}
  BY <1>1, <1>2
<1>10. \A u \in Slots : u \in Unused(g) <=> u \in low \/ u \in up
  <2> SUFFICES ASSUME NEW u \in Slots PROVE u \in Unused(g) <=> u \in low \/ u \in up
    OBVIOUS
  <2>0. u \in Nat
    BY DEF Slots
  <2>1. u \in Unused(g) <=> u \in 0 .. f.count /\ u \notin f.used /\ u # idx
    BY <1>3, <1>5 DEF Unused
  <2>2. \A v \in Nat : v \in Unused(f) <=> v \in 0 .. f.count - 1 /\ v \notin f.used
    BY <1>5 DEF Unused
  <2>3. CASE u < idx
    BY <1>1, <2>0, <2>1, <2>2, <2>3
  <2>4. CASE u = idx
    BY <1>1, <2>0, <2>1, <2>4
  <2>5. CASE u > idx
    <3>1. u \notin f.used /\ u - 1 \notin f.used /\ u - 1 \in Nat
      BY <1>1, <1>8, <2>0, <2>5
    <3>2. u \in 0 .. f.count <=> u - 1 \in 0 .. f.count - 1
      BY <1>1, <2>0, <2>5
    <3>3. u \in Unused(g) <=> u - 1 \in Unused(f)
      BY <2>1, <2>2, <2>5, <3>1, <3>2
    <3>4. u \notin low /\ (u \in up <=> u - 1 \in Unused(f))
      BY <1>1, <2>0, <2>5
    <3> QED
      BY <3>3, <3>4
  <2> QED
    BY <1>1, <2>0, <2>3, <2>4, <2>5
<1>11. Unused(g) = low \cup up
  <2> HIDE DEF low, up
  <2> QED
    BY <1>4, <1>9, <1>10
<1>12. /\ \A k \in high : k + 1 \in up /\ g.entry[k + 1] = f.entry[k]
       /\ \A t \in up : t - 1 \in high /\ (t - 1) + 1 = t
       /\ \A k \in low : g.entry[k] = f.entry[k]
  <2>1. \A k \in high : k + 1 \in up /\ k \in idx .. f.count
    BY <1>1 DEF Slots
  <2>2. \A t \in up : t - 1 \in high /\ (t - 1) + 1 = t
    BY <1>1 DEF Slots
  <2>3. \A k \in low : k \in 0 .. idx - 1
    BY <1>1
  <2> QED
    BY <1>3, <2>1, <2>2, <2>3
<1>13. Asked(g) = Asked(f)
  <2> HIDE DEF low, high, up
  <2>1. AskedBy(f.entry, low \cup high) = AskedBy(f.entry, low) + AskedBy(f.entry, high)
    BY <1>2, <1>9, AskedJoin
  <2>2. AskedBy(g.entry, low \cup up) = AskedBy(g.entry, low) + AskedBy(g.entry, up)
    BY <1>4, <1>9, AskedJoin
  <2>3. AskedBy(g.entry, low) = AskedBy(f.entry, low)
    BY <1>2, <1>4, <1>9, <1>12, AskedSame
  <2>4. AskedBy(g.entry, up) = AskedBy(f.entry, high)
    <3>1. 1 \in Nat
      OBVIOUS
    <3> QED
      BY <1>2, <1>4, <1>9, <1>12, <3>1, AskedMoved
  <2>5. AskedBy(f.entry, Unused(f)) = AskedBy(f.entry, low) + AskedBy(f.entry, high)
    BY <1>9, <2>1
  <2>6. AskedBy(g.entry, Unused(g)) = AskedBy(g.entry, low) + AskedBy(g.entry, up)
    BY <1>11, <2>2
  <2> QED
    BY <2>3, <2>4, <2>5, <2>6 DEF Asked
<1>14. /\ \A k \in Asks(f) : k \in high /\ k + 1 \in Asks(g) /\ g.entry[k + 1] = f.entry[k]
       /\ \A t \in Asks(g) : t \in up /\ t - 1 \in Asks(f)
  <2>1. \A k \in Asks(f) : k \in high
    BY <1>1, <1>2
  <2>2. \A k \in high : k \in idx .. f.count
    BY <1>1
  <2>3. \A k \in Asks(f) : k + 1 \in Asks(g) /\ g.entry[k + 1] = f.entry[k]
    <3> SUFFICES ASSUME NEW k \in Asks(f) PROVE k + 1 \in Asks(g) /\ g.entry[k + 1] = f.entry[k]
      OBVIOUS
    <3>1. k \in high /\ k \in idx .. f.count /\ ~Passed(f, k)
      BY <1>2, <2>1, <2>2
    <3>2. k + 1 \in up /\ g.entry[k + 1] = f.entry[k]
      BY <1>12, <3>1
    <3>3. ~Passed(g, k + 1)
      BY <1>6, <3>1
    <3> HIDE DEF up, high, low
    <3> QED
      BY <1>4, <1>11, <3>2, <3>3
  <2>4. \A t \in Asks(g) : t \in up /\ t - 1 \in Asks(f)
    <3> SUFFICES ASSUME NEW t \in Asks(g) PROVE t \in up /\ t - 1 \in Asks(f)
      OBVIOUS
    <3>1. (t \in low \/ t \in up) /\ ~Passed(g, t)
      BY <1>4, <1>11
    <3>2. t \notin low
      <4> SUFFICES ASSUME t \in low PROVE FALSE
        OBVIOUS
      <4>1. t \in 0 .. idx - 1 /\ Passed(f, t)
        BY <1>1
      <4> QED
        BY <1>6, <3>1, <4>1
    <3>3. t \in up
      BY <3>1, <3>2
    <3>4. t - 1 \in high /\ t - 1 \in idx .. f.count /\ (t - 1) + 1 = t
      BY <1>1, <1>12, <3>3
    <3>5. ~Passed(f, t - 1)
      BY <1>6, <3>1, <3>4
    <3>6. t - 1 \in Unused(f)
      BY <3>4
    <3> QED
      BY <1>2, <3>3, <3>5, <3>6
  <2> QED
    BY <2>1, <2>3, <2>4
<1>15. Live(g) = Live(f)
  <2> HIDE DEF low, high, up
  <2>1. 1 \in Nat
    OBVIOUS
  <2>2. Route(g.entry, Asks(g)) = Route(f.entry, Asks(f))
    BY <1>2, <1>4, <1>14, <2>1, RouteMoved
  <2> QED
    BY <1>2, <1>4, <2>2
<1>16. Served(g) = Put(Served(f), Own(s))
  <2>1. \A k \in Serves(f) : k < idx /\ g.entry[k] = f.entry[k]
    BY <1>1, <1>2, <1>3, <1>8
  <2>2. Serves(g) = Serves(f) \cup {idx}
    BY <1>2, <1>3, <1>4, <1>6, <1>8
  <2>3. idx \in Slots
    BY <1>1 DEF Slots
  <2> QED
    BY <1>3, <1>4, <2>1, <2>2, <2>3, SignIs
<1>17. Cardinality(Tokens(g)) = Cardinality(Tokens(f))
  <2>1. IsFiniteSet(Tokens(f)) /\ Tokens(f) \subseteq Nat
    <3>1. Tokens(f) \in SUBSET Nat /\ f.count \in Nat /\ \A t \in Tokens(f) : t <= f.count
      BY <1>1, <1>2, <1>5
    <3> QED
      BY <3>1, FS_BoundedSetOfNaturals
  <2>2. \A k \in Tokens(f) : (IF k < idx THEN k ELSE k + 1) \in Tokens(g)
    <3> SUFFICES ASSUME NEW k \in Tokens(f) PROVE (IF k < idx THEN k ELSE k + 1) \in Tokens(g)
      OBVIOUS
    <3>1. k \in 0 .. f.count - 1 /\ Passed(f, k)
      BY <1>2, <1>5
    <3>2. CASE k < idx
      <4>1. k \in 0 .. idx - 1 /\ k \in 0 .. f.count
        BY <1>1, <3>1, <3>2
      <4> QED
        BY <1>4, <1>5, <1>6, <3>1, <3>2, <4>1
    <3>3. CASE ~(k < idx)
      <4>1. k \in idx .. f.count /\ k + 1 \in 0 .. f.count
        BY <1>1, <3>1, <3>3
      <4> QED
        BY <1>4, <1>5, <1>6, <3>1, <3>3, <4>1
    <3> QED
      BY <3>2, <3>3
  <2>3. \A t \in Tokens(g) : \E k \in Tokens(f) : t = IF k < idx THEN k ELSE k + 1
    <3> SUFFICES ASSUME NEW t \in Tokens(g) PROVE \E k \in Tokens(f) : t = IF k < idx THEN k ELSE k + 1
      OBVIOUS
    <3>1. t \in 0 .. f.count /\ Passed(g, t) /\ t # idx
      BY <1>4, <1>5, <1>6
    <3>2. CASE t < idx
      <4>1. t \in 0 .. idx - 1 /\ t \in 0 .. f.count - 1
        BY <1>1, <3>1, <3>2
      <4>2. t \in Tokens(f)
        BY <1>2, <1>5, <1>6, <3>1, <4>1
      <4> QED
        BY <3>2, <4>2
    <3>3. CASE t > idx
      <4>1. t - 1 \in idx .. f.count /\ t - 1 \in 0 .. f.count - 1 /\ (t - 1) + 1 = t /\ ~(t - 1 < idx)
        BY <1>1, <3>1, <3>3
      <4>2. t - 1 \in Tokens(f)
        BY <1>2, <1>5, <1>6, <3>1, <4>1
      <4> QED
        BY <4>1, <4>2
    <3> QED
      BY <1>1, <3>1, <3>2, <3>3
  <2>4. idx \in Nat
    BY <1>1
  <2> QED
    BY <2>1, <2>2, <2>3, <2>4, UpCount
<1>18. g.entry[idx + 1] = f.entry[idx]
  BY <1>1, <1>3
<1>19. idx \in Asks(f) => idx + 1 \in Asks(g) /\ \A u \in Asks(g) : idx + 1 <= u
  <2>1. \A t \in up : idx + 1 <= t
    OBVIOUS
  <2> HIDE DEF low, high, up
  <2> QED
    BY <1>14, <2>1
<1> QED
  BY <1>3, <1>7, <1>13, <1>15, <1>16, <1>17, <1>18, <1>19 DEF g

Marked(f, first, match) == [f EXCEPT !.used = @ \cup PassedOver(first, match)]
Headed(f, match) ==
  [f EXCEPT !.count = f.count - match,
            !.entry = [k \in Slots |-> IF k < f.count - match THEN @[match + k] ELSE @[k]],
            !.used = {k \in 0 .. f.count - match - 1 : match + k \in @}]

\* An explicit route in a path nobody behind the station has served.
LEMMA RouteAround ==
  ASSUME NEW f, Path(f), NEW match \in Asks(f)
  PROVE  LET below == {u \in Asks(f) : u < match}
             above == {u \in Asks(f) : match < u}
         IN \E i \in 1 .. Len(Live(f)) :
              /\ Live(f)[i] = f.entry[match]
              /\ SubSeq(Live(f), i + 1, Len(Live(f))) = Route(f.entry, above)
              /\ SubSeq(Live(f), 1, i - 1) = Route(f.entry, below)
<1> DEFINE below == {u \in Asks(f) : u < match}
           above == {u \in Asks(f) : match < u}
<1>1. f.entry \in Addresses /\ Asks(f) \in SUBSET Slots /\ Live(f) = Route(f.entry, Asks(f))
  BY ListsAre
<1>2. /\ below \in SUBSET Slots /\ above \in SUBSET Slots /\ below \cup {match} \in SUBSET Slots
      /\ {match} \in SUBSET Slots /\ \A u \in Slots : u \in Nat
  BY <1>1 DEF Slots
<1>3. Asks(f) = (below \cup {match}) \cup above
  <2>1. \A u \in Asks(f) : u < match \/ u = match \/ match < u
    BY <1>1, <1>2
  <2> QED
    BY <2>1
<1>4. /\ \A k \in below, t \in {match} : k < t
      /\ \A k \in below \cup {match}, t \in above : k < t
  BY <1>1, <1>2
<1> DEFINE p == Route(f.entry, below)
           q == Route(f.entry, above)
<1>5. Route(f.entry, {match}) = One(f.entry[match])
  BY <1>1, RouteOne
<1> HIDE DEF below, above
<1>6. Route(f.entry, below \cup {match}) = Joined(p, Route(f.entry, {match}))
  BY <1>1, <1>2, <1>4, RouteJoin
<1>7. Route(f.entry, (below \cup {match}) \cup above) = Joined(Route(f.entry, below \cup {match}), q)
  BY <1>1, <1>2, <1>4, RouteJoin
<1>8. Live(f) = Joined(Joined(p, One(f.entry[match])), q)
  BY <1>1, <1>3, <1>5, <1>6, <1>7, Zenon
<1>9. p \in Seq(Address) /\ q \in Seq(Address) /\ f.entry[match] \in Address
  <2>1. f.entry[match] \in Address
    BY <1>1 DEF Addresses
  <2> QED
    BY <1>1, <2>1, RouteType
<1> HIDE DEF p, q
<1>10. Behind(Live(f), f.entry[match], p, q)
  BY <1>8, <1>9, BehindIs
<1> QED
  BY <1>10, Zenon DEF Behind, p, q, below, above

JumpsTo(s, f, g, i) ==
  /\ Live(g) = SubSeq(Live(f), i + 1, Len(Live(f)))
  /\ Served(g) \in {Joined(Joined(Served(f), SubSeq(Live(f), 1, i - 1)), One(Own(s))), One(Own(s))}

LEMMA MarkHop ==
  ASSUME NEW f, Path(f), Decodable(f), NEW s \in Stations, NEW match \in Asks(f),
         NEW first \in Unused(f), first < match, \A u \in Unused(f) : first <= u,
         Path(Claim(s, Marked(f, first, match), match))
  PROVE  LET g == Claim(s, Marked(f, first, match), match) IN
         /\ Decodable(g) /\ g.dst = f.dst /\ Tokens(g) = Tokens(f) /\ Asked(g) < Asked(f)
         /\ \E i \in 1 .. Len(Live(f)) : Live(f)[i] = f.entry[match] /\ JumpsTo(s, f, g, i)
<1> DEFINE m == Marked(f, first, match)
           g == Claim(s, Marked(f, first, match), match)
           below == {u \in Asks(f) : u < match}
           above == {u \in Asks(f) : match < u}
<1>1. /\ f \in Frame /\ f.count \in 0 .. MaxRpt /\ f.used \subseteq 0 .. f.count - 1
      /\ MaxRpt \in Nat /\ Unused(f) \subseteq 0 .. f.count - 1
  BY UnusedAre, Bounds DEF Path
<1>2. /\ f.entry \in Addresses /\ Unused(f) \in SUBSET Slots
      /\ Asks(f) \in SUBSET Slots /\ Serves(f) \in SUBSET Slots
      /\ Served(f) = Route(f.entry, Serves(f))
      /\ \A k \in Serves(f), u \in Asks(f) : k < u
      /\ Tokens(f) = {k \in In(f) : Passed(f, k)}
      /\ Asks(f) = {u \in Unused(f) : ~Passed(f, u)}
      /\ Serves(f) = {k \in f.used : ~Passed(f, k)}
  BY ListsAre
<1>3. /\ match \in 0 .. f.count - 1 /\ first \in 0 .. f.count - 1 /\ match \in Unused(f)
      /\ match \notin f.used /\ ~Passed(f, match)
  BY <1>1, <1>2 DEF Unused
<1>4. /\ m \in Frame /\ m.count = f.count /\ m.dst = f.dst
      /\ m.used = f.used \cup (first .. match) /\ m.entry = f.entry
  <2>1. f.used \cup (first .. match) \in SUBSET Slots
    BY <1>1, <1>3 DEF Slots
  <2> QED
    BY <1>1, <2>1 DEF Marked, Frame, PassedOver
<1> HIDE DEF m
<1>5. /\ g.count = f.count /\ g.dst = f.dst
      /\ g.used = f.used \cup (first .. match)
      /\ g.entry[match] = Own(s)
      /\ \A k \in Slots \ {match} : g.entry[k] = f.entry[k]
  <2>1. match \in Slots
    BY <1>2
  <2>2. m.used \cup {match} = f.used \cup (first .. match)
    BY <1>3, <1>4
  <2> QED
    BY <1>4, <2>1, <2>2, ClaimIs DEF m
<1> HIDE DEF g
<1>6. /\ g.entry \in Addresses /\ Live(g) = Route(g.entry, Asks(g)) /\ Served(g) = Route(g.entry, Serves(g))
      /\ Tokens(g) = {k \in In(g) : Passed(g, k)}
      /\ Asks(g) = {u \in Unused(g) : ~Passed(g, u)}
      /\ Serves(g) = {k \in g.used : ~Passed(g, k)}
  BY ListsAre DEF g
<1>7. /\ In(g) = In(f) /\ In(f) = 0 .. f.count - 1 /\ In(f) \subseteq Slots
  BY <1>1, <1>5 DEF In, Slots
<1>8. ~Passed(g, match) /\ \A k \in Slots \ {match} : Passed(g, k) <=> Passed(f, k)
  <2>1. ~Passed(g, match)
    BY <1>5, OwnCounts
  <2> QED
    BY <1>5, <2>1 DEF Passed
<1>9. \A k \in In(f) : Passed(g, k) <=> Passed(f, k)
  BY <1>3, <1>7, <1>8
<1>10. Tokens(g) = Tokens(f)
  BY <1>2, <1>6, <1>7, <1>9
<1>11. Decodable(g)
  <2> SUFFICES ASSUME NEW k \in In(g) PROVE g.entry[k].call # ""
    BY DEF Decodable
  <2>1. k \in In(f) /\ f.entry[k].call # ""
    BY <1>7 DEF Decodable
  <2>2. CASE k = match
    BY <1>5, <2>2, OwnIs
  <2> QED
    BY <1>5, <1>7, <2>1, <2>2
<1>12. Unused(g) = {u \in Unused(f) : match < u}
  <2>1. \A u \in Unused(f) : u \in Nat /\ (u \notin first .. match <=> match < u)
    BY <1>1, <1>3
  <2>2. Unused(g) = Unused(f) \ (first .. match)
    BY <1>5, <1>7 DEF Unused
  <2> QED
    BY <2>1, <2>2
<1>13. Asks(g) = above
  BY <1>2, <1>6, <1>7, <1>9, <1>12 DEF Unused
<1>14. Serves(g) = (Serves(f) \cup below) \cup {match}
  <2>1. \A k \in g.used : k \in In(f) /\ (k \in f.used \/ (k \in Unused(f) /\ k <= match))
    BY <1>1, <1>3, <1>5, <1>7 DEF Unused
  <2>2. \A k \in Unused(f) : k <= match => k \in first .. match
    BY <1>1, <1>3
  <2>3. \A k \in Unused(f) : k \in Int /\ match \in Int /\ (k <= match <=> k < match \/ k = match)
    BY <1>1, <1>3
  <2>4. ASSUME NEW k \in Serves(g) PROVE k \in (Serves(f) \cup below) \cup {match}
    <3>1. k \in g.used /\ ~Passed(f, k)
      BY <1>6, <1>9, <2>1
    <3>2. CASE k \in f.used
      BY <1>2, <3>1, <3>2
    <3>3. CASE k \in Unused(f) /\ k <= match
      BY <1>2, <2>3, <3>1, <3>3
    <3> QED
      BY <2>1, <3>1, <3>2, <3>3
  <2>5. ASSUME NEW k \in (Serves(f) \cup below) \cup {match} PROVE k \in Serves(g)
    <3>1. CASE k \in Serves(f)
      <4>1. k \in f.used /\ ~Passed(f, k) /\ k \in In(f)
        BY <1>1, <1>2, <1>7, <3>1
      <4> QED
        BY <1>5, <1>6, <1>9, <4>1
    <3>2. CASE k \in below \cup {match}
      <4>1. k \in Unused(f) /\ k <= match /\ ~Passed(f, k) /\ k \in In(f)
        BY <1>1, <1>2, <1>3, <1>7, <2>3, <3>2
      <4>2. k \in g.used
        BY <1>5, <2>2, <4>1
      <4> QED
        BY <1>6, <1>9, <4>1, <4>2
    <3> QED
      BY <2>5, <3>1, <3>2
  <2> HIDE DEF below
  <2> QED
    BY <2>4, <2>5
<1>15. /\ below \in SUBSET Slots /\ above \in SUBSET Slots /\ match \notin below /\ match \notin above
       /\ match \in Slots /\ match \notin Serves(f) /\ \A u \in Slots : u \in Nat
  BY <1>2, <1>3 DEF Slots
<1>16. /\ \A k \in Serves(f), t \in below : k < t
       /\ \A k \in Serves(f) \cup below, t \in {match} : k < t
  BY <1>2
<1> DEFINE p == Route(f.entry, below)
<1>17. Live(g) = Route(f.entry, above)
  <2>1. \A k \in above : g.entry[k] = f.entry[k]
    BY <1>5, <1>15
  <2> HIDE DEF above
  <2>2. Route(g.entry, above) = Route(f.entry, above)
    BY <1>2, <1>6, <1>15, <2>1, RouteSame
  <2> QED
    BY <1>6, <1>13, <2>2
<1>18. Served(g) = Joined(Joined(Served(f), p), One(Own(s)))
  <2>1. \A k \in Serves(f) \cup below : g.entry[k] = f.entry[k]
    BY <1>2, <1>5, <1>15
  <2>2. Route(g.entry, {match}) = One(Own(s))
    BY <1>5, <1>6, <1>15, RouteOne
  <2> HIDE DEF below
  <2>3. Serves(f) \cup below \in SUBSET Slots /\ {match} \in SUBSET Slots
    BY <1>2, <1>15
  <2>4. Route(g.entry, (Serves(f) \cup below) \cup {match})
          = Joined(Route(g.entry, Serves(f) \cup below), Route(g.entry, {match}))
    BY <1>6, <1>16, <2>3, RouteJoin
  <2>5. Route(g.entry, Serves(f) \cup below) = Route(f.entry, Serves(f) \cup below)
    BY <1>2, <1>6, <2>1, <2>3, RouteSame
  <2>6. Route(f.entry, Serves(f) \cup below) = Joined(Route(f.entry, Serves(f)), p)
    BY <1>2, <1>15, <1>16, RouteJoin
  <2> QED
    BY <1>2, <1>6, <1>14, <2>2, <2>4, <2>5, <2>6, Zenon
<1>19. \E i \in 1 .. Len(Live(f)) : Live(f)[i] = f.entry[match] /\ JumpsTo(s, f, g, i)
  <2>1. PICK i \in 1 .. Len(Live(f)) :
              /\ Live(f)[i] = f.entry[match]
              /\ SubSeq(Live(f), i + 1, Len(Live(f))) = Route(f.entry, above)
              /\ SubSeq(Live(f), 1, i - 1) = Route(f.entry, below)
    BY RouteAround
  <2> HIDE DEF below, above
  <2>2. JumpsTo(s, f, g, i)
    BY <1>17, <1>18, <2>1, Zenon DEF JumpsTo
  <2> QED
    BY <2>1, <2>2
<1>20. Asked(g) < Asked(f)
  <2> DEFINE rest == {u \in Unused(f) : match < u}
  <2>1. rest \in SUBSET (Unused(f) \ {match}) /\ rest \in SUBSET Slots
        /\ Unused(f) \ {match} \in SUBSET Slots /\ \A k \in rest : g.entry[k] = f.entry[k]
    BY <1>2, <1>5, <1>15
  <2> HIDE DEF rest
  <2>2. AskedBy(g.entry, rest) = AskedBy(f.entry, rest)
    BY <1>2, <1>6, <2>1, AskedSame
  <2>3. AskedBy(f.entry, rest) <= AskedBy(f.entry, Unused(f) \ {match})
    BY <1>2, <2>1, AskedFewer
  <2>4. /\ AskedBy(f.entry, Unused(f)) = AskedBy(f.entry, Unused(f) \ {match}) + f.entry[match].ssid + 1
        /\ f.entry[match].ssid \in Nat /\ AskedBy(f.entry, Unused(f) \ {match}) \in Nat
    BY <1>2, <1>3, AskedOff
  <2>5. Asked(g) = AskedBy(f.entry, rest) /\ Asked(f) = AskedBy(f.entry, Unused(f))
    BY <1>12, <2>2 DEF Asked, rest
  <2>6. AskedBy(f.entry, rest) \in Nat
    BY <1>2, AskedType
  <2> QED
    BY <2>3, <2>4, <2>5, <2>6
<1> QED
  BY <1>5, <1>10, <1>11, <1>19, <1>20 DEF g

\* An explicit route that throws away what stands in front of the station.
LEMMA DiscardHop ==
  ASSUME NEW f, Path(f), Decodable(f), NEW s \in Stations, NEW match \in Asks(f)
  PROVE  LET g == Claim(s, Headed(f, match), 0) IN
         /\ Path(g) /\ InOrder(g) /\ Decodable(g) /\ g.dst = f.dst /\ Asked(g) < Asked(f)
         /\ \E i \in 1 .. Len(Live(f)) : Live(f)[i] = f.entry[match] /\ JumpsTo(s, f, g, i)
<1> DEFINE h == Headed(f, match)
           g == Claim(s, Headed(f, match), 0)
           kept == f.count - match
           entry == [k \in Slots |-> IF k < kept THEN f.entry[match + k] ELSE f.entry[k]]
           above == {u \in Asks(f) : match < u}
           below == {u \in Asks(f) : u < match}
           rest == {u \in Unused(f) : match < u}
<1>1. /\ f \in Frame /\ f.count \in 0 .. MaxRpt /\ f.used \subseteq 0 .. f.count - 1
      /\ MaxRpt \in Nat /\ Unused(f) \subseteq 0 .. f.count - 1
  BY UnusedAre, Bounds DEF Path
<1>2. /\ f.entry \in Addresses /\ Unused(f) \in SUBSET Slots
      /\ Asks(f) \in SUBSET Slots /\ Serves(f) \in SUBSET Slots
      /\ Asks(f) = {u \in Unused(f) : ~Passed(f, u)}
  BY ListsAre
<1>3. match \in 0 .. f.count - 1 /\ match \in Unused(f) /\ ~Passed(f, match) /\ match \in Nat
  BY <1>1, <1>2
<1>4. \A k \in f.used : k < match
  BY <1>3 DEF Path
<1>5. kept \in 1 .. MaxRpt
  BY <1>1, <1>3
<1>6. {k \in 0 .. f.count - match - 1 : match + k \in f.used} = {}
  <2> SUFFICES ASSUME NEW k \in 0 .. f.count - match - 1, match + k \in f.used PROVE FALSE
    OBVIOUS
  <2>1. match + k < match
    BY <1>4
  <2> QED
    BY <1>1, <1>3, <2>1
<1>7. entry \in Addresses
  <2>1. \A k \in Slots : k < kept => match + k \in Slots
    BY <1>1, <1>3 DEF Slots
  <2> HIDE DEF kept
  <2> QED
    BY <1>2, <2>1 DEF Addresses
<1>8. h = [f EXCEPT !.count = kept, !.entry = entry, !.used = {}]
  BY <1>6 DEF Headed
<1> HIDE DEF h, entry
<1>9. h \in Frame /\ h.count = kept /\ h.dst = f.dst /\ h.used = {} /\ h.entry = entry
  <2>1. kept \in 0 .. MaxRpt
    BY <1>1, <1>5
  <2> HIDE DEF kept
  <2> QED
    BY <1>1, <1>7, <1>8, <2>1 DEF Frame, Addresses
<1>10. 0 \in Slots
  BY Bounds DEF Slots
<1>11. /\ g \in Frame /\ g.count = kept /\ g.dst = f.dst /\ g.used = {0} /\ g.entry[0] = Own(s)
       /\ \A k \in Slots \ {0} : g.entry[k] = entry[k]
  BY <1>9, <1>10, ClaimIs DEF h
<1> HIDE DEF g
<1>12. /\ In(g) = 0 .. kept - 1 /\ 0 \in In(g) /\ Unused(g) = (0 .. kept - 1) \ {0}
       /\ In(g) \subseteq Slots
  BY <1>1, <1>5, <1>11 DEF In, Unused, Slots
<1>13. \A k \in (0 .. kept - 1) \ {0} : /\ k \in Slots /\ k + match \in 0 .. f.count - 1
                                       /\ g.entry[k] = f.entry[k + match]
  <2>1. \A k \in (0 .. kept - 1) \ {0} : k \in Slots /\ k < kept /\ match + k = k + match
    BY <1>1, <1>3, <1>5 DEF Slots
  <2>2. \A k \in 0 .. kept - 1 : k + match \in 0 .. f.count - 1
    BY <1>1, <1>3, <1>5
  <2>3. \A k \in (0 .. kept - 1) \ {0} : g.entry[k] = entry[k]
    BY <1>11, <2>1
  <2> HIDE DEF kept
  <2> QED
    BY <2>1, <2>2, <2>3 DEF entry
<1>14. ASSUME NEW u \in Unused(g)
       PROVE  /\ u \in Nat /\ 0 < u /\ u + match \in Unused(f) /\ match < u + match
              /\ g.entry[u] = f.entry[u + match] /\ (Passed(g, u) <=> Passed(f, u + match))
  <2>1. u \in (0 .. kept - 1) \ {0} /\ u \in Nat /\ 0 < u /\ match < u + match
    BY <1>3, <1>5, <1>12
  <2>2. u + match \in 0 .. f.count - 1 /\ g.entry[u] = f.entry[u + match]
    BY <1>13, <2>1
  <2>3. u + match \notin f.used
    <3> SUFFICES ASSUME u + match \in f.used PROVE FALSE
      OBVIOUS
    <3>1. u + match < match
      BY <1>4
    <3> QED
      BY <1>3, <2>1, <3>1
  <2> QED
    BY <2>1, <2>2, <2>3 DEF Unused, In, Passed
<1>15. InOrder(g)
  BY <1>11, <1>14 DEF InOrder
<1>16. Path(g)
  <2>1. \A k \in g.used : g.entry[k].call # ""
    BY <1>11, OwnIs
  <2> QED
    BY <1>11, <1>12, <1>15, <2>1 DEF Path, InOrder
<1>17. Decodable(g)
  <2> SUFFICES ASSUME NEW k \in In(g) PROVE g.entry[k].call # ""
    BY DEF Decodable
  <2>1. CASE k = 0
    BY <1>11, <2>1, OwnIs
  <2>2. CASE k # 0
    <3>1. k + match \in In(f) /\ g.entry[k] = f.entry[k + match]
      BY <1>12, <1>13, <2>2 DEF In
    <3> QED
      BY <3>1 DEF Decodable
  <2> QED
    BY <2>1, <2>2
<1>18. /\ g.entry \in Addresses /\ Unused(g) \in SUBSET Slots /\ Asks(g) \in SUBSET Slots
       /\ Live(g) = Route(g.entry, Asks(g)) /\ Served(g) = Route(g.entry, Serves(g))
       /\ Asks(g) = {u \in Unused(g) : ~Passed(g, u)}
       /\ Serves(g) = {k \in g.used : ~Passed(g, k)}
  BY <1>16, ListsAre
<1>19. above \in SUBSET Slots /\ rest \in SUBSET Slots
  BY <1>2
<1>20. ASSUME NEW u \in rest
       PROVE  u - match \in Unused(g) /\ (u - match) + match = u
  <2>1. u \in 0 .. f.count - 1 /\ match < u
    BY <1>1
  <2> QED
    BY <1>1, <1>3, <1>12, <2>1
<1>21. Live(g) = Route(f.entry, above)
  <2>1. \A k \in Asks(g) : k + match \in above /\ f.entry[k + match] = g.entry[k]
    BY <1>2, <1>14, <1>18
  <2>2. \A u \in above : u - match \in Asks(g)
    BY <1>2, <1>14, <1>18, <1>20
  <2> HIDE DEF above
  <2>3. Route(f.entry, above) = Route(g.entry, Asks(g))
    <3>1. PICK S : S = Asks(g)
      OBVIOUS
    <3>2. S \in SUBSET Slots
      BY <1>18, <3>1
    <3>3. \A k \in S : k + match \in above /\ f.entry[k + match] = g.entry[k]
      BY <2>1, <3>1
    <3>4. \A t \in above : t - match \in S
      BY <2>2, <3>1
    <3>5. Route(f.entry, above) = Route(g.entry, S)
      BY <1>2, <1>3, <1>18, <1>19, <3>2, <3>3, <3>4, RouteMoved
    <3> QED
      BY <3>1, <3>5
  <2> QED
    BY <1>18, <2>3
<1>22. Served(g) = One(Own(s))
  <2>1. ~Passed(g, 0)
    BY <1>11, OwnCounts
  <2>2. Serves(g) = {0}
    BY <1>11, <1>18, <2>1
  <2>3. Route(g.entry, {0}) = One(g.entry[0])
    BY <1>10, <1>18, RouteOne
  <2> QED
    BY <1>11, <1>18, <2>2, <2>3
<1>23. \E i \in 1 .. Len(Live(f)) : Live(f)[i] = f.entry[match] /\ JumpsTo(s, f, g, i)
  <2>1. PICK i \in 1 .. Len(Live(f)) :
              /\ Live(f)[i] = f.entry[match]
              /\ SubSeq(Live(f), i + 1, Len(Live(f))) = Route(f.entry, above)
              /\ SubSeq(Live(f), 1, i - 1) = Route(f.entry, below)
    BY RouteAround
  <2> HIDE DEF below, above
  <2>2. JumpsTo(s, f, g, i)
    BY <1>21, <1>22, <2>1, Zenon DEF JumpsTo
  <2> QED
    BY <2>1, <2>2
<1>24. Asked(g) < Asked(f)
  <2>1. \A k \in Unused(g) : k + match \in rest /\ f.entry[k + match] = g.entry[k]
    BY <1>14
  <2>2. \A u \in rest : u - match \in Unused(g)
    BY <1>20
  <2>3. rest \in SUBSET (Unused(f) \ {match}) /\ Unused(f) \ {match} \in SUBSET Slots
    BY <1>2, <1>3
  <2> HIDE DEF rest
  <2>4. AskedBy(f.entry, rest) = AskedBy(g.entry, Unused(g))
    <3>1. PICK S : S = Unused(g)
      OBVIOUS
    <3>2. S \in SUBSET Slots
      BY <1>18, <3>1
    <3>3. \A k \in S : k + match \in rest /\ f.entry[k + match] = g.entry[k]
      BY <2>1, <3>1
    <3>4. \A t \in rest : t - match \in S
      BY <2>2, <3>1
    <3>5. AskedBy(f.entry, rest) = AskedBy(g.entry, S)
      BY <1>2, <1>3, <1>18, <1>19, <3>2, <3>3, <3>4, AskedMoved
    <3> QED
      BY <3>1, <3>5
  <2>5. AskedBy(f.entry, rest) <= AskedBy(f.entry, Unused(f) \ {match})
    BY <1>2, <2>3, AskedFewer
  <2>6. /\ AskedBy(f.entry, Unused(f)) = AskedBy(f.entry, Unused(f) \ {match}) + f.entry[match].ssid + 1
        /\ f.entry[match].ssid \in Nat /\ AskedBy(f.entry, Unused(f) \ {match}) \in Nat
    BY <1>2, <1>3, AskedOff
  <2>7. Asked(g) = AskedBy(f.entry, rest) /\ Asked(f) = AskedBy(f.entry, Unused(f))
    BY <2>4 DEF Asked
  <2>8. AskedBy(f.entry, rest) \in Nat
    BY <1>2, AskedType
  <2> QED
    BY <2>5, <2>6, <2>7, <2>8
<1> QED
  BY <1>11, <1>15, <1>16, <1>17, <1>23, <1>24 DEF g

-----------------------------------------------------------------------------
(* A path with one slot left: what it can still ask for *)

\* Past the count there is nothing.
Cleared(f) == \A k \in Slots : k >= f.count => f.entry[k] = Empty

LEMMA NothingAsked == Empty.call = "" /\ Empty.ssid = 0
<1>1. Empty.ssid = 0
  BY DEF Empty
<1> QED
  BY <1>1, EmptyIs

LEMMA RecountAsks ==
  ASSUME NEW g, Path(g), NEW j \in Unused(g), NEW hops \in 0 .. 15
  PROVE  LET h == Recounted(g, j, hops) IN
         /\ Asked(h) + g.entry[j].ssid = Asked(g) + hops
         /\ Asked(h) \in Nat /\ Asked(g) \in Nat /\ g.entry[j].ssid \in Nat
<1> DEFINE h == Recounted(g, j, hops)
<1>1. g \in Frame /\ g.entry \in Addresses /\ Unused(g) \in SUBSET Slots /\ j \in Slots /\ j \notin g.used
  BY ListsAre DEF Path, Unused
<1>2. Path(h) /\ h.count = g.count /\ h.used = g.used
  BY <1>1, SsidGives
<1>3. \A k \in Slots \ {j} : h.entry[k] = g.entry[k]
  BY <1>1, SsidIs DEF Recounted
<1>4. h.entry[j] = WithHops(g.entry[j], hops)
  BY <1>1 DEF Recounted, Frame, WithHops
<1> HIDE DEF h
<1>5. h.entry \in Addresses
  BY <1>2, ListsAre
<1>6. Unused(h) = Unused(g)
  BY <1>2 DEF Unused, In
<1>7. Unused(g) \ {j} \in SUBSET Slots /\ \A k \in Unused(g) \ {j} : h.entry[k] = g.entry[k]
  BY <1>1, <1>3
<1>8. AskedBy(h.entry, Unused(g) \ {j}) = AskedBy(g.entry, Unused(g) \ {j})
  BY <1>1, <1>5, <1>7, AskedSame
<1>9. /\ AskedBy(g.entry, Unused(g)) = AskedBy(g.entry, Unused(g) \ {j}) + g.entry[j].ssid + 1
      /\ g.entry[j].ssid \in Nat /\ AskedBy(g.entry, Unused(g) \ {j}) \in Nat
  BY <1>1, AskedOff
<1>10. AskedBy(h.entry, Unused(g)) = AskedBy(h.entry, Unused(g) \ {j}) + h.entry[j].ssid + 1
  BY <1>1, <1>5, AskedOff
<1>11. h.entry[j].ssid = hops
  <2>1. g.entry[j] \in Address
    BY <1>1 DEF Addresses
  <2> QED
    BY <1>4, <2>1 DEF Address, WithHops
<1>12. Asked(h) = AskedBy(h.entry, Unused(g)) /\ Asked(g) = AskedBy(g.entry, Unused(g))
  BY <1>6 DEF Asked
<1> QED
  BY <1>8, <1>9, <1>10, <1>11, <1>12 DEF h

\* What is received asks for no more, and for one less when the last address was
\* nameless and without a count.
LEMMA AirAsks ==
  ASSUME NEW g, Path(g)
  PROVE  /\ Asked(OnAir(g)) <= Asked(g) /\ Asked(OnAir(g)) \in Nat /\ Asked(g) \in Nat
         /\ (g.count > 0 /\ g.entry[g.count - 1] = Empty) => Asked(OnAir(g)) + 1 = Asked(g)
<1> DEFINE gone == g.count > 0 /\ g.entry[g.count - 1] = Empty
           sent == IF gone THEN g.count - 1 ELSE g.count
           entry == [k \in Slots |-> IF k < sent THEN g.entry[k] ELSE Empty]
           h == OnAir(g)
<1>1. /\ g \in Frame /\ g.count \in 0 .. MaxRpt /\ g.used \subseteq 0 .. g.count - 1
      /\ MaxRpt \in Nat /\ Unused(g) = (0 .. g.count - 1) \ g.used
  BY UnusedAre, Bounds DEF Path, Unused, In
<1>2. h = [g EXCEPT !.count = sent, !.entry = entry]
  BY DEF OnAir
<1>3. sent \in 0 .. MaxRpt
  BY <1>1
<1> HIDE DEF gone, sent, entry, h
<1>4. h.count = sent /\ h.used = g.used /\ h.entry = entry
  BY <1>1, <1>2 DEF Frame
<1>5. Path(h)
  BY AirIs DEF h
<1>6. /\ g.entry \in Addresses /\ h.entry \in Addresses
      /\ Unused(g) \in SUBSET Slots /\ Unused(h) \in SUBSET Slots
  BY <1>5, ListsAre
<1>7. Unused(h) = {u \in Unused(g) : u < sent}
  <2>1. sent <= g.count
    BY <1>1 DEF sent
  <2>2. In(h) = 0 .. sent - 1
    BY <1>4 DEF In
  <2> QED
    BY <1>1, <1>3, <1>4, <2>1, <2>2 DEF Unused
<1>8. \A u \in Unused(h) : h.entry[u] = g.entry[u]
  BY <1>4, <1>6, <1>7 DEF entry
<1>9. AskedBy(h.entry, Unused(h)) = AskedBy(g.entry, Unused(h))
  BY <1>6, <1>8, AskedSame
<1>10. Asked(h) = AskedBy(g.entry, Unused(h)) /\ Asked(g) = AskedBy(g.entry, Unused(g))
  BY <1>9 DEF Asked
<1>11. Asked(h) \in Nat /\ Asked(g) \in Nat
  BY <1>6, <1>10, AskedType
<1>12. Asked(h) <= Asked(g)
  BY <1>6, <1>7, <1>10, AskedFewer
<1>13. ASSUME gone PROVE Asked(h) + 1 = Asked(g)
  <2>1. g.count > 0 /\ g.entry[g.count - 1] = Empty /\ sent = g.count - 1
    BY <1>13 DEF gone, sent
  <2>2. g.entry[g.count - 1].call = "" /\ g.entry[g.count - 1].ssid = 0
    BY <2>1, NothingAsked
  <2>3. g.count - 1 \notin g.used
    BY <2>2 DEF Path
  <2>4. g.count - 1 \in Unused(g) /\ Unused(h) = Unused(g) \ {g.count - 1}
    BY <1>1, <1>7, <2>1, <2>3
  <2>5. AskedBy(g.entry, Unused(g))
          = AskedBy(g.entry, Unused(g) \ {g.count - 1}) + g.entry[g.count - 1].ssid + 1
    BY <1>6, <2>4, AskedOff
  <2>6. AskedBy(g.entry, Unused(g)) = AskedBy(g.entry, Unused(h)) + 0 + 1
    BY <2>2, <2>4, <2>5
  <2> QED
    BY <1>10, <1>11, <2>6
<1> QED
  BY <1>11, <1>12, <1>13 DEF gone, h

\* In a path with one slot left the callsign takes the place of an address, and
\* the last slot stays as it was.
LEMMA TightInsert ==
  ASSUME NEW f, Path(f), Cleared(f), NEW s \in Stations, NEW idx \in Unused(f),
         f.count + 1 = MaxRpt,
         \A u \in Unused(f) : u < idx => Passed(f, u), \A k \in f.used : k < idx
  PROVE  LET g == InsertOwn(s, f, idx) IN
         /\ Path(g) /\ g.count = f.count + 1 /\ g.dst = f.dst /\ g.used = f.used \cup {idx}
         /\ g.entry[f.count] = Empty
         /\ \A k \in Slots \ {idx} : g.entry[k] = f.entry[k]
         /\ Unused(g) = (Unused(f) \ {idx}) \cup {f.count} /\ f.count \notin Unused(f)
         /\ Asked(g) + f.entry[idx].ssid = Asked(f)
         /\ Asked(g) \in Nat /\ Asked(f) \in Nat /\ f.entry[idx].ssid \in Nat
<1> DEFINE m == [f EXCEPT !.count = f.count + 1]
           g == InsertOwn(s, f, idx)
           behind == {k \in f.used : k \in idx .. f.count - 1}
           last == IF behind = {} THEN f.count ELSE Min(behind)
           moved == idx + 1 .. last + 1
<1>1. /\ f \in Frame /\ f.count \in 0 .. MaxRpt /\ f.used \subseteq 0 .. f.count - 1
      /\ idx \in 0 .. f.count - 1 /\ MaxRpt \in Nat /\ idx \notin f.used
      /\ Unused(f) = (0 .. f.count - 1) \ f.used
  BY UnusedAre, Bounds DEF Path, Unused, In
<1>2. idx \in Slots /\ f.count \in Slots /\ f.count # idx
  BY <1>1 DEF Slots
<1>3. Shifted(f, idx) = f
  <2>1. behind = {}
    BY <1>1
  <2>2. last + 1 >= MaxRpt
    BY <1>1, <2>1
  <2>3. Shifted(f, idx) =
          IF last + 1 >= MaxRpt THEN f
          ELSE [f EXCEPT !.entry = [k \in Slots |-> IF k \in moved THEN @[k - 1] ELSE @[k]],
                         !.used = {k \in Slots : (IF k \in moved THEN k - 1 ELSE k) \in @}]
    BY DEF Shifted
  <2> HIDE DEF last, moved
  <2> QED
    BY <2>2, <2>3
<1>4. g = Claim(s, m, idx)
  BY <1>3 DEF InsertOwn
<1>5. m \in Frame /\ m.entry = f.entry
  <2>1. f.count + 1 \in 0 .. MaxRpt
    BY <1>1
  <2> QED
    BY <1>1, <2>1 DEF Frame
<1>6. /\ Path(g) /\ g.count = f.count + 1 /\ g.dst = f.dst /\ g.used = f.used \cup {idx}
      /\ g.entry[idx] = Own(s)
  <2>1. f.count < MaxRpt
    BY <1>1
  <2> QED
    BY <2>1, InsertIs
<1> HIDE DEF m, g
<1>7. \A k \in Slots \ {idx} : g.entry[k] = f.entry[k]
  BY <1>2, <1>4, <1>5, ClaimIs
<1>8. g.entry[f.count] = Empty
  BY <1>1, <1>2, <1>7 DEF Cleared
<1>9. Unused(g) = (Unused(f) \ {idx}) \cup {f.count} /\ f.count \notin Unused(f)
  <2>1. In(g) = 0 .. f.count
    BY <1>1, <1>6 DEF In
  <2>2. 0 .. f.count = (0 .. f.count - 1) \cup {f.count}
    BY <1>1
  <2>3. f.count \notin g.used
    BY <1>1, <1>2, <1>6
  <2>4. f.count \notin 0 .. f.count - 1
    BY <1>1
  <2> QED
    BY <1>1, <1>6, <2>1, <2>2, <2>3, <2>4 DEF Unused
<1> DEFINE rest == Unused(f) \ {idx}
<1>10. /\ f.entry \in Addresses /\ g.entry \in Addresses /\ Unused(f) \in SUBSET Slots
       /\ Unused(g) \in SUBSET Slots /\ rest \in SUBSET Slots
  BY <1>6, ListsAre
<1>11. AskedBy(g.entry, rest) = AskedBy(f.entry, rest)
  <2>1. \A k \in rest : g.entry[k] = f.entry[k]
    BY <1>7, <1>10
  <2> HIDE DEF rest
  <2> QED
    BY <1>10, <2>1, AskedSame
<1>12. /\ AskedBy(f.entry, Unused(f)) = AskedBy(f.entry, rest) + f.entry[idx].ssid + 1
       /\ f.entry[idx].ssid \in Nat /\ AskedBy(f.entry, rest) \in Nat
  BY <1>10, AskedOff
<1>13. AskedBy(g.entry, Unused(g)) = AskedBy(g.entry, rest) + 0 + 1
  <2>1. Unused(g) \ {f.count} = rest /\ f.count \in Unused(g)
    BY <1>9
  <2>2. AskedBy(g.entry, Unused(g)) = AskedBy(g.entry, Unused(g) \ {f.count}) + g.entry[f.count].ssid + 1
    BY <1>10, <2>1, AskedOff
  <2>3. g.entry[f.count].ssid = 0
    BY <1>8, NothingAsked
  <2> HIDE DEF rest
  <2> QED
    BY <2>1, <2>2, <2>3
<1>14. Asked(g) = AskedBy(g.entry, Unused(g)) /\ Asked(f) = AskedBy(f.entry, Unused(f))
  BY DEF Asked
<1>15. Asked(g) + f.entry[idx].ssid = Asked(f) /\ Asked(g) \in Nat /\ Asked(f) \in Nat
  <2> HIDE DEF rest
  <2> QED
    BY <1>11, <1>12, <1>13, <1>14
<1> QED
  BY <1>6, <1>7, <1>8, <1>9, <1>12, <1>15 DEF g

\* It leaves no more to ask for, and less when the address behind it gets what is
\* left of the count.
LEMMA TightAsks ==
  ASSUME NEW f, Path(f), Cleared(f), NEW s \in Stations, NEW idx \in Unused(f),
         f.count + 1 = MaxRpt,
         \A u \in Unused(f) : u < idx => Passed(f, u), \A k \in f.used : k < idx
  PROVE  LET g == InsertOwn(s, f, idx) IN
         /\ Asked(OnAir(g)) < Asked(f)
         /\ \A n \in 0 .. 15 : n < f.entry[idx].ssid =>
              /\ Path(Recounted(g, idx + 1, n))
              /\ Asked(OnAir(Recounted(g, idx + 1, n))) < Asked(f)
<1> DEFINE g == InsertOwn(s, f, idx)
<1>1. /\ Path(g) /\ g.count = f.count + 1 /\ g.used = f.used \cup {idx}
      /\ g.entry[f.count] = Empty
      /\ \A k \in Slots \ {idx} : g.entry[k] = f.entry[k]
      /\ Unused(g) = (Unused(f) \ {idx}) \cup {f.count} /\ f.count \notin Unused(f)
      /\ Asked(g) + f.entry[idx].ssid = Asked(f)
      /\ Asked(g) \in Nat /\ Asked(f) \in Nat /\ f.entry[idx].ssid \in Nat
  BY TightInsert
<1> HIDE DEF g
<1>2. /\ idx \in 0 .. f.count - 1 /\ f.count \in Nat /\ MaxRpt \in Nat
      /\ f.used \subseteq 0 .. f.count - 1
  <2>1. f.count \in 0 .. MaxRpt /\ f.used \subseteq 0 .. f.count - 1 /\ Unused(f) \subseteq 0 .. f.count - 1
    BY UnusedAre
  <2> QED
    BY <2>1, Bounds
<1>3. Asked(OnAir(g)) < Asked(f)
  <2>1. g.count > 0 /\ g.count - 1 = f.count
    BY <1>1, <1>2
  <2>2. Asked(OnAir(g)) + 1 = Asked(g) /\ Asked(OnAir(g)) \in Nat
    BY <1>1, <2>1, AirAsks
  <2> QED
    BY <1>1, <2>2
<1>4. ASSUME NEW n \in 0 .. 15, n < f.entry[idx].ssid
      PROVE  /\ Path(Recounted(g, idx + 1, n))
             /\ Asked(OnAir(Recounted(g, idx + 1, n))) < Asked(f)
  <2> DEFINE h == Recounted(g, idx + 1, n)
  <2>1. idx + 1 \in Slots /\ idx + 1 \notin g.used /\ idx + 1 \in Unused(g)
    <3>1. idx + 1 \in 0 .. f.count /\ idx + 1 \in Slots
      BY <1>2 DEF Slots
    <3>2. idx + 1 \notin g.used
      BY <1>1, <1>2
    <3>3. In(g) = 0 .. f.count
      BY <1>1, <1>2 DEF In
    <3> QED
      BY <3>1, <3>2, <3>3 DEF Unused
  <2>2. Path(h) /\ h.count = g.count
    BY <1>1, <2>1, SsidGives
  <2>3. Asked(h) + g.entry[idx + 1].ssid = Asked(g) + n /\ Asked(h) \in Nat /\ g.entry[idx + 1].ssid \in Nat
    BY <1>1, <2>1, RecountAsks
  <2>4. \A k \in Slots \ {idx + 1} : h.entry[k] = g.entry[k]
    <3>1. g \in Frame
      BY <1>1 DEF Path
    <3> QED
      BY <2>1, <3>1, SsidIs DEF Recounted
  <2> HIDE DEF h
  <2>5. Asked(OnAir(h)) <= Asked(h) /\ Asked(OnAir(h)) \in Nat
    BY <2>2, AirAsks
  <2>6. Asked(OnAir(h)) < Asked(f)
    BY <1>1, <1>4, <2>3, <2>5
  <2> QED
    BY <2>2, <2>6 DEF h
<1> QED
  BY <1>3, <1>4 DEF g

-----------------------------------------------------------------------------
(* A hop of the promise, as a relation of two paths *)

ServesFirst(s, f, g) ==
  /\ 1 \in DOMAIN Live(f) /\ Hops!Alias(Live(f)[1]) /\ Hops!HopsOf(Live(f)[1]) <= 1
  /\ Served(g) = Put(Served(f), Own(s)) /\ Live(g) = Hops!RemoveAt(Live(f), 1)
SpendsFirst(s, f, g) ==
  /\ 1 \in DOMAIN Live(f) /\ Hops!Alias(Live(f)[1]) /\ Hops!HopsOf(Live(f)[1]) > 1
  /\ Live(g) = FirstWith(Live(f), Hops!HopsOf(Live(f)[1]) - 1)
  /\ Served(g) = IF Live(f)[1].call \in Network.traced THEN Put(Served(f), Own(s)) ELSE Served(f)
Place(s, a) == a \in {Own(s)} \cup [call : Network.fixed, ssid : {0}]
JumpsAhead(s, f, g) == \E i \in 1 .. Len(Live(f)) : Place(s, Live(f)[i]) /\ JumpsTo(s, f, g, i)
SpendsDest(s, f, g) ==
  /\ f.dst \in 1 .. 7 /\ g.dst = f.dst - 1
  /\ Served(g) = Put(Served(f), Own(s)) /\ Live(g) = Live(f)
Promised(s, f, g) ==
  \/ g.dst = f.dst /\ (ServesFirst(s, f, g) \/ SpendsFirst(s, f, g) \/ JumpsAhead(s, f, g))
  \/ SpendsDest(s, f, g)

SameTokens(f, g) == page.preempt # "discard" => Cardinality(Tokens(g)) = Cardinality(Tokens(f))

\* A hop: it leaves less to ask for, and unless one slot was left it is one of the
\* promise and keeps the gate tokens.
Kept(s, f, g) ==
  /\ Budget(OnAir(g)) < Budget(f)
  /\ f.count + 1 # MaxRpt => Path(g) /\ Decodable(g) /\ Promised(s, f, g) /\ SameTokens(f, g)

LEMMA LessAsked ==
  ASSUME NEW f, Path(f), NEW g, g.dst = f.dst, Asked(g) < Asked(f), Asked(g) \in Nat, Asked(f) \in Nat
  PROVE  Budget(g) < Budget(f)
<1>1. f.dst \in Nat
  <2>1. f.dst \in 0 .. MaxDest
    BY DEF Path, Frame
  <2> QED
    BY <2>1, Bounds
<1>2. /\ Budget(f) = Asked(f) + (IF page.dest THEN f.dst ELSE 0)
      /\ Budget(g) = Asked(g) + (IF page.dest THEN g.dst ELSE 0)
  BY DEF Budget, Asked
<1> QED
  BY <1>1, <1>2

LEMMA AskedNat == \A f : Path(f) => Asked(f) \in Nat
<1> SUFFICES ASSUME NEW f, Path(f) PROVE Asked(f) \in Nat
  OBVIOUS
<1>1. f.entry \in Addresses
  BY ListsAre
<1> QED
  BY <1>1, AskedType DEF Asked

\* A path that can be parsed is received as it was sent.
LEMMA KeptWhole ==
  ASSUME NEW f, Path(f), NEW g, Path(g), Decodable(g), NEW s, g.dst = f.dst, Asked(g) < Asked(f),
         SameTokens(f, g), Promised(s, f, g)
  PROVE  Kept(s, f, g)
<1>1. OnAir(g).dst = g.dst /\ Asked(OnAir(g)) = Asked(g)
  BY AirSame
<1>2. Asked(g) \in Nat /\ Asked(f) \in Nat
  BY AskedNat
<1>3. Budget(OnAir(g)) < Budget(f)
  BY <1>1, <1>2, LessAsked
<1> QED
  BY <1>3 DEF Kept

LEMMA KeptTight ==
  ASSUME NEW f, Path(f), f.count + 1 = MaxRpt, NEW g, Path(g), NEW s, g.dst = f.dst,
         Asked(OnAir(g)) < Asked(f)
  PROVE  Kept(s, f, g)
<1>1. OnAir(g).dst = g.dst /\ Path(OnAir(g))
  BY AirIs
<1>2. Asked(OnAir(g)) \in Nat /\ Asked(f) \in Nat
  BY <1>1, AskedNat
<1>3. Budget(OnAir(g)) < Budget(f)
  BY <1>1, <1>2, LessAsked
<1> QED
  BY <1>3 DEF Kept

-----------------------------------------------------------------------------
(* The routes by the table *)

LEMMA RowIs ==
  ASSUME NEW name, Rows(name) # {}
  PROVE  /\ Min(Rows(name)) \in DOMAIN Table /\ RowOf(name).max \in 1 .. 7
         /\ RowOf(name).mode \in {"trace", "flood"}
         /\ \A a : a.call = name =>
              /\ Hops!Alias(a) /\ Hops!HopsOf(a) = Hops!Lesser(a.ssid, RowOf(name).max)
              /\ (a.call \in Network.traced <=> RowOf(name).mode = "trace")
<1> DEFINE rows == Rows(name)
<1>1. rows \subseteq DOMAIN Table /\ \A r \in rows : Table[r].mode # "off" /\ name \in Table[r].names
  BY DEF Rows
<1>2. DOMAIN Table \subseteq Nat
  BY TableAssumption DEF TableAssumption
<1>3. Min(rows) \in rows
  <2>1. rows # {}
    OBVIOUS
  <2> HIDE DEF rows
  <2> QED
    BY <1>1, <1>2, <2>1, MinIs
<1>4. PICK r \in DOMAIN Table : r = Min(rows) /\ Table[r].mode # "off" /\ name \in Table[r].names
  BY <1>1, <1>3
<1>5. /\ Table[r].max \in 1 .. 7 /\ Table[r].mode \in {"off", "trace", "flood"}
  BY TableAssumption DEF TableAssumption
<1>6. name \in Aliases
  <2>1. name \in AliasNames
    BY <1>4 DEF AliasNames
  <2> QED
    BY <2>1 DEF Aliases
<1>7. RowOf(name) = Table[r]
  BY <1>4 DEF RowOf
<1>8. /\ DOMAIN Network.limit = Aliases /\ Network.limit[name] = RowOf(name).max
      /\ (name \in Network.traced <=> RowOf(name).mode = "trace")
  BY <1>6 DEF Network
<1>9. ASSUME NEW a, a.call = name
      PROVE  /\ Hops!Alias(a) /\ Hops!HopsOf(a) = Hops!Lesser(a.ssid, RowOf(name).max)
             /\ (a.call \in Network.traced <=> RowOf(name).mode = "trace")
  BY <1>6, <1>8, <1>9 DEF Hops!Alias, Hops!HopsOf
<1> QED
  BY <1>4, <1>5, <1>7, <1>9

\* The first live address stands at the head of the live ones.
LEMMA FirstLive ==
  ASSUME NEW f, Path(f), NEW idx \in Asks(f), \A u \in Asks(f) : idx <= u
  PROVE  1 \in DOMAIN Live(f) /\ Live(f)[1] = f.entry[idx]
<1>1. f.entry \in Addresses /\ Asks(f) \in SUBSET Slots /\ Live(f) = Route(f.entry, Asks(f))
  BY ListsAre
<1>2. Route(f.entry, Asks(f)) = Joined(One(f.entry[idx]), Route(f.entry, Asks(f) \ {idx}))
  BY <1>1, HeadIs
<1>3. f.entry[idx] \in Address /\ Route(f.entry, Asks(f) \ {idx}) \in Seq(Address)
  BY <1>1, RouteType DEF Addresses
<1> QED
  BY <1>1, <1>2, <1>3, FirstIs

LEMMA AliasHop ==
  ASSUME NEW f, Path(f), NEW s \in Stations, Decodable(f), Cleared(f), NEW idx \in Unused(f),
         \A u \in Unused(f) : u < idx => Passed(f, u), \A k \in f.used : k < idx,
         Rows(f.entry[idx].call) # {},
         NEW row, row = RowOf(f.entry[idx].call), ByAlias(s, f, idx, row).code = 2
  PROVE  Kept(s, f, ByAlias(s, f, idx, row).frame)
<1> DEFINE a == f.entry[idx]
           n == a.ssid
           hops == HopsLeft(row, n)
           g == InsertOwn(s, f, idx)
           r == ByAlias(s, f, idx, row)
<1>1. /\ f \in Frame /\ f.count \in 0 .. MaxRpt /\ f.used \subseteq 0 .. f.count - 1
      /\ idx \in 0 .. f.count - 1 /\ idx \notin f.used /\ MaxRpt \in Nat
  BY UnusedAre, Bounds DEF Path
<1>2. /\ Asks(f) = {u \in Unused(f) : ~Passed(f, u)} /\ Unused(f) \in SUBSET Slots
      /\ f.entry \in Addresses
  BY ListsAre
<1>3. idx \in Slots /\ n \in 0 .. 15
  <2>1. f.entry[idx] \in Address
    BY <1>2 DEF Addresses
  <2> QED
    BY <1>2, <2>1 DEF Address
<1>4. idx \in Asks(f) /\ \A u \in Asks(f) : idx <= u
  <2>1. ~Passed(f, idx)
    BY DEF Passed
  <2>2. \A u \in Slots : u \in Nat
    BY DEF Slots
  <2> QED
    BY <1>2, <1>3, <2>1, <2>2
<1>5. /\ row.max \in 1 .. 7 /\ row.mode \in {"trace", "flood"}
      /\ Hops!Alias(a) /\ Hops!HopsOf(a) = Hops!Lesser(n, row.max)
      /\ (a.call \in Network.traced <=> row.mode = "trace")
  BY RowIs
<1>6. 1 \in DOMAIN Live(f) /\ Live(f)[1] = a
  BY <1>4, FirstLive
<1>7. Hops!Lesser(n, row.max) = IF n > row.max THEN row.max ELSE n
  BY <1>3, <1>5 DEF Hops!Lesser
<1>8. hops = Hops!HopsOf(a) - 1 /\ Hops!HopsOf(a) \in 0 .. 15 /\ Hops!HopsOf(a) <= n
  BY <1>3, <1>5, <1>7 DEF HopsLeft
<1>9. \/ (n = 0 \/ hops = 0) /\ r.frame = Claim(s, f, idx)
      \/ n # 0 /\ hops # 0 /\ row.mode = "flood" /\ r.frame = Recounted(f, idx, hops)
      \/ /\ n # 0 /\ hops # 0 /\ row.mode # "flood" /\ Room(f)
         /\ r.frame = IF idx + 1 < MaxRpt THEN Recounted(g, idx + 1, hops) ELSE g
  <2>1. r = IF n = 0 THEN Result(2, Claim(s, f, idx))
            ELSE IF n > row.max /\ ~page.clamp THEN Result(0, f)
            ELSE IF hops = 0 THEN Result(2, Claim(s, f, idx))
            ELSE IF row.mode = "flood" THEN Result(2, Recounted(f, idx, hops))
            ELSE IF ~Room(f) THEN Result(0, f)
            ELSE IF idx + 1 < MaxRpt THEN Result(2, Recounted(g, idx + 1, hops))
            ELSE Result(2, g)
    BY DEF ByAlias, Recounted
  <2>2. r.code = 2
    OBVIOUS
  <2> HIDE DEF r, g, hops, n
  <2> QED
    BY <2>1, <2>2 DEF Result
<1>10. n = 0 \/ hops = 0 => Hops!HopsOf(a) <= 1
  BY <1>3, <1>5, <1>7, <1>8
<1>11. n # 0 /\ hops # 0 => Hops!HopsOf(a) > 1 /\ hops \in 0 .. 15 /\ hops < n
  BY <1>3, <1>5, <1>7, <1>8
<1> HIDE DEF hops, n, r
<1>12. CASE (n = 0 \/ hops = 0) /\ r.frame = Claim(s, f, idx)
  <2> DEFINE c == Claim(s, f, idx)
  <2>1. /\ Path(c) /\ Decodable(c) /\ c.dst = f.dst
        /\ Live(c) = Hops!RemoveAt(Live(f), 1) /\ Served(c) = Put(Served(f), Own(s))
        /\ Tokens(c) = Tokens(f) /\ Asked(c) < Asked(f)
    BY <1>4, ClaimHop
  <2> HIDE DEF c
  <2>2. ServesFirst(s, f, c)
    BY <1>5, <1>6, <1>10, <1>12, <2>1 DEF ServesFirst
  <2>3. Kept(s, f, c)
    BY <2>1, <2>2, KeptWhole DEF Promised, SameTokens
  <2> QED
    BY <1>12, <2>3 DEF c, r
<1>13. CASE n # 0 /\ hops # 0 /\ row.mode = "flood" /\ r.frame = Recounted(f, idx, hops)
  <2> DEFINE c == Recounted(f, idx, hops)
  <2>1. /\ Path(c) /\ Decodable(c) /\ c.dst = f.dst
        /\ Live(c) = FirstWith(Live(f), hops) /\ Served(c) = Served(f)
        /\ Tokens(c) = Tokens(f) /\ Asked(c) + n = Asked(f) + hops
        /\ Asked(c) \in Nat /\ Asked(f) \in Nat /\ n \in Nat
    BY <1>4, <1>11, <1>13, RecountHop DEF n
  <2> HIDE DEF c
  <2>2. SpendsFirst(s, f, c)
    <3>1. a.call \notin Network.traced
      BY <1>5, <1>13
    <3> QED
      BY <1>5, <1>6, <1>8, <1>11, <1>13, <2>1, <3>1 DEF SpendsFirst
  <2>3. Asked(c) < Asked(f)
    BY <1>11, <1>13, <2>1
  <2>4. Kept(s, f, c)
    BY <2>1, <2>2, <2>3, KeptWhole DEF Promised, SameTokens
  <2> QED
    BY <1>13, <2>4 DEF c, r
<1>14. CASE /\ n # 0 /\ hops # 0 /\ row.mode # "flood" /\ Room(f)
            /\ r.frame = IF idx + 1 < MaxRpt THEN Recounted(g, idx + 1, hops) ELSE g
  <2> DEFINE c == Recounted(g, idx + 1, hops)
  <2>1. f.count < MaxRpt /\ idx + 1 < MaxRpt
    BY <1>1, <1>14 DEF Room
  <2>2. r.frame = c
    BY <1>14, <2>1
  <2>3. CASE f.count + 1 < MaxRpt
    <3>1. /\ Path(g) /\ Decodable(g) /\ g.dst = f.dst
          /\ Live(g) = Live(f) /\ Served(g) = Put(Served(f), Own(s))
          /\ Cardinality(Tokens(g)) = Cardinality(Tokens(f)) /\ Asked(g) = Asked(f)
          /\ g.entry[idx + 1] = f.entry[idx]
          /\ idx + 1 \in Asks(g) /\ \A u \in Asks(g) : idx + 1 <= u
      BY <1>4, <2>3, InsertHop
    <3> HIDE DEF g
    <3>2. /\ Path(c) /\ Decodable(c) /\ c.dst = g.dst
          /\ Live(c) = FirstWith(Live(g), hops) /\ Served(c) = Served(g)
          /\ Tokens(c) = Tokens(g) /\ Asked(c) + g.entry[idx + 1].ssid = Asked(g) + hops
          /\ Asked(c) \in Nat /\ Asked(g) \in Nat
      BY <1>11, <1>14, <3>1, RecountHop
    <3> HIDE DEF c
    <3>3. SpendsFirst(s, f, c)
      <4>1. a.call \in Network.traced
        BY <1>5, <1>14
      <4> QED
        BY <1>5, <1>6, <1>8, <1>11, <1>14, <3>1, <3>2, <4>1 DEF SpendsFirst
    <3>4. Asked(c) < Asked(f)
      <4>1. g.entry[idx + 1].ssid = n
        BY <3>1 DEF n
      <4> QED
        BY <1>3, <1>11, <1>14, <3>1, <3>2, <4>1
    <3>5. Kept(s, f, c)
      BY <3>1, <3>2, <3>3, <3>4, KeptWhole DEF Promised, SameTokens
    <3> QED
      BY <2>2, <3>5 DEF r
  <2>4. CASE f.count + 1 = MaxRpt
    <3>1. Path(g) /\ g.dst = f.dst
      BY <2>4, TightInsert
    <3>2. Path(c) /\ Asked(OnAir(c)) < Asked(f)
      BY <1>11, <1>14, <2>4, TightAsks DEF n
    <3>3. c.dst = g.dst
      <4> HIDE DEF g
      <4>1. g \in Frame /\ idx + 1 \in Slots
        <5>1. g \in Frame
          BY <3>1 DEF Path
        <5>2. idx + 1 \in Slots
          BY <1>1, <2>1 DEF Slots
        <5> QED
          BY <5>1, <5>2
      <4> QED
        BY <1>11, <1>14, <4>1, SsidIs DEF Recounted
    <3> HIDE DEF g, c
    <3>4. Kept(s, f, c)
      BY <2>4, <3>1, <3>2, <3>3, KeptTight
    <3> QED
      BY <2>2, <3>4 DEF r
  <2> QED
    BY <1>1, <2>1, <2>3, <2>4
<1> QED
  BY <1>9, <1>12, <1>13, <1>14

\* The first unused address that is no unclaimed token decides.
LEMMA TableHop ==
  ASSUME NEW f, Path(f), NEW s \in Stations, Decodable(f), Cleared(f), ByTable(s, f).code = 2
  PROVE  Kept(s, f, ByTable(s, f).frame)
<1> DEFINE deciding == {k \in Unused(f) : \/ Rows(f.entry[k].call) # {}
                                          \/ f.entry[k].call \notin GateTokens}
           idx == Min(deciding)
           rows == Rows(f.entry[idx].call)
<1>1. deciding # {} /\ rows # {} /\ ByTable(s, f) = ByAlias(s, f, idx, Table[Min(rows)])
  <2>1. ByTable(s, f) =
          IF deciding = {} THEN Result(0, f)
          ELSE IF rows # {} THEN ByAlias(s, f, idx, Table[Min(rows)])
          ELSE IF f.entry[idx] = Own(s) THEN Result(1, [f EXCEPT !.used = @ \cup {idx}])
          ELSE Result(0, f)
    BY DEF ByTable
  <2> HIDE DEF rows, idx, deciding
  <2> QED
    BY <2>1 DEF Result
<1>2. deciding \subseteq Nat
  BY UnusedAre
<1>3. idx \in deciding /\ \A k \in deciding : idx <= k
  BY <1>1, <1>2, MinIs
<1>4. idx \in Unused(f) /\ ~Passed(f, idx)
  BY <1>3 DEF Passed
<1>5. \A u \in Unused(f) : u < idx => Passed(f, u)
  <2> SUFFICES ASSUME NEW u \in Unused(f), u < idx, ~Passed(f, u)
               PROVE  FALSE
    OBVIOUS
  <2>1. u \in deciding
    BY DEF Passed
  <2>2. u \in Nat /\ idx \in Nat
    BY <1>2, <1>3, <2>1
  <2> HIDE DEF idx, deciding
  <2> QED
    BY <1>3, <2>1, <2>2
<1>6. \A k \in f.used : k < idx
  BY <1>4 DEF Path
<1>7. PICK i, row : i = idx /\ row = RowOf(f.entry[idx].call)
  OBVIOUS
<1>8. Rows(f.entry[i].call) # {} /\ ByTable(s, f) = ByAlias(s, f, i, row) /\ row = RowOf(f.entry[i].call)
  BY <1>1, <1>7 DEF RowOf
<1> HIDE DEF idx, rows, deciding
<1> QED
  BY <1>4, <1>5, <1>6, <1>7, <1>8, AliasHop

-----------------------------------------------------------------------------
(* The explicit routes and the route by destination *)

LEMMA PlaceIs ==
  ASSUME NEW s \in Stations, NEW a \in Address, PreemptMatches(s, a)
  PROVE  Place(s, a)
<1>1. CASE a = Own(s)
  BY <1>1 DEF Place
<1>2. CASE a # Own(s)
  <2>1. PICK r \in DOMAIN Table : Table[r].mode # "off" /\ Table[r].fixed /\ a.call \in Table[r].names
    BY <1>2 DEF PreemptMatches
  <2>2. a.ssid = 0
    BY <1>2 DEF PreemptMatches
  <2>3. a.call \in Network.fixed
    <3>1. r \in Places
      BY <2>1 DEF Places
    <3>2. Network.fixed = UNION {Table[p].names : p \in Places}
      BY DEF Network
    <3> QED
      BY <2>1, <3>1, <3>2
  <2>4. a = [call |-> a.call, ssid |-> a.ssid]
    BY DEF Address
  <2> QED
    BY <2>2, <2>3, <2>4 DEF Place
<1> QED
  BY <1>1, <1>2

LEMMA PreemptHop ==
  ASSUME NEW f, Path(f), NEW s \in Stations, Decodable(f), page \in Pages,
         page.preempt # "off", ByPreemption(s, f).code = 2
  PROVE  Kept(s, f, ByPreemption(s, f).frame)
<1> DEFINE matches == {k \in Unused(f) : PreemptMatches(s, f.entry[k])}
           match == Min(matches)
           first == Min(Unused(f))
           marked == [f EXCEPT !.used = @ \cup PassedOver(first, match)]
           kept == f.count - match
           headed == [f EXCEPT !.count = kept,
                        !.entry = [k \in Slots |-> IF k < kept THEN @[match + k] ELSE @[k]],
                        !.used = {k \in 0 .. kept - 1 : match + k \in @}]
<1>1. matches # {} /\ match # first
      /\ ByPreemption(s, f) = IF page.preempt = "mark" THEN Result(2, Claim(s, marked, match))
                              ELSE Result(2, Claim(s, headed, 0))
  <2> HIDE DEF match, marked, headed, first
  <2> QED
    BY DEF ByPreemption, Result, match, marked, headed, first, kept
<1>2. Unused(f) \subseteq Nat /\ Unused(f) \in SUBSET Slots /\ f.entry \in Addresses
      /\ Asks(f) = {u \in Unused(f) : ~Passed(f, u)}
  BY ListsAre, UnusedAre
<1>3. match \in matches
  <2>1. matches \subseteq Nat
    BY <1>2
  <2> QED
    BY <1>1, <2>1, MinIs
<1>4. match \in Unused(f) /\ PreemptMatches(s, f.entry[match])
  BY <1>3
<1>5. first \in Unused(f) /\ \A u \in Unused(f) : first <= u
  BY <1>2, <1>4, MinIs
<1>6. marked = Marked(f, first, match) /\ headed = Headed(f, match)
  BY DEF Marked, Headed
<1> HIDE DEF match, first, marked, headed
<1>7. match \in Asks(f) /\ first < match
  <2>1. ~Passed(f, match)
    BY <1>4, MatchCounts
  <2> QED
    BY <1>1, <1>2, <1>4, <1>5, <2>1
<1>8. Place(s, f.entry[match])
  <2>1. f.entry[match] \in Address
    BY <1>2, <1>4 DEF Addresses
  <2> QED
    BY <1>4, <2>1, PlaceIs
<1>9. Path(ByPreemption(s, f).frame)
  BY ByPreemptionGives DEF Later
<1>10. CASE page.preempt = "mark"
  <2> DEFINE g == Claim(s, Marked(f, first, match), match)
  <2>1. ByPreemption(s, f).frame = g
    BY <1>1, <1>6, <1>10 DEF Result
  <2>2. Path(g)
    BY <1>9, <2>1
  <2>3. /\ Decodable(g) /\ g.dst = f.dst /\ Tokens(g) = Tokens(f) /\ Asked(g) < Asked(f)
        /\ \E i \in 1 .. Len(Live(f)) : Live(f)[i] = f.entry[match] /\ JumpsTo(s, f, g, i)
    BY <1>5, <1>7, <2>2, MarkHop
  <2> HIDE DEF g
  <2>4. JumpsAhead(s, f, g)
    BY <1>8, <2>3 DEF JumpsAhead
  <2>5. Kept(s, f, g)
    BY <2>2, <2>3, <2>4, KeptWhole DEF Promised, SameTokens
  <2> QED
    BY <2>1, <2>5
<1>11. CASE page.preempt # "mark"
  <2> DEFINE g == Claim(s, Headed(f, match), 0)
  <2>0. page.preempt = "discard"
    BY <1>11, PageAssumption DEF PageAssumption
  <2>1. ByPreemption(s, f).frame = g
    BY <1>1, <1>6, <1>11 DEF Result
  <2>2. /\ Path(g) /\ Decodable(g) /\ g.dst = f.dst /\ Asked(g) < Asked(f)
        /\ \E i \in 1 .. Len(Live(f)) : Live(f)[i] = f.entry[match] /\ JumpsTo(s, f, g, i)
    BY <1>7, DiscardHop
  <2> HIDE DEF g
  <2>3. JumpsAhead(s, f, g)
    BY <1>8, <2>2 DEF JumpsAhead
  <2>4. Kept(s, f, g)
    BY <2>0, <2>2, <2>3, KeptWhole DEF Promised, SameTokens
  <2> QED
    BY <2>1, <2>4
<1> QED
  BY <1>10, <1>11

\* The hop is taken off the destination, and nothing else is.
Spent(f) == [f EXCEPT !.dst = @ - 1]

LEMMA SpentIs ==
  ASSUME NEW f, Path(f), Decodable(f), Cleared(f), f.dst \in 1 .. 7
  PROVE  LET g == Spent(f) IN
         /\ Path(g) /\ Decodable(g) /\ Cleared(g) /\ g.dst = f.dst - 1 /\ g.count = f.count
         /\ g.used = f.used /\ g.entry = f.entry /\ Unused(g) = Unused(f)
         /\ Live(g) = Live(f) /\ Served(g) = Served(f) /\ Tokens(g) = Tokens(f)
         /\ Asked(g) = Asked(f)
<1> DEFINE g == Spent(f)
<1>1. f \in Frame /\ MaxDest \in Nat
  BY Bounds DEF Path
<1>2. f.dst \in 0 .. MaxDest /\ f.dst - 1 \in 0 .. MaxDest
  BY <1>1 DEF Frame
<1>3. /\ g \in Frame /\ g.dst = f.dst - 1 /\ g.count = f.count
      /\ g.used = f.used /\ g.entry = f.entry
  BY <1>1, <1>2 DEF Spent, Frame
<1> HIDE DEF g
<1>4. In(g) = In(f) /\ Unused(g) = Unused(f)
  BY <1>3 DEF In, Unused
<1>5. Tokens(g) = Tokens(f)
  BY <1>3, <1>4 DEF Tokens
<1>6. Live(g) = Live(f) /\ Served(g) = Served(f) /\ Asked(g) = Asked(f)
  BY <1>3, <1>4, <1>5 DEF Live, Served, At, Asked
<1>7. Path(g)
  BY <1>3, <1>4 DEF Path, Passed
<1>8. Decodable(g) /\ Cleared(g)
  BY <1>3, <1>4 DEF Decodable, Cleared
<1> QED
  BY <1>3, <1>4, <1>5, <1>6, <1>7, <1>8 DEF g

\* Where the destination pays, the addresses may ask for as much as before.
LEMMA DestPays ==
  ASSUME NEW f, Path(f), NEW g, Path(g), page.dest, f.dst \in 1 .. 7, g.dst = f.dst - 1,
         Asked(g) <= Asked(f)
  PROVE  Budget(g) < Budget(f)
<1>1. Budget(f) = Asked(f) + f.dst /\ Budget(g) = Asked(g) + g.dst
  BY DEF Budget, Asked
<1>2. Asked(f) \in Nat /\ Asked(g) \in Nat
  BY AskedNat
<1> QED
  BY <1>1, <1>2

LEMMA DestHopKept ==
  ASSUME NEW f, Path(f), NEW s \in Stations, Decodable(f), Cleared(f), InOrder(f), page.dest,
         ByDestSsid(s, f).code = 2
  PROVE  Kept(s, f, ByDestSsid(s, f).frame)
<1> DEFINE open == {k \in In(f) : k \notin f.used \/ f.entry[k] = Own(s)}
           idx == Min(open)
           spent == Spent(f)
           one == [spent EXCEPT !.count = 1]
<1>1. /\ f \in Frame /\ f.count \in 0 .. MaxRpt /\ f.used \subseteq 0 .. f.count - 1
      /\ MaxRpt \in Nat /\ MaxRpt > 1 /\ Unused(f) \subseteq 0 .. f.count - 1
  BY UnusedAre, Bounds DEF Path
<1>2. /\ f.dst \in 1 .. 7
      /\ \/ f.count = 0 /\ ByDestSsid(s, f).frame = Claim(s, one, 0)
         \/ /\ f.count # 0 /\ open # {} /\ idx \notin f.used /\ Room(f)
            /\ ByDestSsid(s, f).frame = InsertOwn(s, spent, idx)
  <2>1. ByDestSsid(s, f) =
          IF f.dst \notin 1 .. 7 THEN Result(0, f)
          ELSE IF f.count = 0 THEN Result(2, Claim(s, one, 0))
          ELSE IF open = {} \/ idx \in f.used THEN Result(0, f)
          ELSE IF f.entry[idx] = Own(s) THEN Result(1, [spent EXCEPT !.used = @ \cup {idx}])
          ELSE IF Room(f) THEN Result(2, InsertOwn(s, spent, idx))
          ELSE Result(0, f)
    BY DEF ByDestSsid, Spent
  <2> HIDE DEF open, idx, spent, one
  <2> QED
    BY <2>1 DEF Result
<1>3. /\ Path(spent) /\ Decodable(spent) /\ Cleared(spent) /\ spent.dst = f.dst - 1
      /\ spent.count = f.count /\ spent.used = f.used /\ spent.entry = f.entry
      /\ Unused(spent) = Unused(f) /\ Live(spent) = Live(f) /\ Served(spent) = Served(f)
      /\ Tokens(spent) = Tokens(f) /\ Asked(spent) = Asked(f)
  BY <1>2, SpentIs
<1>4. Path(ByDestSsid(s, f).frame)
  BY DestGives
<1> HIDE DEF spent
<1>5. CASE f.count = 0
  <2> DEFINE g == Claim(s, one, 0)
  <2>1. ByDestSsid(s, f).frame = g /\ Path(g)
    BY <1>2, <1>4, <1>5
  <2>2. f.used = {} /\ Unused(f) = {} /\ In(f) = {}
    BY <1>1, <1>5 DEF In
  <2>3. one \in Frame /\ one.count = 1 /\ one.used = {} /\ one.dst = f.dst - 1
    <3>a. 1 \in 0 .. MaxRpt
      BY <1>1
    <3>1. 1 \in 0 .. MaxRpt /\ spent \in Frame
      BY <1>3, <3>a DEF Path
    <3> QED
      BY <1>3, <2>2, <3>1 DEF Frame
  <2> HIDE DEF one
  <2>4. 0 \in Slots
    BY <1>1 DEF Slots
  <2>5. g.count = 1 /\ g.used = {0} /\ g.entry[0] = Own(s) /\ g.dst = f.dst - 1
    BY <2>3, <2>4, ClaimIs
  <2> HIDE DEF g
  <2>6. In(g) = {0} /\ Unused(g) = {} /\ ~Passed(g, 0)
    <3>1. ~Passed(g, 0)
      BY <2>5, OwnCounts
    <3> QED
      BY <2>5, <3>1 DEF In, Unused
  <2>7. Decodable(g)
    BY <2>5, <2>6, OwnIs DEF Decodable
  <2>8. /\ g.entry \in Addresses /\ f.entry \in Addresses
        /\ Live(g) = Route(g.entry, Asks(g)) /\ Served(g) = Route(g.entry, Serves(g))
        /\ Live(f) = Route(f.entry, Asks(f)) /\ Served(f) = Route(f.entry, Serves(f))
        /\ Tokens(g) = {k \in In(g) : Passed(g, k)} /\ Tokens(f) = {k \in In(f) : Passed(f, k)}
        /\ Asks(g) = {u \in Unused(g) : ~Passed(g, u)} /\ Asks(f) = {u \in Unused(f) : ~Passed(f, u)}
        /\ Serves(g) = {k \in g.used : ~Passed(g, k)} /\ Serves(f) = {k \in f.used : ~Passed(f, k)}
    BY <2>1, ListsAre
  <2>9. Tokens(g) = {} /\ Tokens(f) = {} /\ Asks(g) = {} /\ Asks(f) = {} /\ Serves(f) = {}
        /\ Serves(g) = {0}
    BY <2>2, <2>5, <2>6, <2>8
  <2>10. Live(g) = <<>> /\ Live(f) = <<>> /\ Served(f) = <<>>
    BY <2>8, <2>9, RouteNone
  <2>11. Served(g) = Put(Served(f), Own(s))
    <3>1. Route(g.entry, {0}) = One(g.entry[0])
      BY <2>4, <2>8, RouteOne
    <3>2. Put(<<>>, Own(s)) = One(Own(s))
      <4>a. <<>> \in Seq(Address)
        OBVIOUS
      <4>1. Own(s) \in Address /\ <<>> \in Seq(Address)
        BY <4>a, OwnIs
      <4> QED
        BY <4>1, PutIs
    <3> QED
      BY <2>5, <2>8, <2>9, <2>10, <3>1, <3>2
  <2>12. Asked(g) = 0 /\ Asked(f) = 0
    BY <2>2, <2>4, <2>6, <2>8, AskedOne DEF Asked
  <2>13. SpendsDest(s, f, g) /\ SameTokens(f, g)
    BY <1>2, <2>5, <2>9, <2>10, <2>11 DEF SpendsDest, SameTokens
  <2>14. Budget(OnAir(g)) < Budget(f)
    <3>1. /\ Path(OnAir(g)) /\ OnAir(g).dst = g.dst /\ Asked(OnAir(g)) = Asked(g)
      BY <2>1, <2>7, AirSame
    <3>2. OnAir(g).dst = f.dst - 1 /\ Asked(OnAir(g)) <= Asked(f)
      BY <2>5, <2>12, <3>1
    <3> QED
      BY <1>2, <3>1, <3>2, DestPays
  <2>15. Kept(s, f, g)
    BY <2>1, <2>7, <2>13, <2>14 DEF Kept, Promised
  <2> QED
    BY <2>1, <2>15
<1>6. CASE f.count # 0
  <2> DEFINE g == InsertOwn(s, spent, idx)
  <2>1. open # {} /\ idx \notin f.used /\ Room(f) /\ ByDestSsid(s, f).frame = g /\ Path(g)
    BY <1>2, <1>4, <1>6
  <2>2. open \subseteq Nat
    BY <1>1 DEF In
  <2>3. idx \in open /\ \A k \in open : idx <= k
    BY <2>1, <2>2, MinIs
  <2>4. idx \in Unused(f) /\ \A u \in Unused(f) : idx <= u
    BY <2>1, <2>3 DEF Unused
  <2> HIDE DEF idx, open
  <2>5. /\ \A k \in f.used : k < idx
        /\ \A u \in Unused(f) : ~(u < idx)
    <3>1. \A u \in Unused(f) : u \in Nat
      BY <1>1
    <3> QED
      BY <2>4, <3>1 DEF InOrder
  <2>6. /\ idx \in Unused(spent) /\ \A k \in spent.used : k < idx
        /\ \A u \in Unused(spent) : u < idx => Passed(spent, u)
    BY <1>3, <2>4, <2>5
  <2>7. CASE f.count + 1 < MaxRpt
    <3>1. /\ Decodable(g) /\ g.dst = spent.dst
          /\ Live(g) = Live(spent) /\ Served(g) = Put(Served(spent), Own(s))
          /\ Cardinality(Tokens(g)) = Cardinality(Tokens(spent)) /\ Asked(g) = Asked(spent)
      BY <1>3, <2>6, <2>7, InsertHop
    <3> HIDE DEF g
    <3>2. SpendsDest(s, f, g) /\ SameTokens(f, g)
      BY <1>2, <1>3, <3>1 DEF SpendsDest, SameTokens
    <3>3. Budget(OnAir(g)) < Budget(f)
      <4>1. /\ Path(OnAir(g)) /\ OnAir(g).dst = g.dst /\ Asked(OnAir(g)) = Asked(g)
        BY <2>1, <3>1, AirSame
      <4>2. Asked(f) \in Nat
        BY AskedNat
      <4>3. OnAir(g).dst = f.dst - 1 /\ Asked(OnAir(g)) <= Asked(f)
        BY <1>3, <3>1, <4>1, <4>2
      <4> QED
        BY <1>2, <4>1, <4>3, DestPays
    <3>4. Kept(s, f, g)
      BY <2>1, <3>1, <3>2, <3>3 DEF Kept, Promised
    <3> QED
      BY <2>1, <3>4
  <2>8. CASE f.count + 1 = MaxRpt
    <3>1. g.dst = spent.dst
      BY <1>3, <2>6, <2>8, TightInsert
    <3>2. Asked(OnAir(g)) < Asked(spent)
      BY <1>3, <2>6, <2>8, TightAsks
    <3> HIDE DEF g
    <3>3. Path(OnAir(g)) /\ OnAir(g).dst = g.dst
      BY <2>1, AirIs
    <3>4. Asked(f) \in Nat /\ Asked(OnAir(g)) \in Nat
      BY <3>3, AskedNat
    <3>5. OnAir(g).dst = f.dst - 1 /\ Asked(OnAir(g)) <= Asked(f)
      BY <1>3, <3>1, <3>2, <3>3, <3>4
    <3>6. Budget(OnAir(g)) < Budget(f)
      BY <1>2, <3>3, <3>5, DestPays
    <3> QED
      BY <2>1, <2>8, <3>6 DEF Kept
  <2>9. f.count < MaxRpt
    BY <1>1, <2>1 DEF Room
  <2> QED
    BY <1>1, <2>7, <2>8, <2>9
<1> QED
  BY <1>5, <1>6

-----------------------------------------------------------------------------
(* Every hop is one of the promise *)

LEMMA DigiHop ==
  ASSUME NEW f, Path(f), NEW s \in Stations, Decodable(f), Cleared(f), Orderly(f), page \in Pages,
         Digi(s, f).code = 2
  PROVE  Kept(s, f, Digi(s, f).frame)
<1> DEFINE dest == IF page.dest THEN ByDestSsid(s, f) ELSE Result(0, f)
           ahead == IF page.preempt # "off" THEN ByPreemption(s, f) ELSE Result(0, f)
           g == Digi(s, f).frame
<1>1. Digi(s, f) =
        IF dest.code # 0 THEN dest
        ELSE IF (\E k \in In(f) : f.entry[k].call \in NetTokens) \/ BeenHere(s, f)
          THEN Result(0, f)
        ELSE IF ahead.code # 0 THEN ahead
        ELSE ByTable(s, f)
  BY DEF Digi
<1>2. CASE dest.code # 0
  <2>1. Digi(s, f) = dest
    BY <1>1, <1>2
  <2>2. page.dest
    BY <1>2 DEF Result
  <2>3. ByDestSsid(s, f).code = 2 /\ g = ByDestSsid(s, f).frame
    BY <2>1, <2>2
  <2> HIDE DEF g
  <2>4. f.dst \in 1 .. 7 /\ Room(f)
    BY <2>3, DestGives
  <2>5. InOrder(f)
    BY <2>2, <2>4 DEF Orderly, Pending
  <2>6. Kept(s, f, ByDestSsid(s, f).frame)
    BY <2>2, <2>3, <2>5, DestHopKept
  <2> QED
    BY <2>3, <2>6 DEF g
<1>3. CASE dest.code = 0
  <2>1. Digi(s, f) = IF ahead.code # 0 THEN ahead ELSE ByTable(s, f)
    <3> HIDE DEF dest, ahead
    <3> QED
      BY <1>1, <1>3 DEF Result
  <2>2. CASE ahead.code # 0
    <3>1. Digi(s, f) = ahead
      BY <2>1, <2>2
    <3>2. page.preempt # "off"
      BY <2>2 DEF Result
    <3>3. ahead = ByPreemption(s, f)
      BY <3>2
    <3>4. ByPreemption(s, f).code = 2 /\ g = ByPreemption(s, f).frame
      BY <3>1, <3>3
    <3> HIDE DEF g
    <3>5. Kept(s, f, ByPreemption(s, f).frame)
      BY <3>2, <3>4, PreemptHop
    <3> QED
      BY <3>4, <3>5 DEF g
  <2>3. CASE ahead.code = 0
    <3>1. Digi(s, f) = ByTable(s, f)
      <4> HIDE DEF ahead
      <4> QED
        BY <2>1, <2>3
    <3>2. ByTable(s, f).code = 2 /\ g = ByTable(s, f).frame
      BY <3>1
    <3> HIDE DEF g
    <3>3. Kept(s, f, ByTable(s, f).frame)
      BY <3>2, TableHop
    <3> QED
      BY <3>2, <3>3 DEF g
  <2> QED
    BY <2>2, <2>3
<1> QED
  BY <1>2, <1>3

HopsInv == DigiInv /\ Cleared(frame)

LEMMA InitHops == Init => HopsInv
<1> SUFFICES ASSUME Init PROVE HopsInv
  OBVIOUS
<1>1. PICK n \in 0 .. MaxFresh, dst \in 0 .. MaxDest :
        \E path \in [1 .. n -> Sendable] : frame = Fresh(path, dst)
  BY DEF Init
<1>2. PICK path \in [1 .. n -> Sendable] : frame = Fresh(path, dst)
  BY <1>1
<1> DEFINE entry == [k \in Slots |-> IF k < Len(path) THEN path[k + 1] ELSE Empty]
<1>3. frame.entry = entry /\ frame.count = Len(path)
  BY <1>2 DEF Fresh
<1>4. Len(path) \in Nat
  BY <1>1
<1>5. \A k \in Slots : k >= frame.count => frame.entry[k] = Empty
  BY <1>3, <1>4 DEF Slots
<1> QED
  BY <1>5, InitDigi DEF HopsInv, Cleared

LEMMA AirClears ==
  ASSUME NEW f, Path(f) PROVE Cleared(OnAir(f))
<1> DEFINE sent == IF f.count > 0 /\ f.entry[f.count - 1] = Empty THEN f.count - 1 ELSE f.count
           entry == [k \in Slots |-> IF k < sent THEN f.entry[k] ELSE Empty]
           g == OnAir(f)
<1>1. f \in Frame /\ f.count \in Nat
  <2>1. f \in Frame /\ f.count \in 0 .. MaxRpt
    BY UnusedAre DEF Path
  <2> QED
    BY <2>1, Bounds
<1>2. sent \in Int
  BY <1>1
<1>3. g = [f EXCEPT !.count = sent, !.entry = entry]
  BY DEF OnAir
<1> HIDE DEF sent, entry, g
<1>4. g.count = sent /\ g.entry = entry
  BY <1>1, <1>3 DEF Frame
<1>5. \A k \in Slots : k >= sent => entry[k] = Empty
  BY <1>2 DEF Slots, entry
<1> QED
  BY <1>4, <1>5 DEF Cleared, g

\* What a hop does to a path in hand.
LEMMA RelayHop ==
  ASSUME HopsInv, NEW s \in Stations, Relay(s)
  PROVE  /\ Cleared(frame') /\ page' = page /\ Budget(frame') < Budget(frame)
         /\ frame.count + 1 # MaxRpt => Promised(s, frame, frame') /\ SameTokens(frame, frame')
<1> DEFINE g == Digi(s, frame).frame
<1>1. /\ Decodable(frame) /\ Digi(s, frame).code = 2 /\ frame' = OnAir(g) /\ page' = page
  BY DEF Relay
<1>2. page \in Pages /\ Path(frame) /\ Orderly(frame) /\ Cleared(frame)
  BY DEF HopsInv, DigiInv
<1>3. Kept(s, frame, g) /\ Path(g)
  BY <1>1, <1>2, DigiHop, DigiGives
<1> HIDE DEF g
<1>4. Cleared(frame') /\ Budget(frame') < Budget(frame)
  BY <1>1, <1>3, AirClears DEF Kept
<1>5. ASSUME frame.count + 1 # MaxRpt
      PROVE  Promised(s, frame, frame') /\ SameTokens(frame, frame')
  <2>1. Decodable(g) /\ Promised(s, frame, g) /\ SameTokens(frame, g)
    BY <1>3, <1>5 DEF Kept
  <2>2. /\ OnAir(g).dst = g.dst /\ Live(OnAir(g)) = Live(g) /\ Served(OnAir(g)) = Served(g)
        /\ Tokens(OnAir(g)) = Tokens(g)
    BY <1>3, <2>1, AirSame
  <2>3. /\ frame'.dst = g.dst /\ Live(frame') = Live(g) /\ Served(frame') = Served(g)
        /\ Tokens(frame') = Tokens(g)
    BY <1>1, <2>2
  <2>4. SameTokens(frame, frame')
    BY <2>1, <2>3 DEF SameTokens
  <2>5. Promised(s, frame, frame')
    BY <2>1, <2>3 DEF Promised, ServesFirst, SpendsFirst, JumpsAhead, JumpsTo, SpendsDest
  <2> QED
    BY <2>4, <2>5
<1> QED
  BY <1>1, <1>4, <1>5

\* The relation of the paths is a step of HopSpec.
LEMMA HopIs ==
  ASSUME NEW s \in Stations, Path(frame), page' = page, Promised(s, frame, frame')
  PROVE  Hops!Next
<1>1. /\ Live(frame)' = Live(frame') /\ Served(frame)' = Served(frame')
      /\ Network' = Network /\ frame.dst' = frame'.dst
  <2> QED
    BY DEF Live, Served, At, Tokens, Unused, In, Rows, Network, Aliases, RowOf, Places
<1>2. CASE SpendsDest(s, frame, frame')
  <2>1. Hops!DestHop(s)
    BY <1>1, <1>2 DEF SpendsDest, Hops!DestHop, Hops!Own, Own, Put
  <2> QED
    BY <2>1 DEF Hops!Next
<1>3. CASE frame'.dst = frame.dst /\ ServesFirst(s, frame, frame')
  <2>1. Hops!Finish(s, 1) /\ 1 \in DOMAIN Live(frame)
    BY <1>1, <1>3 DEF ServesFirst, Hops!Finish, Hops!Own, Own, Put
  <2>2. Hops!Hop(s)
    BY <1>1, <1>3, <2>1 DEF Hops!Hop
  <2> QED
    BY <2>2 DEF Hops!Next
<1>4. CASE frame'.dst = frame.dst /\ SpendsFirst(s, frame, frame')
  <2>1. Hops!Spend(s, 1) /\ 1 \in DOMAIN Live(frame)
    BY <1>1, <1>4 DEF SpendsFirst, Hops!Spend, Hops!Own, Own, Put, FirstWith
  <2>2. Hops!Hop(s)
    BY <1>1, <1>4, <2>1 DEF Hops!Hop
  <2> QED
    BY <2>2 DEF Hops!Next
<1>5. CASE frame'.dst = frame.dst /\ JumpsAhead(s, frame, frame')
  <2>1. PICK i \in 1 .. Len(Live(frame)) :
          Place(s, Live(frame)[i]) /\ JumpsTo(s, frame, frame', i)
    BY <1>5 DEF JumpsAhead
  <2>2. i \in DOMAIN Live(frame)
    <3>1. Live(frame) \in Seq(Address)
      BY ListsAre
    <3> QED
      BY <3>1
  <2>a. Live(frame)[i] \in {Hops!Own(s)} \cup [call : Network.fixed, ssid : {0}]
    BY <2>1 DEF Place, Hops!Own, Own
  <2>b. /\ Live(frame)' = SubSeq(Live(frame), i + 1, Len(Live(frame)))
        /\ Served(frame)' \in {Served(frame) \o SubSeq(Live(frame), 1, i - 1) \o <<Hops!Own(s)>>,
                              <<Hops!Own(s)>>}
    BY <1>1, <2>1, Zenon DEF JumpsTo, Hops!Own, Own, Joined, One
  <2>c. Hops!Jump(s, i)
    BY <2>a, <2>b, Zenon DEF Hops!Jump
  <2>3. Hops!Hop(s)
    BY <1>1, <1>5, <2>2, <2>c DEF Hops!Hop
  <2> QED
    BY <2>3 DEF Hops!Next
<1> QED
  BY <1>2, <1>3, <1>4, <1>5 DEF Promised

LEMMA StepHops == HopsInv /\ [Next]_vars => HopsInv'
<1> SUFFICES ASSUME HopsInv, [Next]_vars PROVE HopsInv'
  OBVIOUS
<1>1. DigiInv'
  BY StepDigi DEF HopsInv
<1>2. CASE UNCHANGED vars
  BY <1>1, <1>2 DEF vars, HopsInv, Cleared
<1>3. CASE Next
  <2>1. PICK s \in Stations : Relay(s)
    BY <1>3 DEF Next
  <2>2. Cleared(frame')
    BY <2>1, RelayHop
  <2> QED
    BY <1>1, <2>2 DEF HopsInv, Cleared
<1> QED
  BY <1>2, <1>3

\* Every hop of a frame is one the promise allows, keeps the gate tokens and
\* leaves less to ask for (digirepeater.c:215-457).
THEOREM StepKept == Spec => StepSound
<1>1. HopsInv /\ [Next]_vars => [frame.count # MaxRpt - 1 => Hops!Next]_vars
  <2> SUFFICES ASSUME HopsInv, Next, frame.count # MaxRpt - 1 PROVE Hops!Next
    OBVIOUS
  <2>1. PICK s \in Stations : Relay(s)
    BY DEF Next
  <2>2. Path(frame) /\ frame.count + 1 # MaxRpt
    <3>1. Path(frame)
      BY DEF HopsInv, DigiInv
    <3>2. frame.count \in 0 .. MaxRpt /\ MaxRpt \in Nat
      BY <3>1, UnusedAre, Bounds
    <3> QED
      BY <3>1, <3>2
  <2>3. page' = page /\ Promised(s, frame, frame')
    BY <2>1, <2>2, RelayHop
  <2> QED
    BY <2>2, <2>3, HopIs
<1>2. HopsInv /\ [Next]_vars =>
        [page.preempt # "discard" /\ frame.count # MaxRpt - 1 =>
           Cardinality(Tokens(frame')) = Cardinality(Tokens(frame))]_vars
  <2> SUFFICES ASSUME HopsInv, Next, page.preempt # "discard", frame.count # MaxRpt - 1
               PROVE  Cardinality(Tokens(frame')) = Cardinality(Tokens(frame))
    OBVIOUS
  <2>1. PICK s \in Stations : Relay(s)
    BY DEF Next
  <2>2. frame.count + 1 # MaxRpt
    <3>1. Path(frame)
      BY DEF HopsInv, DigiInv
    <3>2. frame.count \in 0 .. MaxRpt /\ MaxRpt \in Nat
      BY <3>1, UnusedAre, Bounds
    <3> QED
      BY <3>2
  <2>3. SameTokens(frame, frame')
    BY <2>1, <2>2, RelayHop
  <2> QED
    BY <2>3 DEF SameTokens
<1>3. HopsInv /\ [Next]_vars => [Budget(frame') < Budget(frame)]_vars
  <2> SUFFICES ASSUME HopsInv, Next PROVE Budget(frame') < Budget(frame)
    OBVIOUS
  <2>1. PICK s \in Stations : Relay(s)
    BY DEF Next
  <2> QED
    BY <2>1, RelayHop
<1> QED
  BY <1>1, <1>2, <1>3, InitHops, StepHops, PTL
     DEF Spec, StepSound, HopKept, GateTokenKept, EachRepeatSpends

-----------------------------------------------------------------------------
(* The duplicate cache *)

LEMMA Depth == Capacity \in Nat /\ MinSize \in 1 .. Capacity /\ MaxClock \in Nat \ {0}
               /\ Windows \subseteq Nat \ {0}
BY CapacityAssumption, WindowAssumption DEF CapacityAssumption, WindowAssumption

\* How many entries are inserted before the one that takes the place of i.
Ahead(i) == IF i >= cacheIndex THEN i - cacheIndex ELSE i - cacheIndex + size

Memory == [at : 0 .. MaxClock, since : Nat, room : Nat, span : Nat]

\* A copy let through and protected since is in the ring, and as far from being
\* overwritten as the entries inserted since leave it.
Remembered(s, f, p) ==
  /\ p.at <= clock /\ p.at > 0 /\ p.since < p.room /\ p.room <= size /\ p.span <= window
  /\ enabled /\ cacheIndex < size
  /\ clock - p.at <= p.span =>
       \E i \in 0 .. size - 1 :
         /\ cache[i].timestamp = p.at /\ cache[i].scope = s /\ cache[i].frame = f
         /\ p.room <= p.since + 1 + Ahead(i)

RxInv ==
  /\ DispatchTypeOK /\ echoed = FALSE
  /\ passed \in [Scopes -> [Frames -> Memory]]
  /\ \A s \in Scopes, f \in Frames : passed[s][f].room > 0 => Remembered(s, f, passed[s][f])

\* The index goes round.
LEMMA NextIndexIs ==
  ASSUME NEW n \in Nat \ {0}, NEW i \in 0 .. n - 1
  PROVE  (i + 1) % n = IF i + 1 = n THEN 0 ELSE i + 1
<1>1. CASE i + 1 = n
  BY <1>1, SMT
<1>2. CASE i + 1 < n
  BY <1>2, SMT
<1> QED
  BY <1>1, <1>2

LEMMA InitRx == RxInit => RxInv
<1> SUFFICES ASSUME RxInit PROVE RxInv
  OBVIOUS
<1>1. /\ CacheInit /\ copy = AnyCopy /\ stage = "idle" /\ looking = FALSE /\ rewritten = FALSE
      /\ verdict = "dropped" /\ repeated = {} /\ echoed = FALSE
      /\ passed = [s \in Scopes |-> [f \in Frames |-> Unprotected(0)]]
  BY DEF RxInit
<1>2. AnyCopy \in Copies /\ \E f : f \in Frames
  <2>1. AnyCopy \in Copies
    BY CopyAssumption DEF CopyAssumption, AnyCopy
  <2> QED
    BY <2>1, CopyAssumption DEF CopyAssumption
<1>3. Blank \in [frame : Frames, scope : Scopes, timestamp : 0 .. MaxClock] /\ Blank.timestamp = 0
  <2>1. (CHOOSE f \in Frames : TRUE) \in Frames
    BY <1>2
  <2> QED
    BY <2>1, Depth DEF Blank, Scopes
<1>4. CacheTypeOK /\ \A i \in DOMAIN cache : cache[i].timestamp <= clock
  BY <1>1, <1>3, Depth DEF CacheInit, CacheTypeOK
<1>5. DispatchTypeOK
  BY <1>1, <1>2, <1>4 DEF DispatchTypeOK
<1>6. Unprotected(0) \in Memory /\ Unprotected(0).room = 0
  BY Depth DEF Unprotected, Memory
<1>7. /\ passed \in [Scopes -> [Frames -> Memory]]
      /\ \A s \in Scopes, f \in Frames : passed[s][f].room = 0
  BY <1>1, <1>6
<1> QED
  BY <1>1, <1>5, <1>7 DEF RxInv

LEMMA Deeper ==
  \A n, m \in Nat : m >= n => \A i \in 0 .. n - 1 : i \in 0 .. m - 1
OBVIOUS

\* What the steps between two insertions leave of a protected entry.
LEMMA StillThere ==
  ASSUME NEW s, NEW f, NEW p \in Memory, Remembered(s, f, p), CacheTypeOK, CacheTypeOK',
         size' >= size, window' >= window, enabled', cacheIndex' = cacheIndex, clock' >= clock,
         \A i \in 0 .. size - 1 :
           cache[i].timestamp > 0 /\ clock - cache[i].timestamp <= window => cache'[i] = cache[i]
  PROVE  Remembered(s, f, p)'
<1>1. /\ size \in Nat /\ size' \in Nat /\ window \in Nat /\ window' \in Nat /\ clock \in Nat
      /\ clock' \in Nat /\ cacheIndex \in Nat
  BY Depth DEF CacheTypeOK
<1>2. /\ p.at \in Nat /\ p.since \in Nat /\ p.room \in Nat /\ p.span \in Nat
  BY Depth DEF Memory
<1>3. /\ p.at <= clock /\ p.at > 0 /\ p.since < p.room /\ p.room <= size /\ p.span <= window
      /\ cacheIndex < size
      /\ clock - p.at <= p.span =>
           \E i \in 0 .. size - 1 :
             /\ cache[i].timestamp = p.at /\ cache[i].scope = s /\ cache[i].frame = f
             /\ p.room <= p.since + 1 + Ahead(i)
  BY DEF Remembered
<1>4. ASSUME clock' - p.at <= p.span
      PROVE  \E i \in 0 .. size' - 1 :
               /\ cache'[i].timestamp = p.at /\ cache'[i].scope = s /\ cache'[i].frame = f
               /\ p.room <= p.since + 1 + Ahead(i)'
  <2>1. clock - p.at <= p.span
    BY <1>1, <1>2, <1>4
  <2>2. PICK i \in 0 .. size - 1 :
          /\ cache[i].timestamp = p.at /\ cache[i].scope = s /\ cache[i].frame = f
          /\ p.room <= p.since + 1 + Ahead(i)
    BY <1>3, <2>1
  <2>3. cache'[i] = cache[i]
    <3>1. clock - p.at <= window
      BY <1>1, <1>2, <1>3, <2>1
    <3> QED
      BY <1>3, <2>2, <3>1
  <2>4. p.room <= p.since + 1 + Ahead(i)'
    BY <1>1, <1>2, <2>2 DEF Ahead
  <2>5. i \in 0 .. size' - 1
    BY <1>1, Deeper
  <2> QED
    BY <2>2, <2>3, <2>4, <2>5
<1>5. /\ p.at <= clock' /\ p.room <= size' /\ p.span <= window' /\ cacheIndex' < size'
  BY <1>1, <1>2, <1>3
<1> QED
  BY <1>3, <1>4, <1>5 DEF Remembered

\* An insertion takes one entry's place; the others are one nearer to it.
LEMMA OneNearer ==
  ASSUME NEW s, NEW f, NEW p \in Memory, Remembered(s, f, p), CacheTypeOK, CacheTypeOK',
         NEW g, NEW scope, Insert(g, scope), p.since + 1 < p.room
  PROVE  Remembered(s, f, [p EXCEPT !.since = @ + 1])'
<1> DEFINE q == [p EXCEPT !.since = @ + 1]
<1>1. /\ size \in Nat \ {0} /\ window \in Nat /\ clock \in Nat /\ cacheIndex \in Nat
      /\ size <= Capacity /\ Capacity \in Nat
  BY Depth DEF CacheTypeOK
<1>2. /\ p.at \in Nat /\ p.since \in Nat /\ p.room \in Nat /\ p.span \in Nat
      /\ q.at = p.at /\ q.since = p.since + 1 /\ q.room = p.room /\ q.span = p.span
  BY Depth DEF Memory
<1> HIDE DEF q
<1>3. /\ p.at <= clock /\ p.at > 0 /\ p.since < p.room /\ p.room <= size /\ p.span <= window
      /\ enabled /\ cacheIndex < size
      /\ clock - p.at <= p.span =>
           \E i \in 0 .. size - 1 :
             /\ cache[i].timestamp = p.at /\ cache[i].scope = s /\ cache[i].frame = f
             /\ p.room <= p.since + 1 + Ahead(i)
  BY DEF Remembered
<1>4. InsertIndex = cacheIndex
  BY <1>1, <1>3 DEF InsertIndex
<1>5. /\ \A i \in 0 .. size - 1 : i # cacheIndex => cache'[i] = cache[i]
      /\ cacheIndex' = NextIndex(cacheIndex)
      /\ size' = size /\ window' = window /\ enabled' = enabled /\ clock' = clock
  BY <1>1, <1>4 DEF Insert, CacheTypeOK
<1>6. cacheIndex' = IF cacheIndex + 1 = size THEN 0 ELSE cacheIndex + 1
  <2>1. cacheIndex \in 0 .. size - 1
    BY <1>1, <1>3
  <2> QED
    BY <1>1, <1>5, <2>1, NextIndexIs DEF NextIndex
<1>7. ASSUME clock - p.at <= p.span
      PROVE  \E i \in 0 .. size - 1 :
               /\ cache'[i].timestamp = p.at /\ cache'[i].scope = s /\ cache'[i].frame = f
               /\ p.room <= p.since + 2 + Ahead(i)'
  <2>1. PICK i \in 0 .. size - 1 :
          /\ cache[i].timestamp = p.at /\ cache[i].scope = s /\ cache[i].frame = f
          /\ p.room <= p.since + 1 + Ahead(i)
    BY <1>3, <1>7
  <2>2. i # cacheIndex
    BY <1>1, <1>2, <2>1 DEF Ahead
  <2>3. p.room <= p.since + 2 + Ahead(i)'
    BY <1>1, <1>2, <1>3, <1>5, <1>6, <2>1, <2>2 DEF Ahead
  <2> QED
    BY <1>5, <2>1, <2>2, <2>3
<1>8. ASSUME clock - p.at <= p.span
      PROVE  \E i \in 0 .. size - 1 :
               /\ cache'[i].timestamp = q.at /\ cache'[i].scope = s /\ cache'[i].frame = f
               /\ q.room <= q.since + 1 + Ahead(i)'
  <2>1. PICK i \in 0 .. size - 1 :
          /\ cache'[i].timestamp = p.at /\ cache'[i].scope = s /\ cache'[i].frame = f
          /\ p.room <= p.since + 2 + Ahead(i)'
    BY <1>7, <1>8
  <2>2. Ahead(i)' \in Nat
    BY <1>1, <1>3, <1>5, <1>6 DEF Ahead
  <2>3. q.room <= q.since + 1 + Ahead(i)'
    BY <1>2, <2>1, <2>2
  <2> QED
    BY <1>2, <2>1, <2>3
<1>9. cacheIndex' < size
  BY <1>1, <1>3, <1>6
<1>10. Remembered(s, f, q)'
  BY <1>2, <1>3, <1>5, <1>8, <1>9 DEF Remembered
<1> QED
  BY <1>10 DEF q

\* The entry an insertion writes is the last to be overwritten.
LEMMA JustInserted ==
  ASSUME NEW g \in Frames, NEW scope \in Scopes, CacheTypeOK, CacheTypeOK', Insert(g, scope),
         enabled, NEW p, p = [at |-> clock, since |-> 0, room |-> size, span |-> window]
  PROVE  Remembered(scope, g, p)'
<1>1. /\ size \in Nat \ {0} /\ window \in Nat /\ clock \in Nat \ {0} /\ cacheIndex \in Nat
      /\ size <= Capacity /\ Capacity \in Nat
  BY Depth DEF CacheTypeOK
<1>a. InsertIndex \in 0 .. size - 1
  BY <1>1 DEF InsertIndex
<1>2. PICK j \in 0 .. size - 1 : j = InsertIndex
  BY <1>a
<1>3. /\ cache'[j] = [frame |-> g, scope |-> scope, timestamp |-> clock]
      /\ cacheIndex' = NextIndex(j)
      /\ size' = size /\ window' = window /\ enabled' = enabled /\ clock' = clock
  BY <1>1, <1>2 DEF Insert, CacheTypeOK
<1>4. cacheIndex' = IF j + 1 = size THEN 0 ELSE j + 1
  BY <1>1, <1>2, <1>3, NextIndexIs DEF NextIndex
<1>5. cacheIndex' < size /\ Ahead(j)' = size - 1
  BY <1>1, <1>2, <1>3, <1>4 DEF Ahead
<1>b. p.at = clock /\ p.since = 0 /\ p.room = size /\ p.span = window
  OBVIOUS
<1>6. /\ cache'[j].timestamp = clock /\ cache'[j].scope = scope /\ cache'[j].frame = g
      /\ size <= 0 + 1 + Ahead(j)'
  BY <1>1, <1>3, <1>5
<1>7. \E i \in 0 .. size - 1 :
        /\ cache'[i].timestamp = clock /\ cache'[i].scope = scope /\ cache'[i].frame = g
        /\ size <= 0 + 1 + Ahead(i)'
  BY <1>2, <1>6
<1> QED
  BY <1>1, <1>b, <1>3, <1>5, <1>7 DEF Remembered

\* A protected copy is found again inside its window.
LEMMA FoundAgain ==
  ASSUME NEW s \in Scopes, NEW f \in Frames, RxInv, passed[s][f].room > 0,
         clock - passed[s][f].at <= passed[s][f].span
  PROVE  enabled /\ Found(f, s)
<1>1. Remembered(s, f, passed[s][f])
  BY DEF RxInv
<1>2. enabled /\ passed[s][f].at > 0
  BY <1>1 DEF Remembered
<1>3. PICK i \in 0 .. size - 1 : /\ cache[i].timestamp = passed[s][f].at /\ cache[i].scope = s
                                 /\ cache[i].frame = f
  BY <1>1 DEF Remembered
<1> QED
  BY <1>2, <1>3 DEF Found, Matches

\* The type of the cache.
LEMMA InsertTypes ==
  ASSUME NEW g \in Frames, NEW scope \in Scopes, Insert(g, scope), CacheTypeOK,
         \A i \in DOMAIN cache : cache[i].timestamp <= clock
  PROVE  CacheTypeOK' /\ (\A i \in DOMAIN cache : cache[i].timestamp <= clock)'
<1>1. /\ size \in Nat \ {0} /\ clock \in 1 .. MaxClock /\ cacheIndex \in Nat
      /\ size <= Capacity /\ Capacity \in Nat /\ MaxClock \in Nat
  BY Depth DEF CacheTypeOK
<1>2. InsertIndex \in 0 .. size - 1
  BY <1>1 DEF InsertIndex
<1>3. NextIndex(InsertIndex) \in 0 .. Capacity - 1
  BY <1>1, <1>2, NextIndexIs DEF NextIndex
<1>4. /\ cache' = [cache EXCEPT ![InsertIndex] =
                     [frame |-> g, scope |-> scope, timestamp |-> clock]]
      /\ cacheIndex' = NextIndex(InsertIndex) /\ UNCHANGED <<size, window, enabled, clock>>
  BY DEF Insert
<1> DEFINE Entries == [frame : Frames, scope : Scopes, timestamp : 0 .. MaxClock]
           e == [frame |-> g, scope |-> scope, timestamp |-> clock]
<1>5. e \in Entries /\ e.timestamp = clock
  BY <1>1
<1>6. cache \in [0 .. Capacity - 1 -> Entries]
  BY DEF CacheTypeOK
<1> HIDE DEF Entries, e
<1>7. /\ cache' \in [0 .. Capacity - 1 -> Entries]
      /\ \A i \in DOMAIN cache' : cache'[i].timestamp <= clock
  BY <1>1, <1>2, <1>4, <1>5, <1>6 DEF e
<1> QED
  BY <1>3, <1>4, <1>7 DEF CacheTypeOK, Entries

LEMMA ClearTypes ==
  ASSUME ClearExpired, CacheTypeOK, \A i \in DOMAIN cache : cache[i].timestamp <= clock
  PROVE  /\ CacheTypeOK' /\ (\A i \in DOMAIN cache : cache[i].timestamp <= clock)'
         /\ \A i \in 0 .. size - 1 :
              cache[i].timestamp > 0 /\ clock - cache[i].timestamp <= window => cache'[i] = cache[i]
<1> DEFINE Entries == [frame : Frames, scope : Scopes, timestamp : 0 .. MaxClock]
<1>1. /\ size \in Nat /\ window \in Nat /\ clock \in Nat \ {0}
      /\ size <= Capacity /\ Capacity \in Nat /\ MaxClock \in Nat
  BY Depth DEF CacheTypeOK
<1>2. cache \in [0 .. Capacity - 1 -> Entries]
  BY DEF CacheTypeOK
<1>3. Blank \in Entries /\ Blank.timestamp = 0
  <2>1. cache[0] \in Entries
    BY <1>2, Depth
  <2>2. (CHOOSE f \in Frames : TRUE) \in Frames
    BY <2>1
  <2> QED
    BY <1>1, <2>2 DEF Blank, Scopes
<1> HIDE DEF Entries
<1>4. \A i \in 0 .. Capacity - 1 :
        /\ Expired(cache[i]) \in Entries /\ cache[i].timestamp <= clock
        /\ Expired(cache[i]).timestamp <= clock
        /\ cache[i].timestamp > 0 /\ clock - cache[i].timestamp <= window =>
             Expired(cache[i]) = cache[i]
  <2> TAKE i \in 0 .. Capacity - 1
  <2>1. cache[i] \in Entries /\ cache[i].timestamp <= clock
    BY <1>2
  <2>2. cache[i].timestamp \in Nat
    BY <2>1, Depth DEF Entries
  <2>3. Expired(cache[i]) = Blank \/ Expired(cache[i]) = cache[i]
    BY DEF Expired
  <2>4. cache[i].timestamp > 0 /\ clock - cache[i].timestamp <= window =>
             Expired(cache[i]) = cache[i]
    BY <1>1, <2>2 DEF Expired
  <2> QED
    BY <1>1, <1>3, <2>1, <2>3, <2>4
<1>5. /\ cache' = [i \in DOMAIN cache |-> IF i < size THEN Expired(cache[i]) ELSE cache[i]]
      /\ UNCHANGED <<cacheIndex, size, window, enabled, clock>>
  BY DEF ClearExpired
<1>6. /\ cache' \in [0 .. Capacity - 1 -> Entries]
      /\ \A i \in 0 .. Capacity - 1 : cache'[i].timestamp <= clock
      /\ \A i \in 0 .. size - 1 :
           cache[i].timestamp > 0 /\ clock - cache[i].timestamp <= window => cache'[i] = cache[i]
  BY <1>1, <1>2, <1>4, <1>5
<1> QED
  BY <1>5, <1>6 DEF CacheTypeOK, Entries

\* Letting a copy through keeps the ring and what it remembers, and is no echo.
LEMMA PassKeeps ==
  ASSUME RxInv, stage \in Scopes, Pass
  PROVE  /\ CacheTypeOK' /\ (\A i \in DOMAIN cache : cache[i].timestamp <= clock)'
         /\ echoed' = FALSE /\ passed' \in [Scopes -> [Frames -> Memory]]
         /\ \A s \in Scopes, f \in Frames :
              (passed[s][f].room > 0 => Remembered(s, f, passed[s][f]))'
<1> DEFINE p == passed[stage][copy.frame]
           fresh == [at |-> clock, since |-> 0, room |-> size, span |-> window]
           New(inserted) == IF inserted /\ enabled THEN fresh ELSE Unprotected(clock)
<1>1. /\ CacheTypeOK /\ \A i \in DOMAIN cache : cache[i].timestamp <= clock
      /\ echoed = FALSE /\ passed \in [Scopes -> [Frames -> Memory]]
      /\ \A s \in Scopes, f \in Frames :
           passed[s][f].room > 0 => Remembered(s, f, passed[s][f])
  BY DEF RxInv, DispatchTypeOK
<1>2. copy.frame \in Frames
  <2>1. copy \in Copies
    BY DEF RxInv, DispatchTypeOK
  <2> QED
    BY <2>1, CopyAssumption DEF CopyAssumption
<1>3. /\ size \in Nat \ {0} /\ window \in Nat /\ clock \in 1 .. MaxClock /\ MaxClock \in Nat
  BY <1>1, Depth DEF CacheTypeOK
<1>4. p \in Memory
  BY <1>1, <1>2
<1>5. p.room \in Nat /\ p.at \in Nat /\ p.span \in Nat
  BY <1>4, Depth DEF Memory
<1>6. ~(p.room > 0 /\ clock - p.at <= p.span)
  <2> SUFFICES ASSUME p.room > 0, clock - p.at <= p.span PROVE FALSE
    OBVIOUS
  <2>1. enabled /\ Found(copy.frame, stage)
    BY <1>2, FoundAgain
  <2> QED
    BY <2>1 DEF Pass
<1>7. \A q \in Memory : q.since + 1 < q.room => Aged(q) = [q EXCEPT !.since = @ + 1]
  <2> TAKE q \in Memory
  <2>1. q.since \in Nat /\ q.room \in Nat
    BY DEF Memory
  <2> QED
    BY <2>1 DEF Aged
<1>8. \A q \in Memory : /\ Aged(q) \in Memory
                        /\ q.since + 1 >= q.room => Aged(q).room = 0
                        /\ q.since + 1 < q.room => Aged(q).room = q.room
  <2> TAKE q \in Memory
  <2>1. q.since \in Nat /\ q.room \in Nat /\ q.at \in 0 .. MaxClock
    BY DEF Memory
  <2>2. Unprotected(q.at) \in Memory /\ Unprotected(q.at).room = 0
    BY <2>1 DEF Unprotected, Memory
  <2>3. [q EXCEPT !.since = @ + 1] \in Memory /\ [q EXCEPT !.since = @ + 1].room = q.room
    BY <2>1 DEF Memory
  <2> QED
    BY <2>1, <2>2, <2>3 DEF Aged
<1>9. fresh \in Memory /\ Unprotected(clock) \in Memory /\ Unprotected(clock).room = 0
  BY <1>3 DEF Unprotected, Memory
<1> HIDE DEF fresh
<1>10. CASE looking /\ ~Found(copy.frame, stage) /\ Insert(copy.frame, stage) /\ Note(TRUE)
  <2>1. CacheTypeOK' /\ (\A i \in DOMAIN cache : cache[i].timestamp <= clock)'
    BY <1>1, <1>2, <1>10, InsertTypes
  <2>2. /\ echoed' = FALSE
        /\ passed' = [s \in Scopes |-> [f \in Frames |->
             IF s = stage /\ f = copy.frame THEN New(TRUE) ELSE Aged(passed[s][f])]]
    BY <1>1, <1>6, <1>10 DEF Note, fresh
  <2>3. New(TRUE) \in Memory
    BY <1>9
  <2> HIDE DEF New
  <2>4. passed' \in [Scopes -> [Frames -> Memory]]
    BY <1>1, <1>8, <2>2, <2>3
  <2>5. ASSUME NEW s \in Scopes, NEW f \in Frames
        PROVE  (passed[s][f].room > 0 => Remembered(s, f, passed[s][f]))'
    <3> SUFFICES ASSUME passed'[s][f].room > 0
                 PROVE  Remembered(s, f, passed[s][f])'
      OBVIOUS
    <3>1. PICK q \in Memory : q = passed'[s][f]
      BY <2>4
    <3>2. Remembered(s, f, q)'
      <4>1. CASE s = stage /\ f = copy.frame
        <5>1. q = New(TRUE)
          BY <2>2, <3>1, <4>1
        <5>2. New(TRUE) = fresh /\ enabled
          BY <1>9, <3>1, <5>1 DEF New
        <5>3. q = [at |-> clock, since |-> 0, room |-> size, span |-> window]
          BY <5>1, <5>2 DEF fresh
        <5>4. Insert(f, s)
          BY <1>10, <4>1
        <5> QED
          BY <1>1, <2>1, <5>2, <5>3, <5>4, JustInserted
      <4>2. CASE ~(s = stage /\ f = copy.frame)
        <5>1. PICK r \in Memory : r = passed[s][f]
          BY <1>1
        <5>2. q = Aged(r)
          BY <2>2, <3>1, <4>2, <5>1
        <5>3. r.since + 1 < r.room /\ r.room > 0 /\ q = [r EXCEPT !.since = @ + 1]
          <6>1. r.since \in Nat /\ r.room \in Nat
            BY DEF Memory
          <6>2. ~(r.since + 1 >= r.room)
            BY <1>8, <3>1, <5>2
          <6> QED
            BY <1>7, <5>2, <6>1, <6>2
        <5>4. Remembered(s, f, r)
          BY <1>1, <5>1, <5>3
        <5>5. Remembered(s, f, [r EXCEPT !.since = @ + 1])'
          BY <1>1, <1>10, <2>1, <5>3, <5>4, OneNearer
        <5> QED
          BY <5>3, <5>5
      <4> QED
        BY <4>1, <4>2
    <3> QED
      BY <3>1, <3>2 DEF Remembered
  <2> QED
    BY <2>1, <2>2, <2>4, <2>5
<1>11. CASE ~looking /\ ~enabled /\ UNCHANGED cacheVars /\ Note(FALSE)
  <2>1. CacheTypeOK' /\ (\A i \in DOMAIN cache : cache[i].timestamp <= clock)'
    BY <1>1, <1>11 DEF CacheTypeOK, cacheVars
  <2>2. /\ echoed' = FALSE
        /\ passed' = [s \in Scopes |-> [f \in Frames |->
             IF s = stage /\ f = copy.frame THEN Unprotected(clock) ELSE passed[s][f]]]
    BY <1>1, <1>6, <1>11 DEF Note
  <2>3. passed' \in [Scopes -> [Frames -> Memory]]
    BY <1>1, <1>9, <2>2
  <2>4. \A s \in Scopes, f \in Frames : ~(passed[s][f].room > 0)
    BY <1>1, <1>11 DEF Remembered
  <2>5. \A s \in Scopes, f \in Frames : ~(passed'[s][f].room > 0)
    BY <1>9, <2>2, <2>4
  <2> QED
    BY <2>1, <2>2, <2>3, <2>5
<1> QED
  BY <1>10, <1>11 DEF Pass

\* A step that inserts nothing and takes no protection away.
LEMMA NothingPassed ==
  ASSUME RxInv, DispatchTypeOK', UNCHANGED <<passed, echoed>>,
         size' >= size, window' >= window, enabled => enabled', cacheIndex' = cacheIndex,
         clock' >= clock,
         \A i \in 0 .. size - 1 :
           cache[i].timestamp > 0 /\ clock - cache[i].timestamp <= window => cache'[i] = cache[i]
  PROVE  RxInv'
<1>1. CacheTypeOK /\ CacheTypeOK'
  BY DEF RxInv, DispatchTypeOK
<1>2. ASSUME NEW s \in Scopes, NEW f \in Frames, passed[s][f].room > 0
      PROVE  Remembered(s, f, passed[s][f])'
  <2>1. PICK p \in Memory : p = passed[s][f]
    BY DEF RxInv
  <2>2. Remembered(s, f, p)
    BY <1>2, <2>1 DEF RxInv
  <2>3. enabled'
    BY <2>2 DEF Remembered
  <2>4. Remembered(s, f, p)'
    BY <1>1, <2>2, <2>3, StillThere
  <2> QED
    BY <2>1, <2>4 DEF Remembered
<1> QED
  BY <1>2 DEF RxInv

LEMMA StepRx == RxInv /\ [RxNext]_rxVars => RxInv'
<1> SUFFICES ASSUME RxInv, [RxNext]_rxVars PROVE RxInv'
  OBVIOUS
<1>1. /\ DispatchTypeOK /\ CacheTypeOK /\ \A i \in DOMAIN cache : cache[i].timestamp <= clock
      /\ echoed = FALSE /\ passed \in [Scopes -> [Frames -> Memory]]
      /\ AnyCopy \in Copies
  BY CopyAssumption DEF RxInv, DispatchTypeOK, CopyAssumption, AnyCopy
<1>2. size \in Nat /\ window \in Nat /\ clock \in Nat
  BY <1>1, Depth DEF CacheTypeOK
<1>3. ASSUME NEW c \in Copies, Hear(c) PROVE RxInv'
  <2>1. DispatchTypeOK'
    BY <1>1, <1>3, CopyAssumption
       DEF Hear, DispatchTypeOK, CacheTypeOK, cacheVars, Scopes, CopyAssumption
  <2> QED
    BY <1>2, <1>3, <2>1, NothingPassed DEF Hear, cacheVars
<1>4. CASE BeginTest
  <2>1. /\ CacheTypeOK' /\ (\A i \in DOMAIN cache : cache[i].timestamp <= clock)'
        /\ \A i \in 0 .. size - 1 :
             cache[i].timestamp > 0 /\ clock - cache[i].timestamp <= window => cache'[i] = cache[i]
    BY <1>1, <1>4, ClearTypes DEF BeginTest
  <2>2. DispatchTypeOK'
    BY <1>1, <1>4, <2>1 DEF BeginTest, DispatchTypeOK
  <2> QED
    BY <1>2, <1>4, <2>1, <2>2, NothingPassed DEF BeginTest, ClearExpired
<1>5. ASSUME Pass, Proceed, stage \in Scopes, rewritten' \in BOOLEAN, repeated' \subseteq Frames,
             verdict' \in {"duplicate", "dropped", "sent"}
      PROVE  RxInv'
  <2>1. /\ CacheTypeOK' /\ (\A i \in DOMAIN cache : cache[i].timestamp <= clock)'
        /\ echoed' = FALSE /\ passed' \in [Scopes -> [Frames -> Memory]]
        /\ \A s \in Scopes, f \in Frames :
             (passed[s][f].room > 0 => Remembered(s, f, passed[s][f]))'
    BY <1>5, PassKeeps
  <2>2. stage' \in Scopes \cup {"idle"} /\ looking' \in BOOLEAN /\ copy' \in Copies
    BY <1>1, <1>5 DEF Proceed, NextStage, DispatchTypeOK, Scopes
  <2> QED
    BY <1>5, <2>1, <2>2 DEF RxInv, DispatchTypeOK
<1>6. ASSUME Duplicate, Proceed, rewritten' \in BOOLEAN PROVE RxInv'
  <2>1. stage' \in Scopes \cup {"idle"} /\ looking' \in BOOLEAN /\ copy' \in Copies
    BY <1>1, <1>6 DEF Proceed, NextStage, DispatchTypeOK, Scopes
  <2>2. DispatchTypeOK'
    BY <1>1, <1>6, <2>1 DEF Duplicate, DispatchTypeOK, CacheTypeOK, cacheVars
  <2> QED
    BY <1>2, <1>6, <2>2, NothingPassed DEF Duplicate, cacheVars
<1>7. \A wanted : Outcomes(wanted) \subseteq {"dropped", "sent"}
  BY DEF Outcomes
<1>8. CASE DigiPass
  <2>1. copy.frame \in Frames
    BY <1>1, CopyAssumption DEF DispatchTypeOK, CopyAssumption
  <2>2. repeated' \subseteq Frames
    BY <1>1, <1>8, <2>1 DEF DigiPass, DispatchTypeOK
  <2>3. verdict' \in {"duplicate", "dropped", "sent"} /\ stage \in Scopes
    BY <1>7, <1>8 DEF DigiPass, Scopes
  <2>4. rewritten' \in BOOLEAN
    BY <1>8, CopyAssumption DEF DigiPass, CopyAssumption
  <2> QED
    BY <1>5, <1>8, <2>2, <2>3, <2>4 DEF DigiPass
<1>9. CASE DigiDuplicate
  BY <1>1, <1>6, <1>9 DEF DigiDuplicate, DispatchTypeOK
<1>10. CASE GatePass
  <2>1. verdict' \in {"duplicate", "dropped", "sent"} /\ stage \in Scopes
    BY <1>7, <1>10 DEF GatePass, Scopes
  <2> QED
    BY <1>1, <1>5, <1>10, <2>1 DEF GatePass, DispatchTypeOK
<1>11. CASE GateDuplicate
  BY <1>6, <1>11 DEF GateDuplicate
<1>12. CASE Save
  <2>1. DispatchTypeOK'
    BY <1>1, <1>12 DEF Save, SaveSettings, handVars, DispatchTypeOK, CacheTypeOK
  <2>2. CASE size' < size \/ window' < window \/ ~enabled'
    <3>1. passed' = [s \in Scopes |-> [f \in Frames |-> Unprotected(passed[s][f].at)]]
      BY <1>12, <2>2 DEF Save
    <3>2. \A p \in Memory : Unprotected(p.at) \in Memory /\ Unprotected(p.at).room = 0
      BY DEF Unprotected, Memory
    <3>3. /\ passed' \in [Scopes -> [Frames -> Memory]]
          /\ \A s \in Scopes, f \in Frames : passed'[s][f].room = 0
      BY <1>1, <3>1, <3>2
    <3> QED
      BY <1>1, <1>12, <2>1, <3>3 DEF RxInv, Save
  <2>3. CASE ~(size' < size \/ window' < window \/ ~enabled')
    <3>1. size' \in Nat /\ window' \in Nat
      BY <2>1, Depth DEF DispatchTypeOK, CacheTypeOK
    <3>2. size' >= size /\ window' >= window /\ enabled'
      BY <1>2, <2>3, <3>1
    <3> QED
      BY <1>2, <1>12, <2>1, <2>3, <3>2, NothingPassed DEF Save, SaveSettings
  <2> QED
    BY <2>2, <2>3
<1>13. CASE RxTick
  <2>1. clock' = clock + 1 /\ clock < MaxClock
    BY <1>13 DEF RxTick
  <2>2. UNCHANGED <<cache, cacheIndex, size, window, enabled, handVars, passed, repeated, echoed>>
    BY <1>13 DEF RxTick
  <2>3. clock' \in 1 .. MaxClock
    BY <1>1, <2>1, Depth DEF CacheTypeOK
  <2>4. CacheTypeOK'
    BY <1>1, <2>2, <2>3 DEF CacheTypeOK
  <2>5. (\A i \in DOMAIN cache : cache[i].timestamp <= clock)'
    <3>1. \A i \in DOMAIN cache : cache[i].timestamp \in Nat
      BY <1>1, Depth DEF CacheTypeOK
    <3> QED
      BY <1>1, <1>2, <2>1, <2>2, <3>1
  <2>6. DispatchTypeOK'
    BY <1>1, <2>2, <2>4, <2>5 DEF DispatchTypeOK, handVars
  <2>7. clock' >= clock
    BY <1>2, <2>1
  <2> QED
    BY <1>2, <2>2, <2>6, <2>7, NothingPassed
<1>14. CASE UNCHANGED rxVars
  <2>1. DispatchTypeOK'
    BY <1>1, <1>14 DEF rxVars, cacheVars, handVars, DispatchTypeOK, CacheTypeOK
  <2> QED
    BY <1>2, <1>14, <2>1, NothingPassed DEF rxVars, cacheVars
<1> QED
  BY <1>3, <1>4, <1>8, <1>9, <1>10, <1>11, <1>12, <1>13, <1>14 DEF RxNext

\* The ring of the duplicate cache stays a ring under every change of its depth, and
\* a frame a consumer let through is known to it again for the window, until as many
\* others as the ring is deep came in or the settings changed (igate.c:248-360).
THEOREM CacheKept == RxSpec => []CacheSound
<1>1. RxInv => CacheSound
  BY DEF RxInv, CacheSound, NoEcho
<1> QED
  BY <1>1, InitRx, StepRx, PTL DEF RxSpec

-----------------------------------------------------------------------------
(* The beacon scheduler's round: three position beacons, three status      *)
(* beacons, weather, telemetry and the capabilities line.                  *)

\* The values the round keeps.
TimerTypes ==
  /\ left \in [Timers -> Nat] /\ interval \in [Timers -> Intervals]
  /\ turn \in 0 .. 10 /\ wait \in Nat /\ busy \in 0 .. MaxBusy /\ booting \in BOOLEAN
  /\ overdue \in [Services -> Nat] /\ since \in [Services -> 0 .. Spaced]

\* The services this pass has called already.
Called == {Order[i] : i \in 1 .. turn - 1}
Slack(s) == IF s \in seen THEN 0 ELSE IdleCheck

\* What has gone by since a transmission and what is left to the next are enough apart.
Apart == ~crowded /\ \A s \in Services : since[s] + left[s] >= Spaced

\* Nothing is overdue that is not due, or while the modem is waited for.
DueFirst ==
  /\ \A s \in Services : left[s] > 0 => overdue[s] = 0
  /\ booting => turn = 0 /\ \A s \in Services : overdue[s] = 0

\* The sleep ends with the first service that is due, give or take what its pass took.
SleepShort ==
  turn = 0 /\ ~booting => \A s \in Services : overdue[s] + wait <= left[s] + Slack(s) + MaxBusy

\* In a pass a service that was called is asleep already, as it were, and one that was not
\* is late by a pass and what this one took so far.
PassShort ==
  turn > 0 => \A s \in Services :
    IF s \in Called THEN overdue[s] + wait <= left[s] + Slack(s) + busy
                    ELSE overdue[s] <= Slack(s) + MaxBusy + busy

TimerInv == TimerTypes /\ Apart /\ DueFirst /\ SleepShort /\ PassShort

LEMMA Numbers ==
  /\ MinInterval \in Nat /\ DefInterval \in Nat /\ SlowInterval \in Nat /\ FastInterval \in Nat
  /\ IdleCheck \in Nat /\ IdleCheck > 0 /\ PollCap \in Nat /\ CornerPoll \in Nat
  /\ Jitter \in Nat /\ MaxBusy \in Nat
  /\ MinInterval <= DefInterval /\ Jitter < MinInterval /\ Spaced \in Nat /\ Spaced > 0
  /\ SlowInterval > 0 /\ FastInterval > 0
<1>1. /\ MinInterval \in Nat /\ DefInterval \in Nat /\ SlowInterval \in Nat /\ FastInterval \in Nat
      /\ IdleCheck \in Nat /\ IdleCheck > 0 /\ PollCap \in Nat /\ CornerPoll \in Nat
      /\ Jitter \in Nat /\ MaxBusy \in Nat /\ SlowInterval > 0 /\ FastInterval > 0
  BY BeaconAssumption DEF BeaconAssumption
<1>2. MinInterval <= DefInterval /\ Jitter < MinInterval
  BY BeaconAssumption DEF BeaconAssumption
<1> QED
  BY <1>1, <1>2 DEF Spaced

LEMMA ServicesAre == Services = {Order[i] : i \in 1 .. 9} /\ Len(Order) = 9 /\ DOMAIN Order = 1 .. 9
BY DEF Services, Order

LEMMA ServiceIsTimer == Services \subseteq Timers /\ "info" \in Timers /\ "info" \notin Services
<1>1. "info" \notin Services
  BY ServicesAre DEF Order
<1> QED
  BY <1>1 DEF Timers

\* An interval of the page, once clamped and jittered, is never shorter than what beacons
\* are spaced by.
LEMMA DueLater ==
  ASSUME NEW i \in Nat, NEW due \in Jittered(Clamped(i))
  PROVE  due \in Nat /\ due >= Spaced /\ due > 0
<1>1. Clamped(i) \in Nat /\ Clamped(i) >= MinInterval
  BY Numbers DEF Clamped
<1> QED
  BY <1>1, Numbers DEF Jittered, Spaced

LEMMA TimersFirst == TimerInit => TimerInv
<1> SUFFICES ASSUME TimerInit PROVE TimerInv
  OBVIOUS
<1>1. PICK i \in Intervals : interval = [t \in Timers |-> i]
  BY DEF TimerInit
<1>2. /\ left = [t \in Timers |-> 0] /\ turn = 0 /\ wait = PollCap /\ booting = TRUE /\ busy = 0
      /\ overdue = [s \in Services |-> 0] /\ since = [s \in Services |-> Spaced] /\ crowded = FALSE
  BY DEF TimerInit
<1>3. TimerTypes
  BY <1>1, <1>2, Numbers DEF TimerTypes
<1>4. Apart
  BY <1>2, Numbers, ServiceIsTimer DEF Apart
<1>5. DueFirst /\ SleepShort /\ PassShort
  BY <1>2 DEF DueFirst, SleepShort, PassShort
<1> QED
  BY <1>3, <1>4, <1>5 DEF TimerInv

\* A service is called: it transmits and is due again no sooner than beacons are spaced, or
\* is not due yet, or is off; and it asks to be called again by then.
LEMMA CallKeeps ==
  ASSUME TimerInv, NEW s \in Services, NEW due \in Nat, NEW asked \in Nat,
         turn \in 1 .. 9, Order[turn] = s, Answer(asked),
         left' \in [Timers -> Nat], left'[s] = due,
         \A r \in Services : r # s => left'[r] = left[r],
         overdue' = [overdue EXCEPT ![s] = overdue'[s]], overdue'[s] = 0,
         since' = [since EXCEPT ![s] = since'[s]], since'[s] \in 0 .. Spaced,
         since'[s] + due >= Spaced, ~crowded',
         \A r \in Services : r # s => (r \in seen' <=> r \in seen),
         IF s \in seen' THEN asked <= due ELSE asked <= IdleCheck
  PROVE  TimerInv'
<1>0. /\ TimerTypes /\ Apart /\ DueFirst /\ PassShort
  BY DEF TimerInv
<1>1. /\ wait' = Least(wait, asked) /\ turn' = turn + 1
      /\ UNCHANGED <<interval, booting, busy>>
  BY DEF Answer, settings
<1>2. /\ wait \in Nat /\ wait' \in Nat /\ wait' <= wait /\ wait' <= asked /\ turn' \in 0 .. 10 /\ turn' > 0
      /\ busy \in Nat
  BY <1>0, <1>1, Numbers DEF TimerTypes, Least
<1>3. overdue' \in [Services -> Nat] /\ since' \in [Services -> 0 .. Spaced]
      /\ \A r \in Services : r # s => overdue'[r] = overdue[r] /\ since'[r] = since[r]
  <2>1. overdue \in [Services -> Nat] /\ since \in [Services -> 0 .. Spaced] /\ 0 \in Nat
    BY <1>0 DEF TimerTypes
  <2>2. overdue' \in [Services -> Nat] /\ \A r \in Services : r # s => overdue'[r] = overdue[r]
    BY <2>1
  <2>3. since' \in [Services -> 0 .. Spaced] /\ \A r \in Services : r # s => since'[r] = since[r]
    BY <2>1
  <2> QED
    BY <2>2, <2>3
<1>4. TimerTypes'
  BY <1>0, <1>1, <1>2, <1>3 DEF TimerTypes
<1>5. Apart'
  BY <1>0, <1>3 DEF Apart
<1>6. DueFirst'
  <2>1. ~booting'
    BY <1>0, <1>1 DEF DueFirst
  <2> QED
    BY <1>0, <1>3, <2>1 DEF DueFirst
<1>7. SleepShort'
  BY <1>2 DEF SleepShort
<1>8. PassShort'
  <2>1. s \in Called' /\ \A r \in Services : r # s => (r \in Called' <=> r \in Called)
    <3>1. turn \in Nat /\ turn' - 1 = turn
      BY <1>1
    <3>2. \A i \in 1 .. turn : i = turn \/ i \in 1 .. turn - 1
      BY <3>1
    <3>3. turn \in 1 .. turn /\ \A i \in 1 .. turn - 1 : i \in 1 .. turn
      BY <3>1
    <3> QED
      BY <3>1, <3>2, <3>3 DEF Called
  <2> SUFFICES ASSUME NEW r \in Services
               PROVE  IF r \in Called' THEN overdue'[r] + wait' <= left'[r] + Slack(r)' + busy'
                                       ELSE overdue'[r] <= Slack(r)' + MaxBusy + busy'
    BY DEF PassShort
  <2>2. CASE r = s
    <3>1. wait' <= due + Slack(s)'
      BY <1>2, Numbers DEF Slack
    <3>2. Slack(s)' \in Nat
      BY Numbers DEF Slack
    <3> QED
      BY <1>1, <1>2, <2>1, <2>2, <3>1, <3>2
  <2>3. CASE r # s
    <3>1. Slack(r)' = Slack(r) /\ Slack(r) \in Nat
      BY <2>3, Numbers DEF Slack
    <3>2. overdue'[r] = overdue[r] /\ left'[r] = left[r] /\ overdue[r] \in Nat /\ left[r] \in Nat
      BY <1>0, <1>3, <2>3, ServiceIsTimer DEF TimerTypes
    <3>3. IF r \in Called THEN overdue[r] + wait <= left[r] + Slack(r) + busy
                          ELSE overdue[r] <= Slack(r) + MaxBusy + busy
      BY <1>0 DEF PassShort
    <3>4. CASE r \in Called
      BY <1>1, <1>2, <2>1, <2>3, <3>1, <3>2, <3>3, <3>4
    <3>5. CASE r \notin Called
      BY <1>1, <2>1, <2>3, <3>1, <3>2, <3>3, <3>5
    <3> QED
      BY <3>4, <3>5
  <2> QED
    BY <2>2, <2>3
<1> QED
  BY <1>4, <1>5, <1>6, <1>7, <1>8 DEF TimerInv

\* What a service leaves behind that transmits, or rests.
LEMMA SentOrNot ==
  ASSUME TimerInv, NEW s \in Services, NEW due,
         \/ Sends(s) /\ Wanted(s) /\ left[s] = 0 /\ due \in Nat /\ due >= Spaced
         \/ Rests(s) /\ Wanted(s) /\ left[s] > 0 /\ due = left[s]
         \/ Rests(s) /\ ~Wanted(s) /\ due = 0
  PROVE  /\ due \in Nat
         /\ overdue' = [overdue EXCEPT ![s] = overdue'[s]] /\ overdue'[s] = 0
         /\ since' = [since EXCEPT ![s] = since'[s]] /\ since'[s] \in 0 .. Spaced
         /\ since'[s] + due >= Spaced /\ ~crowded'
         /\ \A r \in Services : r # s => (r \in seen' <=> r \in seen)
         /\ s \in seen' <=> Wanted(s)
         /\ Wanted(s) => due > 0
<1>1. /\ overdue \in [Services -> Nat] /\ since \in [Services -> 0 .. Spaced] /\ ~crowded
      /\ left[s] \in Nat /\ since[s] \in 0 .. Spaced /\ since[s] + left[s] >= Spaced
      /\ left[s] > 0 => overdue[s] = 0
  BY ServiceIsTimer DEF TimerInv, TimerTypes, Apart, DueFirst
<1>2. CASE Sends(s) /\ Wanted(s) /\ left[s] = 0 /\ due \in Nat /\ due >= Spaced
  <2>1. /\ seen' = seen \cup {s} /\ since' = [since EXCEPT ![s] = 0] /\ overdue' = [overdue EXCEPT ![s] = 0]
        /\ crowded' = (crowded \/ since[s] < Spaced)
    BY <1>2 DEF Sends
  <2>2. since'[s] = 0 /\ overdue'[s] = 0
    BY <1>1, <2>1
  <2>3. ~(since[s] < Spaced)
    BY <1>1, <1>2, Numbers
  <2>4. ~crowded'
    BY <1>1, <2>1, <2>3, Zenon
  <2>5. overdue' = [overdue EXCEPT ![s] = overdue'[s]] /\ since' = [since EXCEPT ![s] = since'[s]]
    BY <2>1, <2>2
  <2>6. 0 \in 0 .. Spaced /\ due > 0 /\ 0 + due >= Spaced
    BY <1>2, Numbers
  <2> QED
    BY <1>2, <2>1, <2>2, <2>4, <2>5, <2>6
<1>3. CASE Rests(s) /\ Wanted(s) /\ left[s] > 0 /\ due = left[s]
  <2>1. /\ seen' = seen \cup {s} /\ since' = [since EXCEPT ![s] = since[s]]
        /\ overdue' = [overdue EXCEPT ![s] = overdue[s]] /\ crowded' = crowded
    BY <1>3 DEF Rests
  <2>2. since'[s] = since[s] /\ overdue'[s] = overdue[s] /\ overdue[s] = 0
    BY <1>1, <1>3, <2>1
  <2>3. overdue' = [overdue EXCEPT ![s] = overdue'[s]] /\ since' = [since EXCEPT ![s] = since'[s]]
    BY <2>1, <2>2
  <2> QED
    BY <1>1, <1>3, <2>1, <2>2, <2>3
<1>4. CASE Rests(s) /\ ~Wanted(s) /\ due = 0
  <2>1. /\ seen' = seen \ {s} /\ since' = [since EXCEPT ![s] = Spaced]
        /\ overdue' = [overdue EXCEPT ![s] = 0] /\ crowded' = crowded
    BY <1>4 DEF Rests
  <2>2. since'[s] = Spaced /\ overdue'[s] = 0
    BY <1>1, <2>1
  <2>3. overdue' = [overdue EXCEPT ![s] = overdue'[s]] /\ since' = [since EXCEPT ![s] = since'[s]]
    BY <2>1, <2>2
  <2>4. Spaced \in 0 .. Spaced /\ Spaced + due >= Spaced /\ due \in Nat
    BY <1>4, Numbers
  <2> QED
    BY <1>1, <1>4, <2>1, <2>2, <2>3, <2>4
<1> QED
  BY <1>2, <1>3, <1>4

LEMMA IntervalIsNat == TimerInv => \A t \in Timers : interval[t] \in Nat
BY BeaconAssumption DEF BeaconAssumption, TimerInv, TimerTypes

LEMMA PeriodicStep ==
  ASSUME TimerInv, NEW s \in Services, Periodic(s)
  PROVE  TimerInv'
<1>1. /\ turn \in 1 .. 9 /\ Order[turn] = s
      /\ IF Wanted(s) /\ left[s] = 0 THEN Sends(s) ELSE Rests(s)
  BY ServicesAre DEF Periodic
<1>2. PICK due \in IF ~Wanted(s) THEN {0}
                   ELSE IF left[s] > 0 THEN {left[s]} ELSE Jittered(Clamped(interval[s])) :
        left' = [left EXCEPT ![s] = due] /\ Answer(Wishes(s, due))
  BY DEF Periodic
<1>3. left \in [Timers -> Nat] /\ left[s] \in Nat /\ interval[s] \in Nat /\ s \in Timers
  BY ServiceIsTimer, IntervalIsNat DEF TimerInv, TimerTypes
<1>4. \/ Sends(s) /\ Wanted(s) /\ left[s] = 0 /\ due \in Nat /\ due >= Spaced
      \/ Rests(s) /\ Wanted(s) /\ left[s] > 0 /\ due = left[s]
      \/ Rests(s) /\ ~Wanted(s) /\ due = 0
  <2>1. CASE ~Wanted(s)
    BY <1>1, <1>2, <2>1
  <2>2. CASE Wanted(s) /\ left[s] > 0
    BY <1>1, <1>2, <1>3, <2>2
  <2>3. CASE Wanted(s) /\ ~(left[s] > 0)
    <3>1. left[s] = 0
      BY <1>3, <2>3
    <3>2. due \in Jittered(Clamped(interval[s]))
      BY <1>2, <2>3
    <3> QED
      BY <1>1, <1>3, <2>3, <3>1, <3>2, DueLater
  <2> QED
    BY <2>1, <2>2, <2>3
<1>5. /\ due \in Nat
      /\ overdue' = [overdue EXCEPT ![s] = overdue'[s]] /\ overdue'[s] = 0
      /\ since' = [since EXCEPT ![s] = since'[s]] /\ since'[s] \in 0 .. Spaced
      /\ since'[s] + due >= Spaced /\ ~crowded'
      /\ \A r \in Services : r # s => (r \in seen' <=> r \in seen)
      /\ s \in seen' <=> Wanted(s)
      /\ Wanted(s) => due > 0
  BY <1>4, SentOrNot
<1>6. Wishes(s, due) \in Nat /\ (IF s \in seen' THEN Wishes(s, due) <= due ELSE Wishes(s, due) <= IdleCheck)
  BY <1>5, Numbers DEF Wishes
<1>7. /\ left' \in [Timers -> Nat] /\ left'[s] = due
      /\ \A r \in Services : r # s => left'[r] = left[r]
  BY <1>2, <1>3, <1>5, ServiceIsTimer
<1> QED
  BY <1>1, <1>2, <1>5, <1>6, <1>7, CallKeeps

LEMMA TelemetryStep ==
  ASSUME TimerInv, Telemetry
  PROVE  TimerInv'
<1> DEFINE s == "telemetry"
           info == IF ~Wanted(s) \/ InfoEvery = 0 THEN 0
                   ELSE IF left["info"] = 0 THEN InfoEvery ELSE left["info"]
           rest == IF InfoEvery = 0 THEN MinInterval ELSE info
<1>0. s \in Services
  <2>1. 8 \in 1 .. 9 /\ Order[8] = "telemetry"
    BY DEF Order
  <2> QED
    BY <2>1, ServicesAre
<1>1. /\ turn \in 1 .. 9 /\ Order[turn] = s
      /\ IF Wanted(s) /\ left[s] = 0 THEN Sends(s) ELSE Rests(s)
  BY ServicesAre DEF Telemetry
<1>2. PICK due \in IF ~Wanted(s) THEN {0}
                   ELSE IF left[s] > 0 THEN {left[s]} ELSE Jittered(Clamped(interval[s])) :
        /\ left' = [left EXCEPT ![s] = due, !["info"] = info]
        /\ Answer(IF Wanted(s) THEN Wishes(s, Least(due, rest)) ELSE IdleCheck)
  BY DEF Telemetry
<1>3. /\ left \in [Timers -> Nat] /\ left[s] \in Nat /\ interval[s] \in Nat /\ s \in Timers
      /\ left["info"] \in Nat /\ InfoEvery \in Nat
  <2>1. left \in [Timers -> Nat] /\ s \in Timers /\ "info" \in Timers
    BY <1>0, ServiceIsTimer DEF TimerInv, TimerTypes
  <2>2. interval[s] \in Nat /\ interval["info"] \in Nat
    BY <2>1, IntervalIsNat
  <2>3. InfoEvery \in Nat
    BY <2>2, Numbers DEF InfoEvery, Clamped
  <2> QED
    BY <2>1, <2>2, <2>3
<1>4. \/ Sends(s) /\ Wanted(s) /\ left[s] = 0 /\ due \in Nat /\ due >= Spaced
      \/ Rests(s) /\ Wanted(s) /\ left[s] > 0 /\ due = left[s]
      \/ Rests(s) /\ ~Wanted(s) /\ due = 0
  <2>1. CASE ~Wanted(s)
    BY <1>1, <1>2, <2>1
  <2>2. CASE Wanted(s) /\ left[s] > 0
    BY <1>1, <1>2, <1>3, <2>2
  <2>3. CASE Wanted(s) /\ ~(left[s] > 0)
    <3>1. left[s] = 0
      BY <1>3, <2>3
    <3>2. due \in Jittered(Clamped(interval[s]))
      BY <1>2, <2>3
    <3> QED
      BY <1>1, <1>3, <2>3, <3>1, <3>2, DueLater
  <2> QED
    BY <2>1, <2>2, <2>3
<1>5. info \in Nat /\ (Wanted(s) => rest \in Nat /\ rest > 0)
  BY <1>3, Numbers
<1>6. /\ due \in Nat
      /\ overdue' = [overdue EXCEPT ![s] = overdue'[s]] /\ overdue'[s] = 0
      /\ since' = [since EXCEPT ![s] = since'[s]] /\ since'[s] \in 0 .. Spaced
      /\ since'[s] + due >= Spaced /\ ~crowded'
      /\ \A r \in Services : r # s => (r \in seen' <=> r \in seen)
      /\ s \in seen' <=> Wanted(s)
      /\ Wanted(s) => due > 0
  BY <1>0, <1>4, SentOrNot
<1> HIDE DEF info, rest
<1> DEFINE asked == IF Wanted(s) THEN Wishes(s, Least(due, rest)) ELSE IdleCheck
<1>7. asked \in Nat /\ (IF s \in seen' THEN asked <= due ELSE asked <= IdleCheck)
  <2>1. CASE Wanted(s)
    <3>1. Least(due, rest) \in Nat /\ Least(due, rest) <= due /\ Least(due, rest) > 0
      BY <1>5, <1>6, <2>1 DEF Least
    <3> QED
      BY <1>6, <2>1, <3>1 DEF Wishes
  <2>2. CASE ~Wanted(s)
    BY <1>6, <2>2, Numbers
  <2> QED
    BY <2>1, <2>2
<1>8. /\ left' \in [Timers -> Nat] /\ left'[s] = due
      /\ \A r \in Services : r # s => left'[r] = left[r]
  <2>1. \A r \in Services : r \in Timers /\ r # "info"
    BY ServiceIsTimer
  <2>2. s # "info" /\ "info" \in Timers
    BY ServiceIsTimer
  <2> HIDE DEF s
  <2> QED
    BY <1>2, <1>3, <1>5, <1>6, <2>1, <2>2
<1>9. Answer(asked)
  BY <1>2
<1> HIDE DEF s, asked
<1> QED
  BY <1>0, <1>1, <1>6, <1>7, <1>8, <1>9, CallKeeps

LEMMA TrackerStep ==
  ASSUME TimerInv, Tracker
  PROVE  TimerInv'
<1> DEFINE s      == "tracker"
           watch  == Wanted(s) /\ smart /\ fix # NoFix
           corner == watch /\ left[s] > 0 /\ Pegs
           send   == Wanted(s) /\ (left[s] = 0 \/ corner)
<1>0. s \in Services
  <2>1. 1 \in 1 .. 9 /\ Order[1] = "tracker"
    BY DEF Order
  <2> QED
    BY <2>1, ServicesAre
<1>1. turn \in 1 .. 9 /\ Order[turn] = s
  BY ServicesAre DEF Tracker
<1>2. PICK due \in IF ~Wanted(s) THEN {0} ELSE IF send THEN Jittered(TrackerEvery) ELSE {left[s]} :
        /\ left' = [left EXCEPT ![s] = due]
        /\ Answer(IF Wanted(s) /\ smart THEN Least(Wishes(s, due), CornerPoll) ELSE Wishes(s, due))
  BY DEF Tracker
<1>3. /\ left \in [Timers -> Nat] /\ left[s] \in Nat /\ interval[s] \in Nat /\ s \in Timers
      /\ since \in [Services -> 0 .. Spaced] /\ overdue \in [Services -> Nat]
      /\ since[s] + left[s] >= Spaced /\ since[s] \in 0 .. Spaced /\ ~crowded
  BY <1>0, ServiceIsTimer, IntervalIsNat DEF TimerInv, TimerTypes, Apart
<1>4. IF send
      THEN /\ since' = [since EXCEPT ![s] = 0] /\ seen' = seen \cup {s}
           /\ overdue' = [overdue EXCEPT ![s] = 0]
           /\ crowded' = (crowded \/ (~corner /\ since[s] < Spaced))
      ELSE Rests(s)
  BY DEF Tracker
<1>5. /\ due \in Nat
      /\ overdue' = [overdue EXCEPT ![s] = overdue'[s]] /\ overdue'[s] = 0
      /\ since' = [since EXCEPT ![s] = since'[s]] /\ since'[s] \in 0 .. Spaced
      /\ since'[s] + due >= Spaced /\ ~crowded'
      /\ \A r \in Services : r # s => (r \in seen' <=> r \in seen)
      /\ s \in seen' <=> Wanted(s)
      /\ Wanted(s) => due > 0
  <2>1. CASE send
    <3>1. due \in Jittered(TrackerEvery)
      BY <1>2, <2>1
    <3>2. TrackerEvery = Clamped(interval[s]) \/ TrackerEvery = Clamped(FastInterval)
          \/ TrackerEvery = Clamped(SlowInterval)
      BY DEF TrackerEvery
    <3>3. due \in Nat /\ due >= Spaced /\ due > 0
      BY <1>3, <3>1, <3>2, DueLater, Numbers
    <3>4. /\ since' = [since EXCEPT ![s] = 0] /\ seen' = seen \cup {s}
          /\ overdue' = [overdue EXCEPT ![s] = 0]
          /\ crowded' = (crowded \/ (~corner /\ since[s] < Spaced))
      BY <1>4, <2>1
    <3>5. left[s] = 0 => ~(since[s] < Spaced)
      BY <1>3, Numbers
    <3>6. ~(~corner /\ since[s] < Spaced)
      BY <2>1, <3>5
    <3> HIDE DEF corner, s
    <3>7. ~crowded'
      BY <1>3, <3>4, <3>6, Zenon
    <3>8. since'[s] = 0 /\ overdue'[s] = 0
      BY <1>0, <1>3, <3>4
    <3>9. 0 \in 0 .. Spaced /\ 0 + due >= Spaced
      BY <3>3, Numbers
    <3>10. overdue' = [overdue EXCEPT ![s] = overdue'[s]] /\ since' = [since EXCEPT ![s] = since'[s]]
      BY <3>4, <3>8
    <3>11. Wanted(s)
      BY <2>1 DEF s
    <3> QED
      BY <3>3, <3>4, <3>7, <3>8, <3>9, <3>10, <3>11
  <2>2. CASE ~send
    <3>1. \/ Rests(s) /\ Wanted(s) /\ left[s] > 0 /\ due = left[s]
          \/ Rests(s) /\ ~Wanted(s) /\ due = 0
      BY <1>2, <1>3, <1>4, <2>2
    <3> HIDE DEF s
    <3> QED
      BY <1>0, <3>1, SentOrNot
  <2> QED
    BY <2>1, <2>2
<1> HIDE DEF send, corner, watch
<1> DEFINE asked == IF Wanted(s) /\ smart THEN Least(Wishes(s, due), CornerPoll) ELSE Wishes(s, due)
<1>6. asked \in Nat /\ (IF s \in seen' THEN asked <= due ELSE asked <= IdleCheck)
  <2>1. Wishes(s, due) \in Nat /\ (IF s \in seen' THEN Wishes(s, due) <= due ELSE Wishes(s, due) <= IdleCheck)
    BY <1>5, Numbers DEF Wishes
  <2> HIDE DEF s
  <2> QED
    BY <2>1, Numbers DEF Least
<1>7. /\ left' \in [Timers -> Nat] /\ left'[s] = due
      /\ \A r \in Services : r # s => left'[r] = left[r]
  BY <1>2, <1>3, <1>5, ServiceIsTimer
<1>8. Answer(asked)
  BY <1>2
<1> HIDE DEF s, asked
<1> QED
  BY <1>0, <1>1, <1>5, <1>6, <1>7, <1>8, CallKeeps

LEMMA TickStep ==
  ASSUME TimerInv, TimerTick
  PROVE  TimerInv'
<1>0. TimerTypes /\ Apart /\ DueFirst /\ SleepShort /\ PassShort
  BY DEF TimerInv
<1>1. /\ left' = [t \in Timers |-> Less(left[t])]
      /\ overdue' = [s \in Services |->
                       IF Wanted(s) /\ left[s] = 0 /\ ~booting THEN overdue[s] + 1 ELSE 0]
      /\ since' = [s \in Services |-> Least(since[s] + 1, Spaced)]
      /\ UNCHANGED <<interval, turn, booting, seen, crowded>>
  BY DEF TimerTick, settings
<1>2. \/ turn = 0 /\ wait > 0 /\ wait' = wait - 1 /\ busy' = busy
      \/ turn # 0 /\ busy < MaxBusy /\ busy' = busy + 1 /\ wait' = wait
  BY DEF TimerTick
<1>3. /\ turn \in 0 .. 10 /\ wait \in Nat /\ busy \in 0 .. MaxBusy /\ wait' \in Nat /\ busy' \in 0 .. MaxBusy
  BY <1>0, <1>2, Numbers DEF TimerTypes
<1>4. ASSUME NEW s \in Services
      PROVE  /\ left[s] \in Nat /\ left'[s] \in Nat /\ overdue[s] \in Nat /\ overdue'[s] \in Nat
             /\ since[s] \in 0 .. Spaced /\ since'[s] \in 0 .. Spaced
             /\ since'[s] = IF since[s] < Spaced THEN since[s] + 1 ELSE Spaced
             /\ left[s] = 0 => left'[s] = 0 /\ overdue'[s] <= overdue[s] + 1
             /\ left[s] > 0 => left'[s] = left[s] - 1 /\ overdue'[s] = 0
             /\ booting => overdue'[s] = 0
  <2>1. /\ left[s] \in Nat /\ overdue[s] \in Nat /\ since[s] \in 0 .. Spaced /\ s \in Timers
    BY <1>0, ServiceIsTimer DEF TimerTypes
  <2>2. left'[s] = Less(left[s]) /\ since'[s] = Least(since[s] + 1, Spaced)
        /\ overdue'[s] = IF Wanted(s) /\ left[s] = 0 /\ ~booting THEN overdue[s] + 1 ELSE 0
    BY <1>1, <2>1
  <2>3. since'[s] \in 0 .. Spaced /\ since'[s] = IF since[s] < Spaced THEN since[s] + 1 ELSE Spaced
    BY <2>1, <2>2, Numbers DEF Least
  <2> QED
    BY <2>1, <2>2, <2>3 DEF Less
<1>5. TimerTypes'
  <2>1. \A t \in Timers : Less(left[t]) \in Nat
    BY <1>0 DEF TimerTypes, Less
  <2>2. left' \in [Timers -> Nat]
    BY <1>1, <2>1
  <2>3. overdue' \in [Services -> Nat]
    <3>1. \A s \in Services : overdue'[s] \in Nat
      BY <1>4
    <3>2. overdue' = [s \in Services |-> overdue'[s]]
      BY <1>1
    <3> QED
      BY <3>1, <3>2
  <2>4. since' \in [Services -> 0 .. Spaced]
    <3>1. \A s \in Services : since'[s] \in 0 .. Spaced
      BY <1>4
    <3>2. since' = [s \in Services |-> since'[s]]
      BY <1>1
    <3> QED
      BY <3>1, <3>2
  <2> QED
    BY <1>0, <1>1, <1>3, <2>2, <2>3, <2>4 DEF TimerTypes
<1>6. Apart'
  <2> SUFFICES ASSUME NEW s \in Services PROVE since'[s] + left'[s] >= Spaced
    BY <1>0, <1>1 DEF Apart
  <2>1. since[s] + left[s] >= Spaced
    BY <1>0 DEF Apart
  <2> QED
    BY <1>4, <2>1, Numbers
<1>7. DueFirst'
  <2>1. \A s \in Services : left'[s] > 0 => overdue'[s] = 0
    BY <1>4
  <2>2. booting' => turn' = 0 /\ \A s \in Services : overdue'[s] = 0
    BY <1>0, <1>1, <1>4 DEF DueFirst
  <2> QED
    BY <2>1, <2>2 DEF DueFirst
<1>8. \A s \in Services : Slack(s)' = Slack(s) /\ Slack(s) \in Nat
  BY <1>1, Numbers DEF Slack
<1>9. SleepShort'
  <2> SUFFICES ASSUME turn = 0, ~booting, NEW s \in Services
               PROVE  overdue'[s] + wait' <= left'[s] + Slack(s)' + MaxBusy
    BY <1>1 DEF SleepShort
  <2>1. overdue[s] + wait <= left[s] + Slack(s) + MaxBusy
    BY <1>0 DEF SleepShort
  <2>2. wait' = wait - 1
    BY <1>2
  <2> QED
    BY <1>3, <1>4, <1>8, <2>1, <2>2, Numbers
<1>10. PassShort'
  <2> SUFFICES ASSUME turn > 0, NEW s \in Services
               PROVE  IF s \in Called' THEN overdue'[s] + wait' <= left'[s] + Slack(s)' + busy'
                                       ELSE overdue'[s] <= Slack(s)' + MaxBusy + busy'
    BY <1>1 DEF PassShort
  <2>1. Called' = Called
    BY <1>1 DEF Called
  <2>2. busy' = busy + 1 /\ wait' = wait
    BY <1>2
  <2>3. CASE s \in Called
    <3>1. overdue[s] + wait <= left[s] + Slack(s) + busy
      BY <1>0, <2>3 DEF PassShort
    <3>2. overdue'[s] + wait <= left'[s] + Slack(s) + busy + 1
      BY <1>3, <1>4, <1>8, <3>1
    <3>3. overdue'[s] + wait' <= left'[s] + Slack(s)' + busy'
      BY <1>3, <1>4, <1>8, <2>2, <3>2, Numbers
    <3> QED
      BY <2>1, <2>3, <3>3
  <2>4. CASE s \notin Called
    <3>1. overdue[s] <= Slack(s) + MaxBusy + busy
      BY <1>0, <2>4 DEF PassShort
    <3>2. overdue'[s] <= Slack(s) + MaxBusy + busy + 1
      BY <1>3, <1>4, <1>8, <3>1, Numbers
    <3>3. overdue'[s] <= Slack(s)' + MaxBusy + busy'
      BY <1>3, <1>4, <1>8, <2>2, <3>2, Numbers
    <3> QED
      BY <2>1, <2>4, <3>3
  <2> QED
    BY <2>3, <2>4
<1> QED
  BY <1>5, <1>6, <1>7, <1>9, <1>10 DEF TimerInv

LEMMA TimersStep == TimerInv /\ [TimerNext]_timerVars => TimerInv'
<1> SUFFICES ASSUME TimerInv, [TimerNext]_timerVars PROVE TimerInv'
  OBVIOUS
<1>0. TimerTypes /\ Apart /\ DueFirst /\ SleepShort /\ PassShort
  BY DEF TimerInv
\* a step that is none of the timers'
<1>a. ASSUME UNCHANGED <<left, turn, wait, booting, busy, overdue, seen, since, crowded>>,
             interval' \in [Timers -> Intervals]
      PROVE  TimerInv'
  <2>1. TimerTypes'
    BY <1>0, <1>a DEF TimerTypes
  <2>2. Called' = Called /\ \A s \in Services : Slack(s)' = Slack(s)
    BY <1>a DEF Called, Slack
  <2>3. Apart' /\ DueFirst'
    BY <1>0, <1>a DEF Apart, DueFirst
  <2>4. SleepShort' /\ PassShort'
    BY <1>0, <1>a, <2>2 DEF SleepShort, PassShort
  <2> QED
    BY <2>1, <2>3, <2>4 DEF TimerInv
<1>b. interval \in [Timers -> Intervals]
  BY <1>0 DEF TimerTypes
<1>1. CASE TimerTick
  BY <1>1, TickStep
<1>2. CASE PageSaved
  <2>1. interval' = interval \/ \E s \in Saved, i \in Intervals : interval' = [interval EXCEPT ![s] = i]
    BY <1>2 DEF PageSaved
  <2>2. interval' \in [Timers -> Intervals]
    BY <1>b, <2>1
  <2> QED
    BY <1>2, <1>a, <2>2 DEF PageSaved, task, ghosts
<1>3. CASE Move
  BY <1>3, <1>a, <1>b DEF Move, settings, task, ghosts
<1>4. CASE Notify
  BY <1>4, <1>a, <1>b DEF Notify, settings, ghosts
<1>5. CASE Tracker
  BY <1>5, TrackerStep
<1>6. CASE \/ IgateBeacon \/ DigiBeacon \/ TrackerStatus \/ IgateStatus \/ DigiStatus \/ Weather
           \/ Capabilities
  <2>1. PICK s \in {"igate", "digi", "trackerStatus", "igateStatus", "digiStatus", "weather",
                    "capabilities"} : Periodic(s)
    BY <1>6 DEF IgateBeacon, DigiBeacon, TrackerStatus, IgateStatus, DigiStatus, Weather, Capabilities
  <2>2. s \in Services
    <3>1. Order[turn] = s /\ turn \in 1 .. 9
      BY <2>1, ServicesAre DEF Periodic
    <3> QED
      BY <3>1, ServicesAre
  <2> QED
    BY <2>1, <2>2, PeriodicStep
<1>7. CASE Telemetry
  BY <1>7, TelemetryStep
<1>8. CASE Sleep
  <2>1. turn > 9 /\ turn' = 0 /\ busy' = 0
        /\ UNCHANGED <<interval, left, wait, booting, overdue, seen, since, crowded>>
    BY <1>8, ServicesAre DEF Sleep, settings, ghosts
  <2>2. turn = 10
    BY <1>0, <2>1 DEF TimerTypes
  <2>3. Called = Services
    BY <2>2, ServicesAre DEF Called
  <2>4. TimerTypes'
    <3>1. turn' \in 0 .. 10 /\ busy' \in 0 .. MaxBusy
      BY <2>1, Numbers
    <3> QED
      BY <1>0, <2>1, <3>1 DEF TimerTypes
  <2>5. Apart' /\ DueFirst' /\ PassShort'
    BY <1>0, <2>1 DEF Apart, DueFirst, PassShort
  <2>6. SleepShort'
    <3> SUFFICES ASSUME NEW s \in Services
                 PROVE  overdue[s] + wait <= left[s] + Slack(s)' + MaxBusy
      BY <2>1 DEF SleepShort
    <3>1. overdue[s] + wait <= left[s] + Slack(s) + busy
      BY <1>0, <2>2, <2>3 DEF PassShort
    <3>2. Slack(s)' = Slack(s) /\ Slack(s) \in Nat
      BY <2>1, Numbers DEF Slack
    <3>3. /\ overdue[s] \in Nat /\ left[s] \in Nat /\ wait \in Nat /\ busy \in 0 .. MaxBusy
      BY <1>0, ServiceIsTimer DEF TimerTypes
    <3> QED
      BY <3>1, <3>2, <3>3, Numbers
  <2> QED
    BY <2>4, <2>5, <2>6 DEF TimerInv
<1>9. CASE NextPass
  <2>1. /\ turn = 0 /\ turn' = 1 /\ wait' = PollCap /\ booting' = FALSE
        /\ UNCHANGED <<interval, left, busy, overdue, seen, since, crowded>>
    BY <1>9 DEF NextPass, settings, ghosts
  <2>2. TimerTypes'
    <3>1. turn' \in 0 .. 10 /\ wait' \in Nat
      BY <2>1, Numbers
    <3>2. booting' \in BOOLEAN
      BY <2>1
    <3>3. UNCHANGED <<interval, left, busy, overdue, since>>
      BY <2>1
    <3> QED
      BY <1>0, <3>1, <3>2, <3>3 DEF TimerTypes
  <2>3. Apart' /\ DueFirst' /\ SleepShort'
    BY <1>0, <2>1 DEF Apart, DueFirst, SleepShort
  <2>4. PassShort'
    <3>1. Called' = {}
      BY <2>1 DEF Called
    <3> SUFFICES ASSUME NEW s \in Services
                 PROVE  overdue[s] <= Slack(s)' + MaxBusy + busy
      BY <2>1, <3>1 DEF PassShort
    <3>2. Slack(s)' = Slack(s) /\ Slack(s) \in Nat
      BY <2>1, Numbers DEF Slack
    <3>3. /\ overdue[s] \in Nat /\ left[s] \in Nat /\ wait \in Nat /\ busy \in 0 .. MaxBusy
      BY <1>0, ServiceIsTimer DEF TimerTypes
    <3>4. left[s] > 0 => overdue[s] = 0
      BY <1>0 DEF DueFirst
    <3>5. CASE booting
      <4>1. overdue[s] = 0
        BY <1>0, <3>5 DEF DueFirst
      <4> QED
        BY <3>2, <3>3, <4>1, Numbers
    <3>6. CASE ~booting
      <4>1. overdue[s] + wait <= left[s] + Slack(s) + MaxBusy
        BY <1>0, <2>1, <3>6 DEF SleepShort
      <4> QED
        BY <3>2, <3>3, <3>4, <4>1, Numbers
    <3> QED
      BY <1>0, <3>5, <3>6 DEF TimerTypes
  <2> QED
    BY <2>2, <2>3, <2>4 DEF TimerInv
<1>10. CASE UNCHANGED timerVars
  BY <1>10, <1>a, <1>b DEF timerVars, settings, task, ghosts
<1> QED
  BY <1>1, <1>2, <1>3, <1>4, <1>5, <1>6, <1>7, <1>8, <1>9, <1>10 DEF TimerNext

\* A beacon that is due goes out within the time of two passes, and two never within the
\* least interval less its jitter: for any settings, page saves, turns, wake-ups, and however
\* long the transmissions of a pass take (beacon_scheduler.c:177-202, beacon.c:1204-1700).
THEOREM TimersKept == TimerSpec => []TimersSound
<1>1. TimerInv => TimersSound
  <2> SUFFICES ASSUME TimerInv PROVE TimersSound
    OBVIOUS
  <2>0. TimerTypes /\ Apart /\ DueFirst /\ SleepShort /\ PassShort
    BY DEF TimerInv
  <2>1. NotCrowded
    BY <2>0 DEF Apart, NotCrowded
  <2>2. ASSUME NEW s \in Services PROVE overdue[s] <= Slack(s) + 2 * MaxBusy
    <3>1. /\ overdue[s] \in Nat /\ left[s] \in Nat /\ wait \in Nat /\ busy \in 0 .. MaxBusy
          /\ Slack(s) \in Nat /\ turn \in 0 .. 10 /\ booting \in BOOLEAN
      BY <2>0, ServiceIsTimer, Numbers DEF TimerTypes, Slack
    <3>2. CASE left[s] > 0 \/ booting
      <4>1. overdue[s] = 0
        BY <2>0, <3>2 DEF DueFirst
      <4> QED
        BY <3>1, <4>1, Numbers
    <3>3. CASE left[s] = 0 /\ ~booting /\ turn = 0
      <4>1. overdue[s] + wait <= left[s] + Slack(s) + MaxBusy
        BY <2>0, <3>3 DEF SleepShort
      <4> QED
        BY <3>1, <3>3, <4>1, Numbers
    <3>4. CASE left[s] = 0 /\ turn > 0
      <4>1. IF s \in Called THEN overdue[s] + wait <= left[s] + Slack(s) + busy
                            ELSE overdue[s] <= Slack(s) + MaxBusy + busy
        BY <2>0, <3>4 DEF PassShort
      <4>2. overdue[s] <= Slack(s) + MaxBusy + busy
        BY <3>1, <3>4, <4>1, Numbers
      <4> QED
        BY <3>1, <4>2, Numbers
    <3> QED
      BY <3>1, <3>2, <3>3, <3>4
  <2>3. OnTime
    BY <2>2 DEF OnTime, Slack
  <2> QED
    BY <2>1, <2>3 DEF TimersSound
<1> QED
  BY TimersFirst, TimersStep, <1>1, PTL DEF TimerSpec

=============================================================================
