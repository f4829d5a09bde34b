-------------------------- MODULE HeardList_proofs --------------------------
(***************************************************************************)
(* The last-heard table, for every table size, number of hours, clock and  *)
(* set of callsigns: after a frame its station's row is in front and the   *)
(* only one of it, with the stamp and the hops of the last frame the air   *)
(* brought; the other rows are other stations', as they were.  What both   *)
(* gates are proved from (Inet_proofs and Sending_proofs).                 *)
(***************************************************************************)
EXTENDS HeardHours, SequenceTheorems, TLAPS

Row == [call : Calls, rf : Nat, inet : Nat, hops : Nat, viaRf : BOOLEAN, viaBm : BOOLEAN,
        direct : BOOLEAN, packets : Nat, hourly : [1 .. Hours -> Nat], slot : Nat, rolled : BOOLEAN]

\* Each station has one row.
OneRowEach(list) == \A i, j \in DOMAIN list : list[i].call = list[j].call => i = j

LEMMA HeardNumbers ==
  /\ Capacity \in Nat /\ Capacity > 0 /\ HourLen \in Nat /\ HourLen > 0 /\ ValidFrom \in Nat /\ ValidFrom > 0
  /\ Hours \in Nat /\ CountMax \in Nat /\ PacketsMax \in Nat
<1> QED
  BY HeardAssumption

\* What closes up over an element.
LEMMA RemovedAt ==
  ASSUME NEW S, NEW list \in Seq(S), NEW k \in 1 .. Len(list)
  PROVE  /\ RemoveAt(list, k) \in Seq(S) /\ Len(RemoveAt(list, k)) = Len(list) - 1
         /\ \A j \in 1 .. Len(list) - 1 : RemoveAt(list, k)[j] = IF j < k THEN list[j] ELSE list[j + 1]
<1> DEFINE a == SubSeq(list, 1, k - 1)
           b == SubSeq(list, k + 1, Len(list))
<1>1. a \in Seq(S) /\ Len(a) = k - 1 /\ \A j \in 1 .. k - 1 : a[j] = list[j]
  OBVIOUS
<1>2. b \in Seq(S) /\ Len(b) = Len(list) - k /\ \A j \in 1 .. Len(list) - k : b[j] = list[k + j]
  OBVIOUS
<1>3. RemoveAt(list, k) = a \o b
  BY DEF RemoveAt
<1> HIDE DEF a, b
<1>. a \in Seq(S) /\ b \in Seq(S)
  BY <1>1, <1>2
<1>4. a \o b \in Seq(S) /\ Len(a \o b) = Len(a) + Len(b)
      /\ \A j \in 1 .. Len(a) + Len(b) : (a \o b)[j] = IF j <= Len(a) THEN a[j] ELSE b[j - Len(a)]
  BY ConcatProperties
<1>5. Len(a) + Len(b) = Len(list) - 1 /\ Len(list) \in Nat
  BY <1>1, <1>2
<1>6. ASSUME NEW j \in 1 .. Len(list) - 1
      PROVE  (a \o b)[j] = IF j < k THEN list[j] ELSE list[j + 1]
  <2>1. CASE j < k
    <3>1. j \in 1 .. k - 1
      BY <1>5, <2>1
    <3> QED
      BY <1>1, <1>4, <1>5, <2>1, <3>1
  <2>2. CASE ~(j < k)
    <3>1. j - (k - 1) \in 1 .. Len(list) - k /\ k + (j - (k - 1)) = j + 1
      BY <1>5, <2>2
    <3>2. b[j - (k - 1)] = list[j + 1]
      BY <1>2, <3>1
    <3> QED
      BY <1>1, <1>4, <1>5, <2>2, <3>2
  <2> QED
    BY <2>1, <2>2
<1> QED
  BY <1>3, <1>4, <1>5, <1>6

\* A row keeps its fields whatever a frame leaves in it.
LEMMA RolledIsRow ==
  ASSUME NEW r \in Row, NEW time \in Nat
  PROVE  /\ Rolled(r, time) \in Row
         /\ Rolled(r, time).call = r.call /\ Rolled(r, time).rf = r.rf /\ Rolled(r, time).hops = r.hops
<1>1. CASE time < ValidFrom
  BY <1>1 DEF Rolled
<1>2. CASE ~(time < ValidFrom)
  <2> DEFINE hour == time \div HourLen
             gone == IF r.rolled THEN Elapsed(r.slot, hour) ELSE 0
             hourly == [h \in 1 .. Hours |-> IF h > gone THEN r.hourly[h - gone] ELSE 0]
             slot == IF r.rolled THEN r.slot + gone ELSE hour
             new == [r EXCEPT !.hourly = hourly, !.slot = slot, !.rolled = TRUE]
  <2>1. Rolled(r, time) = new
    BY <1>2 DEF Rolled
  <2>2. hour \in Nat
    BY HeardNumbers
  <2>3. r.slot \in Nat /\ r.hourly \in [1 .. Hours -> Nat]
    BY DEF Row
  <2>4. gone \in Nat
    <3> HIDE DEF hour
    <3> QED
      BY <2>2, <2>3 DEF Elapsed
  <2>5. hourly \in [1 .. Hours -> Nat]
    <3> HIDE DEF gone
    <3>1. ASSUME NEW h \in 1 .. Hours, h > gone PROVE r.hourly[h - gone] \in Nat
      <4>1. h - gone \in 1 .. Hours
        BY <2>4, <3>1, HeardNumbers
      <4> QED
        BY <2>3, <4>1
    <3> QED
      BY <3>1
  <2>6. slot \in Nat
    <3> HIDE DEF hour, gone
    <3> QED
      BY <2>2, <2>3, <2>4
  <2> HIDE DEF hourly, slot
  <2>7. new \in Row /\ new.call = r.call /\ new.rf = r.rf /\ new.hops = r.hops
    BY <2>5, <2>6 DEF Row
  <2> QED
    BY <2>1, <2>7
<1> QED
  BY <1>1, <1>2

\* What a frame tells of itself.
FrameTold(frame) ==
  frame.rf \in BOOLEAN /\ frame.direct \in BOOLEAN /\ frame.bm \in BOOLEAN /\ frame.hops \in Nat

LEMMA StampedIsRow ==
  ASSUME NEW r \in Row, NEW time \in Nat, NEW frame, FrameTold(frame)
  PROVE  /\ Stamped(r, time, frame) \in Row /\ Stamped(r, time, frame).call = r.call
         /\ Stamped(r, time, frame).rf = IF frame.rf THEN time ELSE r.rf
         /\ Stamped(r, time, frame).hops = IF frame.rf THEN frame.hops ELSE r.hops
<1> DEFINE old == Rolled(r, time)
           hourly == [h \in 1 .. Hours |-> IF h = 1 THEN Lesser(old.hourly[h] + 1, CountMax) ELSE old.hourly[h]]
           row == [old EXCEPT !.hourly = hourly]
           net == ~frame.rf \/ frame.tcpip
           rf == IF StampsRf(frame) THEN time ELSE row.rf
           hops == IF frame.rf THEN frame.hops ELSE row.hops
           inet == IF net THEN time ELSE row.inet
           packets == Lesser(row.packets + 1, PacketsMax)
           direct == (frame.rf /\ frame.direct)
           bm == (~frame.rf /\ frame.bm)
           new == [row EXCEPT !.rf = rf, !.hops = hops, !.inet = inet, !.viaRf = frame.rf,
                              !.direct = direct, !.viaBm = bm, !.packets = packets]
<1>0. frame.rf \in BOOLEAN /\ frame.direct \in BOOLEAN /\ frame.bm \in BOOLEAN /\ frame.hops \in Nat
  BY DEF FrameTold
<1>1. old \in Row /\ old.call = r.call /\ old.rf = r.rf /\ old.hops = r.hops
  BY RolledIsRow
<1>2. Stamped(r, time, frame) = new
  BY DEF Stamped, Counted
<1> HIDE DEF old
<1>3. hourly \in [1 .. Hours -> Nat]
  <2>1. old.hourly \in [1 .. Hours -> Nat]
    BY <1>1 DEF Row
  <2>2. \A h \in 1 .. Hours : Lesser(old.hourly[h] + 1, CountMax) \in Nat
    BY <2>1, HeardNumbers DEF Lesser
  <2> QED
    BY <2>1, <2>2
<1> HIDE DEF hourly
<1>4. row \in Row /\ row.call = r.call /\ row.rf = r.rf /\ row.hops = r.hops
  BY <1>1, <1>3 DEF Row
<1> HIDE DEF row
<1>5. row.packets \in Nat /\ row.inet \in Nat /\ row.rf \in Nat /\ row.hops \in Nat
  BY <1>4 DEF Row
<1>6. rf = IF frame.rf THEN time ELSE r.rf
  BY <1>4 DEF StampsRf
<1>7. rf \in Nat /\ hops \in Nat /\ inet \in Nat
  BY <1>0, <1>5
<1>8. packets \in Nat
  BY <1>5, HeardNumbers DEF Lesser
<1>9. direct \in BOOLEAN /\ bm \in BOOLEAN
  BY <1>0
<1>10. hops = IF frame.rf THEN frame.hops ELSE r.hops
  BY <1>4
<1> HIDE DEF rf, hops, inet, packets, direct, bm
<1>11. new \in Row /\ new.call = row.call /\ new.rf = rf /\ new.hops = hops
  BY ZenonT(30), <1>0, <1>4, <1>7, <1>8, <1>9 DEF Row
<1> QED
  BY <1>2, <1>4, <1>6, <1>10, <1>11

LEMMA NewRowIsRow ==
  ASSUME NEW c \in Calls
  PROVE  NewRow(c) \in Row /\ NewRow(c).call = c /\ NewRow(c).rf = 0
<1> DEFINE none == [h \in 1 .. Hours |-> 0]
<1>1. none \in [1 .. Hours -> Nat]
  OBVIOUS
<1>2. NewRow(c) = [call |-> c, rf |-> 0, inet |-> 0, hops |-> 0, viaRf |-> FALSE, viaBm |-> FALSE,
                   direct |-> FALSE, packets |-> 0, hourly |-> none, slot |-> 0, rolled |-> FALSE]
  BY DEF NewRow
<1> HIDE DEF none
<1> QED
  BY <1>1, <1>2 DEF Row

LEMMA HeardRowIs ==
  ASSUME NEW list \in Seq(Row), OneRowEach(list), NEW c \in Calls
  PROVE  /\ HeardRow(list, c) \in Row /\ HeardRow(list, c).call = c
         /\ \A i \in DOMAIN list : list[i].call = c => HeardRow(list, c) = list[i]
         /\ HeardRows(list, c) = {} => HeardRow(list, c).rf = 0
<1>1. CASE HeardRows(list, c) = {}
  BY <1>1, NewRowIsRow DEF HeardRow, HeardRows
<1>2. CASE HeardRows(list, c) # {}
  <2> DEFINE k == CHOOSE i \in HeardRows(list, c) : TRUE
  <2>1. k \in HeardRows(list, c)
    BY <1>2
  <2>2. HeardRow(list, c) = list[k]
    BY <1>2 DEF HeardRow
  <2>3. k \in DOMAIN list /\ list[k].call = c
    BY <2>1 DEF HeardRows
  <2> HIDE DEF k
  <2>4. list[k] \in Row
    BY <2>3
  <2> QED
    BY <1>2, <2>2, <2>3, <2>4 DEF OneRowEach
<1> QED
  BY <1>1, <1>2

\* The rows that stay behind are other stations' rows, each where it comes from, once.
LEMMA WithoutRowIs ==
  ASSUME NEW list \in Seq(Row), OneRowEach(list), NEW c
  PROVE  /\ WithoutRow(list, c) \in Seq(Row) /\ OneRowEach(WithoutRow(list, c))
         /\ \A j \in DOMAIN WithoutRow(list, c) : WithoutRow(list, c)[j].call # c /\
               \E i \in DOMAIN list : list[i] = WithoutRow(list, c)[j]
<1>1. CASE HeardRows(list, c) = {}
  BY <1>1 DEF WithoutRow, HeardRows
<1>2. CASE HeardRows(list, c) # {}
  <2> DEFINE k == CHOOSE i \in HeardRows(list, c) : TRUE
             rest == WithoutRow(list, c)
  <2>1. k \in HeardRows(list, c)
    BY <1>2
  <2>2. rest = RemoveAt(list, k)
    BY <1>2 DEF WithoutRow
  <2>3. k \in 1 .. Len(list) /\ list[k].call = c
    BY <2>1 DEF HeardRows
  <2> HIDE DEF k, rest
  <2>4. /\ rest \in Seq(Row) /\ Len(rest) = Len(list) - 1
        /\ \A j \in 1 .. Len(list) - 1 : rest[j] = IF j < k THEN list[j] ELSE list[j + 1]
    BY <2>2, <2>3, RemovedAt
  <2>5. DOMAIN rest = 1 .. Len(list) - 1 /\ DOMAIN list = 1 .. Len(list) /\ Len(list) \in Nat
    BY <2>4
  <2> DEFINE at(j) == IF j < k THEN j ELSE j + 1
  <2>6. ASSUME NEW j \in DOMAIN rest
        PROVE  at(j) \in DOMAIN list /\ at(j) # k /\ rest[j] = list[at(j)]
    BY <2>3, <2>4, <2>5
  <2>7. \A j, m \in DOMAIN rest : at(j) = at(m) => j = m
    BY <2>3, <2>5
  <2> HIDE DEF at
  <2>8. \A j \in DOMAIN rest : rest[j].call # c
    BY <2>3, <2>5, <2>6 DEF OneRowEach
  <2>9. OneRowEach(rest)
    BY <2>6, <2>7 DEF OneRowEach
  <2> QED
    BY <2>4, <2>6, <2>8, <2>9 DEF rest
<1> QED
  BY <1>1, <1>2

LEMMA OthersAre ==
  ASSUME NEW list \in Seq(Row), OneRowEach(list), NEW c
  PROVE  /\ Others(list, c) \in Seq(Row) /\ OneRowEach(Others(list, c))
         /\ \A j \in DOMAIN Others(list, c) : Others(list, c)[j].call # c /\
               \E i \in DOMAIN list : list[i] = Others(list, c)[j]
<1> DEFINE rest == WithoutRow(list, c)
<1>1. /\ rest \in Seq(Row) /\ OneRowEach(rest)
      /\ \A j \in DOMAIN rest : rest[j].call # c /\ \E i \in DOMAIN list : list[i] = rest[j]
  BY WithoutRowIs
<1>2. Others(list, c) = IF Len(rest) < Capacity THEN rest ELSE Front(rest)
  BY DEF Others
<1> HIDE DEF rest
<1>3. CASE Len(rest) < Capacity
  BY <1>1, <1>2, <1>3
<1>4. CASE ~(Len(rest) < Capacity)
  <2>1. Len(rest) \in Nat /\ Len(rest) >= 1
    BY <1>1, <1>4, HeardNumbers
  <2>2. Front(rest) = SubSeq(rest, 1, Len(rest) - 1)
    BY DEF Front
  <2>3. /\ Front(rest) \in Seq(Row) /\ DOMAIN Front(rest) = 1 .. Len(rest) - 1
        /\ \A j \in 1 .. Len(rest) - 1 : Front(rest)[j] = rest[j]
    BY <1>1, <2>1, <2>2
  <2>4. DOMAIN Front(rest) \subseteq DOMAIN rest /\ \A j \in DOMAIN Front(rest) : Front(rest)[j] = rest[j]
    BY <1>1, <2>1, <2>3
  <2> QED
    BY <1>1, <1>2, <1>4, <2>3, <2>4 DEF OneRowEach
<1> QED
  BY <1>3, <1>4

\* The table after a frame: its station in front, the others as they were.
LEMMA AddedIs ==
  ASSUME NEW list \in Seq(Row), OneRowEach(list), NEW time \in Nat, NEW c \in Calls,
         NEW frame, FrameTold(frame)
  PROVE  /\ Added(list, time, c, frame) \in Seq(Row) /\ OneRowEach(Added(list, time, c, frame))
         /\ 1 \in DOMAIN Added(list, time, c, frame)
         /\ Added(list, time, c, frame)[1] = Stamped(HeardRow(list, c), time, frame)
         /\ Added(list, time, c, frame)[1].call = c
         /\ \A j \in DOMAIN Added(list, time, c, frame) : j # 1 =>
               Added(list, time, c, frame)[j].call # c
               /\ \E i \in DOMAIN list : list[i] = Added(list, time, c, frame)[j]
<1> DEFINE first == Stamped(HeardRow(list, c), time, frame)
           rest == Others(list, c)
           new == Added(list, time, c, frame)
<1>1. first \in Row /\ first.call = c
  <2>1. HeardRow(list, c) \in Row /\ HeardRow(list, c).call = c
    BY HeardRowIs
  <2> DEFINE h == HeardRow(list, c)
  <2>2. h \in Row /\ h.call = c
    BY <2>1
  <2> HIDE DEF h
  <2>3. Stamped(h, time, frame) \in Row /\ Stamped(h, time, frame).call = h.call
    BY <2>2, StampedIsRow
  <2> QED
    BY <2>2, <2>3 DEF h
<1>2. /\ rest \in Seq(Row) /\ OneRowEach(rest)
      /\ \A j \in DOMAIN rest : rest[j].call # c /\ \E i \in DOMAIN list : list[i] = rest[j]
  BY OthersAre
<1>3. new = <<first>> \o rest
  BY DEF Added
<1> HIDE DEF first, rest, new
<1>4. /\ new \in Seq(Row) /\ DOMAIN new = 1 .. Len(rest) + 1 /\ new[1] = first
      /\ \A j \in 2 .. Len(rest) + 1 : new[j] = rest[j - 1]
      /\ DOMAIN rest = 1 .. Len(rest) /\ Len(rest) \in Nat
  BY <1>1, <1>2, <1>3
<1>5. ASSUME NEW j \in DOMAIN new, j # 1
      PROVE  j - 1 \in DOMAIN rest /\ new[j] = rest[j - 1] /\ j - 1 \in Nat
  BY <1>4, <1>5
<1>6. \A j \in DOMAIN new : j # 1 => new[j].call # c /\ \E i \in DOMAIN list : list[i] = new[j]
  BY <1>2, <1>5
<1>7. OneRowEach(new)
  <2> SUFFICES ASSUME NEW i \in DOMAIN new, NEW j \in DOMAIN new, new[i].call = new[j].call
               PROVE  i = j
    BY DEF OneRowEach
  <2>1. CASE i = 1 \/ j = 1
    BY <1>1, <1>4, <1>6, <2>1
  <2>2. CASE i # 1 /\ j # 1
    <3>1. i - 1 = j - 1
      BY <1>2, <1>5, <2>2 DEF OneRowEach
    <3> QED
      BY <1>4, <3>1
  <2> QED
    BY <2>1, <2>2
<1>8. 1 \in DOMAIN new
  BY <1>4
<1> QED
  BY <1>1, <1>4, <1>6, <1>7, <1>8 DEF new, first

\* A frame from the Internet leaves what the air said of every station that keeps its row.
LEMMA AirUntouched ==
  ASSUME NEW list \in Seq(Row), OneRowEach(list), NEW time \in Nat, NEW c \in Calls,
         NEW frame, FrameTold(frame), ~frame.rf,
         NEW d, d = c \/ HeardRows(list, d) = {} \/ HeardRows(Added(list, time, c, frame), d) # {},
         NEW seconds, NEW hops
  PROVE  HeardRf(Added(list, time, c, frame), time, d, seconds, hops) <=> HeardRf(list, time, d, seconds, hops)
<1> DEFINE new == Added(list, time, c, frame)
           h == HeardRow(list, c)
<1>1. /\ h \in Row /\ h.call = c
      /\ \A i \in DOMAIN list : list[i].call = c => h = list[i]
      /\ HeardRows(list, c) = {} => h.rf = 0
  BY HeardRowIs
<1>2. /\ new \in Seq(Row) /\ OneRowEach(new) /\ 1 \in DOMAIN new
      /\ new[1] = Stamped(h, time, frame) /\ new[1].call = c
      /\ \A j \in DOMAIN new : j # 1 => new[j].call # c /\ \E i \in DOMAIN list : list[i] = new[j]
  BY AddedIs
<1> HIDE DEF new, h
<1>3. new[1].rf = h.rf /\ new[1].hops = h.hops
  BY <1>1, <1>2, StampedIsRow
<1>4. CASE d = c
  <2>1. ASSUME HeardRf(list, time, c, seconds, hops) PROVE HeardRf(new, time, c, seconds, hops)
    <3>1. PICK i \in HeardRows(list, c) : Recent(time, list[i].rf, seconds) /\ list[i].hops <= hops
      BY <2>1 DEF HeardRf
    <3>2. h = list[i] /\ 1 \in HeardRows(new, c)
      BY <1>1, <1>2, <3>1 DEF HeardRows
    <3> QED
      BY <1>3, <3>1, <3>2 DEF HeardRf
  <2>2. ASSUME HeardRf(new, time, c, seconds, hops) PROVE HeardRf(list, time, c, seconds, hops)
    <3>1. PICK i \in HeardRows(new, c) : Recent(time, new[i].rf, seconds) /\ new[i].hops <= hops
      BY <2>2 DEF HeardRf
    <3>2. i = 1
      BY <1>2, <3>1 DEF HeardRows
    <3>3. h.rf # 0
      BY <1>3, <3>1, <3>2 DEF Recent
    <3>4. PICK j \in HeardRows(list, c) : TRUE
      BY <1>1, <3>3
    <3>5. list[j] = h
      BY <1>1, <3>4 DEF HeardRows
    <3> QED
      BY <1>3, <3>1, <3>2, <3>4, <3>5 DEF HeardRf
  <2> QED
    BY <1>4, <2>1, <2>2 DEF new
<1>5. CASE d # c
  <2>1. ASSUME HeardRf(new, time, d, seconds, hops) PROVE HeardRf(list, time, d, seconds, hops)
    <3>1. PICK j \in HeardRows(new, d) : Recent(time, new[j].rf, seconds) /\ new[j].hops <= hops
      BY <2>1 DEF HeardRf
    <3>2. j \in DOMAIN new /\ new[j].call = d
      BY <3>1 DEF HeardRows
    <3>3. PICK i \in DOMAIN list : list[i] = new[j]
      BY <1>2, <1>5, <3>2
    <3>4. i \in HeardRows(list, d)
      BY <3>2, <3>3 DEF HeardRows
    <3> QED
      BY <3>1, <3>3, <3>4 DEF HeardRf
  <2>2. ASSUME HeardRf(list, time, d, seconds, hops) PROVE HeardRf(new, time, d, seconds, hops)
    <3>1. PICK i \in HeardRows(list, d) : Recent(time, list[i].rf, seconds) /\ list[i].hops <= hops
      BY <2>2 DEF HeardRf
    <3>2. PICK j \in HeardRows(new, d) : TRUE
      BY <1>5, <3>1 DEF new
    <3>3. j \in DOMAIN new /\ new[j].call = d /\ i \in DOMAIN list /\ list[i].call = d
      BY <3>1, <3>2 DEF HeardRows
    <3>4. PICK m \in DOMAIN list : list[m] = new[j]
      BY <1>2, <1>5, <3>3
    <3>5. m = i
      BY <3>3, <3>4 DEF OneRowEach
    <3> QED
      BY <3>1, <3>2, <3>4, <3>5 DEF HeardRf
  <2> QED
    BY <2>1, <2>2 DEF new
<1> QED
  BY <1>4, <1>5
-----------------------------------------------------------------------------
(* The table's order and its hourly history *)

LEMMA ClockNumbers ==
  /\ BootMax \in Nat /\ MaxTime \in Nat /\ BootMax < ValidFrom /\ ValidFrom <= MaxTime /\ HourLen <= ValidFrom
<1> QED
  BY HeardAssumption

\* Hours are numbered as time goes.
LEMMA HoursGrow ==
  ASSUME NEW a \in Nat, NEW b \in Nat, a <= b
  PROVE  a \div HourLen \in Nat /\ b \div HourLen \in Nat /\ a \div HourLen <= b \div HourLen
<1> DEFINE x == a \div HourLen
           y == b \div HourLen
<1>1. x \in Nat /\ HourLen * x <= a /\ y \in Nat /\ b < HourLen * (y + 1)
  BY HeardNumbers
<1> HIDE DEF x, y
<1>2. HourLen \in Nat /\ HourLen * x < HourLen * (y + 1)
  BY <1>1, HeardNumbers
<1>3. x < y + 1
  <2> SUFFICES ASSUME y + 1 <= x
               PROVE  FALSE
    BY <1>1
  <2>1. HourLen * (y + 1) <= HourLen * x
    BY <1>1, <1>2
  <2> QED
    BY <1>1, <1>2, <2>1
<1> QED
  BY <1>1, <1>3 DEF x, y

\* Once the clock is set the hour is not the first, and it is never past the last.
LEMMA HourIsLater ==
  ASSUME NEW t \in Nat, ValidFrom <= t, t <= MaxTime
  PROVE  t \div HourLen \in 1 .. LastHour /\ LastHour \in Nat
<1>1. HourLen \in Nat /\ HourLen > 0 /\ HourLen <= t /\ MaxTime \in Nat
  BY HeardNumbers, ClockNumbers
<1>2. HourLen \div HourLen = 1
  BY <1>1
<1>3. HourLen \div HourLen <= t \div HourLen /\ t \div HourLen \in Nat
  BY <1>1, HoursGrow
<1>4. t \div HourLen <= LastHour /\ LastHour \in Nat
  BY <1>1, HoursGrow DEF LastHour
<1> QED
  BY <1>2, <1>3, <1>4

\* A row's histogram tells these frames by hour, at this time.
RowTrue(r, f, t) ==
  /\ r.rolled => ValidFrom <= t /\ r.slot <= t \div HourLen
  /\ ~r.rolled => r.slot = 0
  /\ \A h \in 0 .. LastHour : h > r.slot => f[h] = 0
  /\ \A h \in 1 .. Hours : r.hourly[h] = IF r.slot >= h - 1 THEN f[r.slot - (h - 1)] ELSE 0

\* What is known of a row once it is rolled.
AdoptedBy(r, f, t) ==
  IF t < ValidFrom \/ r.rolled THEN f ELSE [f EXCEPT ![t \div HourLen] = f[0], ![0] = 0]

LEMMA RolledMoves ==
  ASSUME NEW r \in Row, NEW t \in Nat, ValidFrom <= t, r.rolled => r.slot <= t \div HourLen,
         NEW gone, gone = IF r.rolled THEN t \div HourLen - r.slot ELSE 0
  PROVE  /\ Rolled(r, t).rolled /\ Rolled(r, t).slot = t \div HourLen
         /\ \A h \in 1 .. Hours : Rolled(r, t).hourly[h] = IF h > gone THEN r.hourly[h - gone] ELSE 0
<1> DEFINE hour == t \div HourLen
           left == IF r.rolled THEN Elapsed(r.slot, hour) ELSE 0
           hourly == [h \in 1 .. Hours |-> IF h > left THEN r.hourly[h - left] ELSE 0]
           slot == IF r.rolled THEN r.slot + left ELSE hour
           new == [r EXCEPT !.hourly = hourly, !.slot = slot, !.rolled = TRUE]
<1>1. ~(t < ValidFrom)
  BY HeardNumbers
<1>2. Rolled(r, t) = new
  BY <1>1 DEF Rolled
<1>3. hour \in Nat /\ r.slot \in Nat /\ (r.rolled => r.slot <= hour) /\ gone = IF r.rolled THEN hour - r.slot ELSE 0
  BY HoursGrow DEF Row
<1> HIDE DEF hour
<1>4. left = gone
  BY <1>3 DEF Elapsed
<1>5. slot = hour
  BY <1>3, <1>4
<1>6. \A h \in 1 .. Hours : hourly[h] = IF h > gone THEN r.hourly[h - gone] ELSE 0
  BY <1>4
<1> HIDE DEF hourly, slot, left
<1>7. new.rolled = TRUE /\ new.slot = slot /\ new.hourly = hourly
  BY DEF Row
<1> HIDE DEF new
<1> QED
  BY <1>2, <1>5, <1>6, <1>7 DEF hour

LEMMA HoursBack ==
  ASSUME NEW s \in Nat, NEW k \in Nat, k - s \in Nat, NEW n \in Nat, NEW h \in 1 .. n, h > k - s
  PROVE  /\ h - (k - s) \in 1 .. n /\ s - (h - (k - s) - 1) = k - (h - 1)
         /\ (s >= h - (k - s) - 1 <=> k >= h - 1)
<1> QED
  OBVIOUS

LEMMA RolledTrue ==
  ASSUME NEW r \in Row, NEW f \in [0 .. LastHour -> Nat], NEW t \in Nat, t <= MaxTime, RowTrue(r, f, t)
  PROVE  /\ RowTrue(Rolled(r, t), AdoptedBy(r, f, t), t)
         /\ AdoptedBy(r, f, t) \in [0 .. LastHour -> Nat]
         /\ Rolled(r, t).slot = IF t < ValidFrom THEN 0 ELSE t \div HourLen
<1>1. CASE t < ValidFrom
  <2>1. Rolled(r, t) = r /\ AdoptedBy(r, f, t) = f
    BY <1>1 DEF Rolled, AdoptedBy
  <2>2. ~r.rolled
    BY <1>1, HeardNumbers DEF RowTrue
  <2>3. r.slot = 0
    BY <2>2 DEF RowTrue
  <2> QED
    BY <1>1, <2>1, <2>3
<1>2. CASE ~(t < ValidFrom)
  <2> DEFINE hour == t \div HourLen
             gone == IF r.rolled THEN hour - r.slot ELSE 0
             new == Rolled(r, t)
             g == AdoptedBy(r, f, t)
  <2>1. ValidFrom <= t
    BY <1>2, HeardNumbers
  <2>2. hour \in 1 .. LastHour /\ LastHour \in Nat
    BY <2>1, HourIsLater
  <2>3. r.slot \in Nat /\ r.rolled \in BOOLEAN
    BY DEF Row
  <2>4. /\ r.rolled => r.slot <= hour
        /\ ~r.rolled => r.slot = 0
        /\ \A h \in 0 .. LastHour : h > r.slot => f[h] = 0
        /\ \A h \in 1 .. Hours : r.hourly[h] = IF r.slot >= h - 1 THEN f[r.slot - (h - 1)] ELSE 0
    BY DEF RowTrue
  <2>5. /\ new.rolled /\ new.slot = hour
        /\ \A h \in 1 .. Hours : new.hourly[h] = IF h > gone THEN r.hourly[h - gone] ELSE 0
    BY <2>1, <2>4, RolledMoves
  <2>6. g = IF r.rolled THEN f ELSE [f EXCEPT ![hour] = f[0], ![0] = 0]
    BY <1>2 DEF AdoptedBy
  <2>7. Hours \in Nat
    BY HeardNumbers
  <2> HIDE DEF hour, new, g
  <2>8. g \in [0 .. LastHour -> Nat]
    BY <2>2, <2>6
  <2>9. \A h \in 0 .. LastHour : h > hour => g[h] = 0
    BY <2>2, <2>3, <2>4, <2>6
  <2>10. ASSUME NEW h \in 1 .. Hours
         PROVE  new.hourly[h] = IF hour >= h - 1 THEN g[hour - (h - 1)] ELSE 0
    <3>1. CASE r.rolled
      <4>1. gone = hour - r.slot /\ gone \in Nat /\ g = f
        BY <2>2, <2>3, <2>4, <2>6, <3>1
      <4>2. CASE h > gone
        <5>1. h - gone \in 1 .. Hours /\ r.slot - (h - gone - 1) = hour - (h - 1)
              /\ (r.slot >= h - gone - 1 <=> hour >= h - 1)
          <6>1. hour \in Nat /\ r.slot \in Nat /\ hour - r.slot \in Nat /\ h > hour - r.slot /\ gone = hour - r.slot
            BY <2>2, <2>3, <4>1, <4>2
          <6> HIDE DEF gone
          <6> QED
            BY SMTT(20), <2>7, <6>1, HoursBack
        <5>2. new.hourly[h] = r.hourly[h - gone]
          BY <2>5, <4>2
        <5>3. r.hourly[h - gone] = IF r.slot >= h - gone - 1 THEN f[r.slot - (h - gone - 1)] ELSE 0
          BY <2>4, <5>1
        <5> QED
          BY <4>1, <5>1, <5>2, <5>3
      <4>3. CASE ~(h > gone)
        <5>1. new.hourly[h] = 0
          BY <2>5, <4>3
        <5>2. hour >= h - 1 /\ hour - (h - 1) \in 0 .. LastHour /\ hour - (h - 1) > r.slot
          BY <2>2, <2>3, <2>7, <4>1, <4>3
        <5> QED
          BY <2>4, <4>1, <5>1, <5>2
      <4> QED
        BY <4>2, <4>3
    <3>2. CASE ~r.rolled
      <4>1. gone = 0 /\ r.slot = 0 /\ g = [f EXCEPT ![hour] = f[0], ![0] = 0]
        BY <2>4, <2>6, <3>2
      <4>2. new.hourly[h] = r.hourly[h]
        <5>1. h > gone /\ h - gone = h
          BY <2>7, <4>1
        <5> QED
          BY <2>5, <5>1
      <4>3. CASE h = 1
        <5>1. r.hourly[h] = f[0] /\ hour - (h - 1) = hour /\ hour >= h - 1
          BY <2>2, <2>4, <4>1, <4>3
        <5>2. g[hour] = f[0]
          BY <2>2, <4>1
        <5> QED
          BY <4>2, <5>1, <5>2
      <4>4. CASE h # 1
        <5>1. r.hourly[h] = 0
          BY <2>4, <2>7, <4>1, <4>4
        <5>2. ASSUME hour >= h - 1
              PROVE  g[hour - (h - 1)] = 0
          <6>1. hour - (h - 1) \in 0 .. LastHour /\ hour - (h - 1) # hour
            BY <2>2, <2>7, <4>4, <5>2
          <6>2. hour - (h - 1) # 0 => f[hour - (h - 1)] = 0
            BY <2>4, <4>1, <6>1
          <6> QED
            BY <2>2, <4>1, <6>1, <6>2
        <5> QED
          BY <4>2, <5>1, <5>2
      <4> QED
        BY <4>3, <4>4
    <3> QED
      BY <3>1, <3>2
  <2>11. RowTrue(new, g, t)
    BY <2>1, <2>2, <2>5, <2>9, <2>10 DEF RowTrue, hour
  <2> QED
    BY <1>2, <2>5, <2>8, <2>11 DEF new, g, hour
<1> QED
  BY <1>1, <1>2

\* A frame counts in the hour the row stands at, for the row and for what is known of it.
LEMMA StampedTrue ==
  ASSUME NEW r \in Row, NEW f \in [0 .. LastHour -> Nat], NEW t \in Nat, t <= MaxTime, RowTrue(r, f, t),
         NEW frame, FrameTold(frame), NEW hour, hour = IF t < ValidFrom THEN 0 ELSE t \div HourLen
  PROVE  LET g == [AdoptedBy(r, f, t) EXCEPT ![hour] = Lesser(@ + 1, CountMax)] IN
         g \in [0 .. LastHour -> Nat] /\ RowTrue(Stamped(r, t, frame), g, t)
<1> DEFINE old == Rolled(r, t)
           a == AdoptedBy(r, f, t)
           g == [a EXCEPT ![hour] = Lesser(@ + 1, CountMax)]
           hourly == [h \in 1 .. Hours |-> IF h = 1 THEN Lesser(old.hourly[h] + 1, CountMax) ELSE old.hourly[h]]
           row == [old EXCEPT !.hourly = hourly]
           net == ~frame.rf \/ frame.tcpip
           rf == IF StampsRf(frame) THEN t ELSE row.rf
           hops == IF frame.rf THEN frame.hops ELSE row.hops
           inet == IF net THEN t ELSE row.inet
           packets == Lesser(row.packets + 1, PacketsMax)
           direct == (frame.rf /\ frame.direct)
           bm == (~frame.rf /\ frame.bm)
           new == [row EXCEPT !.rf = rf, !.hops = hops, !.inet = inet, !.viaRf = frame.rf,
                              !.direct = direct, !.viaBm = bm, !.packets = packets]
<1>1. Stamped(r, t, frame) = new
  BY DEF Stamped, Counted
<1>2. RowTrue(old, a, t) /\ a \in [0 .. LastHour -> Nat] /\ old.slot = hour /\ old \in Row
  BY RolledTrue, RolledIsRow
<1>3. hour \in 0 .. LastHour /\ LastHour \in Nat
  <2>1. LastHour \in Nat
    BY HoursGrow, ClockNumbers DEF LastHour
  <2>2. CASE t < ValidFrom
    BY <2>1, <2>2
  <2>3. CASE ~(t < ValidFrom)
    <3>1. ValidFrom <= t
      BY <2>3, HeardNumbers
    <3>2. t \div HourLen \in 1 .. LastHour
      BY <3>1, HourIsLater
    <3> QED
      BY <2>1, <2>3, <3>2
  <2> QED
    BY <2>2, <2>3
<1> HIDE DEF old, a
<1>4. new.rolled = old.rolled /\ new.slot = old.slot /\ new.hourly = hourly
  <2> HIDE DEF hourly, rf, hops, inet, direct, bm, packets
  <2> QED
    BY <1>2 DEF Row
<1>5. \A n \in Nat : Lesser(n + 1, CountMax) \in Nat
  BY HeardNumbers DEF Lesser
<1>6. g \in [0 .. LastHour -> Nat] /\ g[hour] = Lesser(a[hour] + 1, CountMax)
      /\ \A h \in 0 .. LastHour : h # hour => g[h] = a[h]
  <2> DEFINE n == Lesser(a[hour] + 1, CountMax)
  <2>1. n \in Nat
    BY <1>2, <1>3, <1>5
  <2>2. g = [a EXCEPT ![hour] = n]
    OBVIOUS
  <2> HIDE DEF n
  <2> QED
    BY <1>2, <1>3, <2>1, <2>2 DEF n
<1> HIDE DEF new, g
<1>7. \A h \in 0 .. LastHour : h > new.slot => g[h] = 0
  BY <1>2, <1>3, <1>4, <1>6 DEF RowTrue
<1>8. ASSUME NEW h \in 1 .. Hours
      PROVE  hourly[h] = IF hour >= h - 1 THEN g[hour - (h - 1)] ELSE 0
  <2>1. old.hourly[h] = IF hour >= h - 1 THEN a[hour - (h - 1)] ELSE 0
    BY <1>2 DEF RowTrue
  <2>2. CASE h = 1
    <3>1. hour >= h - 1 /\ hour - (h - 1) = hour
      BY <1>3, <2>2
    <3>2. hourly[h] = Lesser(old.hourly[h] + 1, CountMax)
      BY <2>2
    <3> QED
      BY <1>6, <2>1, <3>1, <3>2
  <2>3. CASE h # 1
    <3>1. hourly[h] = old.hourly[h]
      BY <2>3
    <3>2. hour >= h - 1 => hour - (h - 1) \in 0 .. LastHour /\ hour - (h - 1) # hour
      BY <1>3, <2>3, HeardNumbers
    <3> QED
      BY <1>6, <2>1, <3>1, <3>2
  <2> QED
    BY <2>2, <2>3
<1> HIDE DEF hourly
<1>9. \A h \in 1 .. Hours : new.hourly[h] = IF new.slot >= h - 1 THEN g[new.slot - (h - 1)] ELSE 0
  BY <1>2, <1>4, <1>8
<1>10. /\ new.rolled => ValidFrom <= t /\ new.slot <= t \div HourLen
       /\ ~new.rolled => new.slot = 0
  BY <1>2, <1>4 DEF RowTrue
<1>11. RowTrue(new, g, t)
  BY <1>7, <1>9, <1>10 DEF RowTrue
<1> QED
  BY <1>1, <1>6, <1>11 DEF g, a

\* Where each row of the table comes from: the station's own row, if there is
\* one, goes, and what is left moves down, the last of a full table out of it.
LEMMA WithoutRowAt ==
  ASSUME NEW list \in Seq(Row), OneRowEach(list), NEW c
  PROVE  /\ HeardRows(list, c) = {} => WithoutRow(list, c) = list
         /\ \A k \in DOMAIN list : list[k].call = c =>
               /\ Len(WithoutRow(list, c)) = Len(list) - 1
               /\ \A j \in 1 .. Len(list) - 1 :
                     WithoutRow(list, c)[j] = IF j < k THEN list[j] ELSE list[j + 1]
<1>1. CASE HeardRows(list, c) = {}
  BY <1>1 DEF WithoutRow, HeardRows
<1>2. CASE HeardRows(list, c) # {}
  <2> DEFINE k == CHOOSE i \in HeardRows(list, c) : TRUE
             rest == WithoutRow(list, c)
  <2>1. k \in HeardRows(list, c)
    BY <1>2
  <2>2. rest = RemoveAt(list, k)
    BY <1>2 DEF WithoutRow
  <2>3. k \in 1 .. Len(list) /\ list[k].call = c
    BY <2>1 DEF HeardRows
  <2> HIDE DEF k, rest
  <2>4. /\ rest \in Seq(Row) /\ Len(rest) = Len(list) - 1
        /\ \A j \in 1 .. Len(list) - 1 : rest[j] = IF j < k THEN list[j] ELSE list[j + 1]
    BY <2>2, <2>3, RemovedAt
  <2>5. \A i \in DOMAIN list : list[i].call = c => i = k
    BY <2>3 DEF OneRowEach
  <2> QED
    BY <1>2, <2>4, <2>5 DEF rest
<1> QED
  BY <1>1, <1>2

LEMMA OthersAt ==
  ASSUME NEW list \in Seq(Row), OneRowEach(list), Len(list) <= Capacity, NEW c
  PROVE  /\ \A k \in DOMAIN list : list[k].call = c =>
               /\ Len(Others(list, c)) = Len(list) - 1
               /\ \A j \in 1 .. Len(list) - 1 : Others(list, c)[j] = IF j < k THEN list[j] ELSE list[j + 1]
         /\ HeardRows(list, c) = {} =>
               /\ Len(Others(list, c)) = IF Len(list) < Capacity THEN Len(list) ELSE Len(list) - 1
               /\ \A j \in 1 .. Len(Others(list, c)) : Others(list, c)[j] = list[j]
<1> DEFINE rest == WithoutRow(list, c)
<1>1. rest \in Seq(Row)
  BY WithoutRowIs
<1>2. Others(list, c) = IF Len(rest) < Capacity THEN rest ELSE Front(rest)
  BY DEF Others
<1>3. HeardRows(list, c) = {} => rest = list
  BY WithoutRowAt
<1>4. ASSUME NEW k \in DOMAIN list, list[k].call = c
      PROVE  /\ Len(rest) = Len(list) - 1
             /\ \A j \in 1 .. Len(list) - 1 : rest[j] = IF j < k THEN list[j] ELSE list[j + 1]
  BY <1>4, WithoutRowAt
<1> HIDE DEF rest
<1>5. ASSUME NEW k \in DOMAIN list, list[k].call = c
      PROVE  Others(list, c) = rest
  BY <1>2, <1>4, <1>5, HeardNumbers
<1>6. ASSUME HeardRows(list, c) = {}, ~(Len(list) < Capacity)
      PROVE  /\ Len(Others(list, c)) = Len(list) - 1
             /\ \A j \in 1 .. Len(list) - 1 : Others(list, c)[j] = list[j]
  <2>1. Others(list, c) = SubSeq(list, 1, Len(list) - 1)
    BY <1>2, <1>3, <1>6 DEF Front
  <2>2. Len(list) >= 1 /\ Len(list) \in Nat
    BY <1>6, HeardNumbers
  <2> DEFINE n == Len(list) - 1
  <2>3. n \in Nat /\ n <= Len(list)
    BY <2>2
  <2> HIDE DEF n
  <2>4. Len(SubSeq(list, 1, n)) = n /\ \A j \in 1 .. n : SubSeq(list, 1, n)[j] = list[j]
    BY <2>3
  <2> QED
    BY <2>1, <2>4 DEF n
<1>7. ASSUME HeardRows(list, c) = {}, Len(list) < Capacity
      PROVE  Others(list, c) = list
  BY <1>2, <1>3, <1>7
<1> QED
  BY <1>4, <1>5, <1>6, <1>7

LEMMA AddedAt ==
  ASSUME NEW list \in Seq(Row), OneRowEach(list), Len(list) <= Capacity, NEW time \in Nat, NEW c \in Calls,
         NEW frame, FrameTold(frame)
  PROVE  LET new == Added(list, time, c, frame) IN
         /\ Len(new) \in 1 .. Capacity
         /\ \A k \in DOMAIN list : list[k].call = c =>
               /\ Len(new) = Len(list)
               /\ \A j \in 2 .. Len(new) : new[j] = IF j <= k THEN list[j - 1] ELSE list[j]
         /\ HeardRows(list, c) = {} =>
               /\ Len(new) = IF Len(list) < Capacity THEN Len(list) + 1 ELSE Len(list)
               /\ \A j \in 2 .. Len(new) : new[j] = list[j - 1]
<1> DEFINE rest == Others(list, c)
           new == Added(list, time, c, frame)
           first == Stamped(HeardRow(list, c), time, frame)
<1>1. rest \in Seq(Row)
  BY OthersAre
<1>2. new = <<first>> \o rest
  BY DEF Added
<1>3. /\ \A k \in DOMAIN list : list[k].call = c =>
            /\ Len(rest) = Len(list) - 1
            /\ \A j \in 1 .. Len(list) - 1 : rest[j] = IF j < k THEN list[j] ELSE list[j + 1]
      /\ HeardRows(list, c) = {} =>
            /\ Len(rest) = IF Len(list) < Capacity THEN Len(list) ELSE Len(list) - 1
            /\ \A j \in 1 .. Len(rest) : rest[j] = list[j]
  BY OthersAt
<1> HIDE DEF rest, first, new
<1>4. /\ Len(new) = Len(rest) + 1 /\ Len(rest) \in Nat
      /\ \A j \in 2 .. Len(new) : new[j] = rest[j - 1]
  BY <1>1, <1>2
<1>5. Len(list) \in Nat /\ DOMAIN list = 1 .. Len(list) /\ Capacity \in Nat /\ Capacity > 0
  BY HeardNumbers
<1>6. ASSUME NEW k \in DOMAIN list, list[k].call = c
      PROVE  /\ Len(new) = Len(list) /\ Len(new) \in 1 .. Capacity
             /\ \A j \in 2 .. Len(new) : new[j] = IF j <= k THEN list[j - 1] ELSE list[j]
  <2>1. Len(rest) = Len(list) - 1 /\ \A j \in 1 .. Len(list) - 1 : rest[j] = IF j < k THEN list[j] ELSE list[j + 1]
    BY <1>3, <1>6
  <2>2. Len(new) = Len(list) /\ Len(new) \in 1 .. Capacity
    BY <1>4, <1>5, <2>1
  <2>3. ASSUME NEW j \in 2 .. Len(new)
        PROVE  new[j] = IF j <= k THEN list[j - 1] ELSE list[j]
    <3>1. j - 1 \in 1 .. Len(list) - 1 /\ j - 1 + 1 = j /\ (j - 1 < k <=> j <= k) /\ new[j] = rest[j - 1]
      BY <1>4, <1>5, <2>2
    <3> QED
      BY <2>1, <3>1
  <2> QED
    BY <2>2, <2>3
<1>7. ASSUME HeardRows(list, c) = {}
      PROVE  /\ Len(new) = IF Len(list) < Capacity THEN Len(list) + 1 ELSE Len(list)
             /\ Len(new) \in 1 .. Capacity
             /\ \A j \in 2 .. Len(new) : new[j] = list[j - 1]
  <2>1. /\ Len(rest) = IF Len(list) < Capacity THEN Len(list) ELSE Len(list) - 1
        /\ \A j \in 1 .. Len(rest) : rest[j] = list[j]
    BY <1>3, <1>7
  <2>2. /\ Len(new) = IF Len(list) < Capacity THEN Len(list) + 1 ELSE Len(list)
        /\ Len(new) \in 1 .. Capacity
    <3>1. CASE Len(list) < Capacity
      BY <1>4, <1>5, <2>1, <3>1
    <3>2. CASE ~(Len(list) < Capacity)
      <4>1. Len(rest) = Len(list) - 1
        BY <2>1, <3>2
      <4>2. Len(new) = Len(list) /\ Len(new) \in 1 .. Capacity
        BY <1>4, <1>5, <3>2, <4>1
      <4> QED
        BY <3>2, <4>2
    <3> QED
      BY <3>1, <3>2
  <2>3. ASSUME NEW j \in 2 .. Len(new)
        PROVE  new[j] = list[j - 1]
    <3>1. j - 1 \in 1 .. Len(rest) /\ new[j] = rest[j - 1]
      BY <1>4
    <3> QED
      BY <2>1, <3>1
  <2> QED
    BY <2>2, <2>3
<1>8. HeardRows(list, c) = {} \/ \E k \in DOMAIN list : list[k].call = c
  BY DEF HeardRows
<1> QED
  BY <1>6, <1>7, <1>8 DEF new

\* The table holds the stations heard last, of which s tells those heard after each.
CallsOf(list) == {list[i].call : i \in DOMAIN list}
InFront(list, i) == {list[j].call : j \in 1 .. i - 1}
Latest(list, s) ==
  /\ CallsOf(list) \subseteq DOMAIN s
  /\ \A i \in DOMAIN list : s[list[i].call] = InFront(list, i)
  /\ OneRowEach(list)
  /\ \A d \in DOMAIN s \ CallsOf(list) : Len(list) = Capacity /\ CallsOf(list) \subseteq s[d]

Followed(s, c) == [d \in DOMAIN s \cup {c} |-> IF d = c THEN {} ELSE s[d] \cup {c}]

LEMMA LatestKept ==
  ASSUME NEW list \in Seq(Row), Len(list) <= Capacity, NEW s, Latest(list, s), NEW time \in Nat,
         NEW c \in Calls, NEW frame, FrameTold(frame)
  PROVE  Latest(Added(list, time, c, frame), Followed(s, c))
<1> DEFINE new == Added(list, time, c, frame)
           u == Followed(s, c)
<1>1. OneRowEach(list)
  BY DEF Latest
<1>2. /\ new \in Seq(Row) /\ OneRowEach(new) /\ 1 \in DOMAIN new /\ new[1].call = c
      /\ \A j \in DOMAIN new : j # 1 => new[j].call # c /\ \E i \in DOMAIN list : list[i] = new[j]
  BY <1>1, AddedIs
<1>3. /\ Len(new) \in 1 .. Capacity
      /\ \A k \in DOMAIN list : list[k].call = c =>
            /\ Len(new) = Len(list)
            /\ \A j \in 2 .. Len(new) : new[j] = IF j <= k THEN list[j - 1] ELSE list[j]
      /\ HeardRows(list, c) = {} =>
            /\ Len(new) = IF Len(list) < Capacity THEN Len(list) + 1 ELSE Len(list)
            /\ \A j \in 2 .. Len(new) : new[j] = list[j - 1]
  BY <1>1, AddedAt
<1>4. /\ CallsOf(list) \subseteq DOMAIN s
      /\ \A i \in DOMAIN list : s[list[i].call] = InFront(list, i)
      /\ \A d \in DOMAIN s \ CallsOf(list) : Len(list) = Capacity /\ CallsOf(list) \subseteq s[d]
  BY DEF Latest
<1>5. DOMAIN u = DOMAIN s \cup {c} /\ u[c] = {} /\ \A d \in DOMAIN s : d # c => u[d] = s[d] \cup {c}
  BY DEF Followed
<1> HIDE DEF new, u
<1>6. DOMAIN new = 1 .. Len(new) /\ DOMAIN list = 1 .. Len(list) /\ Len(new) \in Nat /\ Len(list) \in Nat
  BY <1>2
<1>7. CallsOf(new) \subseteq CallsOf(list) \cup {c}
  BY <1>2 DEF CallsOf
<1>8. CallsOf(new) \subseteq DOMAIN u
  BY <1>4, <1>5, <1>7
<1>9. u[new[1].call] = InFront(new, 1)
  BY <1>2, <1>5 DEF InFront
<1>10. ASSUME NEW k \in DOMAIN list, list[k].call = c
       PROVE  Latest(new, u)
  <2>1. Len(new) = Len(list) /\ \A j \in 2 .. Len(new) : new[j] = IF j <= k THEN list[j - 1] ELSE list[j]
    BY <1>3, <1>10
  <2>2. ASSUME NEW j \in DOMAIN list
        PROVE  \E i \in DOMAIN new : new[i].call = list[j].call /\ (j < k => i = j + 1) /\ (j > k => i = j) /\ (j = k => i = 1)
    <3>1. CASE j < k
      <4>1. j + 1 \in 2 .. Len(new) /\ j + 1 <= k /\ j + 1 - 1 = j
        BY <1>6, <2>1, <3>1
      <4>2. new[j + 1] = list[j]
        BY <2>1, <4>1
      <4> QED
        BY <1>6, <3>1, <4>1, <4>2
    <3>2. CASE j = k
      BY <1>2, <1>10, <3>2
    <3>3. CASE j > k
      <4>1. j \in 2 .. Len(new) /\ ~(j <= k)
        BY <1>6, <2>1, <3>3
      <4>2. new[j] = list[j]
        BY <2>1, <4>1
      <4> QED
        BY <1>6, <3>3, <4>1, <4>2
    <3> QED
      BY <1>6, <3>1, <3>2, <3>3
  <2>3. CallsOf(list) \subseteq CallsOf(new)
    BY <2>2 DEF CallsOf
  <2>4. c \in CallsOf(list)
    BY <1>10 DEF CallsOf
  <2>5. CallsOf(list) = CallsOf(new)
    BY <1>7, <2>3, <2>4
  <2>6. ASSUME NEW i \in DOMAIN new, i # 1
        PROVE  u[new[i].call] = InFront(new, i)
    <3> DEFINE m == IF i <= k THEN i - 1 ELSE i
    <3>1. i \in 2 .. Len(new)
      BY <1>6, <2>6
    <3>2. m \in DOMAIN list /\ new[i] = list[m] /\ m # k
      BY <1>6, <2>1, <3>1
    <3>3. list[m].call \in DOMAIN s /\ new[i].call # c
      BY <1>2, <1>4, <2>6, <3>2 DEF CallsOf
    <3>4. u[new[i].call] = InFront(list, m) \cup {c}
      BY <1>4, <1>5, <3>2, <3>3
    <3>5. ASSUME NEW x \in InFront(list, m) \cup {c}
          PROVE  x \in InFront(new, i)
      <4>1. CASE x = c
        <5>1. 1 \in 1 .. i - 1
          BY <3>1
        <5> QED
          BY <1>2, <4>1, <5>1 DEF InFront
      <4>2. CASE x # c
        <5>1. PICK j \in 1 .. m - 1 : x = list[j].call
          BY <3>5, <4>2 DEF InFront
        <5>2. j \in DOMAIN list /\ j # k
          BY <1>6, <1>10, <3>2, <4>2, <5>1
        <5>3. PICK n \in DOMAIN new : new[n].call = list[j].call /\ (j < k => n = j + 1) /\ (j > k => n = j)
          BY <2>2, <5>2
        <5>4. n \in 1 .. i - 1
          BY <1>6, <3>1, <3>2, <5>2, <5>3
        <5> QED
          BY <5>1, <5>3, <5>4 DEF InFront
      <4> QED
        BY <4>1, <4>2
    <3>6. ASSUME NEW x \in InFront(new, i)
          PROVE  x \in InFront(list, m) \cup {c}
      <4>1. PICK j \in 1 .. i - 1 : x = new[j].call
        BY <3>6 DEF InFront
      <4>2. CASE j = 1
        BY <1>2, <4>1, <4>2
      <4>3. CASE j # 1
        <5>1. j \in 2 .. Len(new) /\ j \in Nat /\ i \in Nat /\ k \in Nat /\ j < i
          BY <1>6, <3>1, <4>1, <4>3
        <5>2. CASE j <= k
          <6>1. x = list[j - 1].call
            BY <2>1, <4>1, <5>1, <5>2
          <6>2. j - 1 \in 1 .. m - 1
            BY <4>3, <5>1, <5>2
          <6> QED
            BY <6>1, <6>2 DEF InFront
        <5>3. CASE ~(j <= k)
          <6>1. x = list[j].call
            BY <2>1, <4>1, <5>1, <5>3
          <6>2. j \in 1 .. m - 1
            BY <5>1, <5>3
          <6> QED
            BY <6>1, <6>2 DEF InFront
        <5> QED
          BY <5>2, <5>3
      <4> QED
        BY <4>2, <4>3
    <3> QED
      BY <3>4, <3>5, <3>6
  <2>7. \A d \in DOMAIN u \ CallsOf(new) : Len(new) = Capacity /\ CallsOf(new) \subseteq u[d]
    BY <1>4, <1>5, <2>1, <2>4, <2>5
  <2> QED
    BY <1>2, <1>8, <1>9, <2>6, <2>7 DEF Latest
<1>11. ASSUME HeardRows(list, c) = {}
       PROVE  Latest(new, u)
  <2>1. /\ Len(new) = IF Len(list) < Capacity THEN Len(list) + 1 ELSE Len(list)
        /\ \A j \in 2 .. Len(new) : new[j] = list[j - 1]
    BY <1>3, <1>11
  <2>2. c \notin CallsOf(list)
    BY <1>11 DEF HeardRows, CallsOf
  <2>3. Capacity \in Nat
    BY HeardNumbers
  <2>4. Len(new) <= Len(list) + 1
    BY <1>6, <2>1
  <2>5. ASSUME NEW i \in DOMAIN new, i # 1
        PROVE  u[new[i].call] = InFront(new, i)
    <3>1. i \in 2 .. Len(new) /\ i - 1 \in DOMAIN list /\ i \in Nat
      BY <1>6, <2>4, <2>5
    <3>2. new[i] = list[i - 1]
      BY <2>1, <3>1
    <3>3. list[i - 1].call \in DOMAIN s /\ new[i].call # c
      BY <1>2, <1>4, <2>5, <3>1, <3>2 DEF CallsOf
    <3>4. u[new[i].call] = InFront(list, i - 1) \cup {c}
      BY <1>4, <1>5, <3>1, <3>2, <3>3
    <3>5. ASSUME NEW x \in InFront(list, i - 1) \cup {c}
          PROVE  x \in InFront(new, i)
      <4>1. CASE x = c
        <5>1. 1 \in 1 .. i - 1
          BY <3>1
        <5> QED
          BY <1>2, <4>1, <5>1 DEF InFront
      <4>2. CASE x # c
        <5>1. PICK j \in 1 .. (i - 1) - 1 : x = list[j].call
          BY <3>5, <4>2 DEF InFront
        <5>2. j + 1 \in 2 .. Len(new) /\ j + 1 - 1 = j /\ j + 1 \in 1 .. i - 1
          BY <1>6, <3>1, <5>1
        <5>3. new[j + 1] = list[j]
          BY <2>1, <5>2
        <5> QED
          BY <5>1, <5>2, <5>3 DEF InFront
      <4> QED
        BY <4>1, <4>2
    <3>6. ASSUME NEW x \in InFront(new, i)
          PROVE  x \in InFront(list, i - 1) \cup {c}
      <4>1. PICK j \in 1 .. i - 1 : x = new[j].call
        BY <3>6 DEF InFront
      <4>2. CASE j = 1
        BY <1>2, <4>1, <4>2
      <4>3. CASE j # 1
        <5>1. j \in 2 .. Len(new) /\ j - 1 \in 1 .. (i - 1) - 1
          BY <1>6, <3>1, <4>1, <4>3
        <5>2. new[j] = list[j - 1]
          BY <2>1, <5>1
        <5> QED
          BY <4>1, <5>1, <5>2 DEF InFront
      <4> QED
        BY <4>2, <4>3
    <3> QED
      BY <3>4, <3>5, <3>6
  <2>6. ASSUME NEW d \in DOMAIN u \ CallsOf(new)
        PROVE  Len(new) = Capacity /\ CallsOf(new) \subseteq u[d]
    <3>1. c \in CallsOf(new)
      BY <1>2 DEF CallsOf
    <3>2. d \in DOMAIN s /\ d # c
      BY <1>5, <3>1
    <3>3. u[d] = s[d] \cup {c}
      BY <1>5, <3>2
    <3>4. CASE d \notin CallsOf(list)
      <4>1. Len(list) = Capacity /\ CallsOf(list) \subseteq s[d]
        BY <1>4, <3>2, <3>4
      <4>2. Len(new) = Capacity
        BY <1>6, <2>1, <4>1
      <4> QED
        BY <1>7, <3>3, <4>1, <4>2
    <3>5. CASE d \in CallsOf(list)
      <4>1. PICK j \in DOMAIN list : list[j].call = d
        BY <3>5 DEF CallsOf
      <4>2. ~(j + 1 \in 2 .. Len(new))
        <5> SUFFICES ASSUME j + 1 \in 2 .. Len(new)
                     PROVE  FALSE
          OBVIOUS
        <5>1. j + 1 \in DOMAIN new /\ j + 1 - 1 = j
          BY <1>6
        <5>2. new[j + 1] = list[j]
          BY <2>1, <5>1
        <5>3. d \in CallsOf(new)
          BY <4>1, <5>1, <5>2 DEF CallsOf
        <5> QED
          BY <5>3
      <4>3. j \in 1 .. Len(list)
        BY <1>6
      <4>4. ~(Len(list) < Capacity)
        BY <1>6, <2>1, <2>3, <4>2, <4>3
      <4>5. Len(new) = Len(list) /\ Len(list) = Capacity
        <5>1. Len(list) = Capacity
          <6>1. Len(list) <= Capacity /\ Len(list) \in Nat
            BY <1>6
          <6> DEFINE n == Len(list)
          <6> HIDE DEF n
          <6>2. n <= Capacity /\ n \in Nat /\ ~(n < Capacity)
            BY <4>4, <6>1 DEF n
          <6>3. n = Capacity
            BY <2>3, <6>2
          <6> QED
            BY <6>3 DEF n
        <5>2. Len(new) = Len(list)
          BY <2>1, <4>4
        <5> QED
          BY <5>1, <5>2
      <4>6. j = Len(new)
        BY <1>6, <4>2, <4>3, <4>5
      <4>7. s[d] = InFront(list, j)
        BY <1>4, <4>1
      <4>8. ASSUME NEW i \in DOMAIN new, i # 1
            PROVE  new[i].call \in s[d]
        <5>1. i \in 2 .. Len(new) /\ i - 1 \in 1 .. j - 1
          BY <1>6, <4>6, <4>8
        <5>2. new[i] = list[i - 1]
          BY <2>1, <5>1
        <5> QED
          BY <4>7, <5>1, <5>2 DEF InFront
      <4>9. CallsOf(new) \subseteq u[d]
        BY <1>2, <3>3, <4>8 DEF CallsOf
      <4> QED
        BY <4>5, <4>9
    <3> QED
      BY <3>4, <3>5
  <2> QED
    BY <1>2, <1>8, <1>9, <2>5, <2>6 DEF Latest
<1>12. HeardRows(list, c) = {} \/ \E k \in DOMAIN list : list[k].call = c
  BY DEF HeardRows
<1> QED
  BY <1>10, <1>11, <1>12 DEF new, u

RowsInv ==
  /\ now \in Nat /\ now <= MaxTime
  /\ heard \in Seq(Row) /\ Len(heard) <= Capacity
  /\ truth \in [Calls -> [0 .. LastHour -> Nat]]
  /\ Latest(heard, since)
  /\ \A i \in DOMAIN heard : RowTrue(heard[i], truth[heard[i].call], now)

LEMMA RowsStart == TableInit => RowsInv
<1> SUFFICES ASSUME TableInit
             PROVE  RowsInv
  OBVIOUS
<1>1. heard = <<>> /\ now = 1 /\ since = [c \in {} |-> {}] /\ truth = [c \in Calls |-> NoFrames]
  BY DEF TableInit
<1>2. heard \in Seq(Row) /\ Len(heard) <= Capacity /\ DOMAIN heard = {}
  BY <1>1, HeardNumbers
<1>3. NoFrames \in [0 .. LastHour -> Nat]
  BY DEF NoFrames
<1>4. Latest(heard, since)
  BY <1>1, <1>2 DEF Latest, CallsOf, OneRowEach
<1>5. now \in Nat /\ now <= MaxTime
  BY <1>1, HeardNumbers, ClockNumbers
<1> QED
  BY <1>1, <1>2, <1>3, <1>4, <1>5 DEF RowsInv

\* What is known of a station before it is heard is what its row, or a new one, tells.
LEMMA AdoptedIs ==
  ASSUME RowsInv, NEW c \in Calls
  PROVE  \E f \in [0 .. LastHour -> Nat] :
            RowTrue(HeardRow(heard, c), f, now) /\ Adopted(c) = AdoptedBy(HeardRow(heard, c), f, now)
<1>1. /\ now \in Nat /\ heard \in Seq(Row) /\ truth \in [Calls -> [0 .. LastHour -> Nat]]
      /\ OneRowEach(heard) /\ \A i \in DOMAIN heard : RowTrue(heard[i], truth[heard[i].call], now)
  BY DEF RowsInv, Latest
<1>2. CASE c \in Known
  <2>1. PICK k \in DOMAIN heard : heard[k].call = c
    BY <1>2 DEF Known
  <2>2. HeardRow(heard, c) = heard[k]
    BY <1>1, <2>1, HeardRowIs
  <2>3. Adopted(c) = AdoptedBy(HeardRow(heard, c), truth[c], now)
    BY <1>2 DEF Adopted, AdoptedBy, HourNow
  <2> QED
    BY <1>1, <2>1, <2>2, <2>3
<1>3. CASE c \notin Known
  <2>1. HeardRow(heard, c) = NewRow(c)
    BY <1>3 DEF HeardRow, HeardRows, Known
  <2>2. NoFrames \in [0 .. LastHour -> Nat] /\ \A h \in 0 .. LastHour : NoFrames[h] = 0
    BY DEF NoFrames
  <2>3. NewRow(c).rolled = FALSE /\ NewRow(c).slot = 0 /\ \A h \in 1 .. Hours : NewRow(c).hourly[h] = 0
    BY DEF NewRow
  <2>4. LastHour \in Nat
    BY HoursGrow, ClockNumbers DEF LastHour
  <2>5. \A h \in 1 .. Hours : 0 >= h - 1 => 0 - (h - 1) \in 0 .. LastHour
    BY <2>4, HeardNumbers
  <2>6. RowTrue(NewRow(c), NoFrames, now)
    <3> HIDE DEF NoFrames
    <3>1. \A h \in 1 .. Hours : NewRow(c).hourly[h] = IF 0 >= h - 1 THEN NoFrames[0 - (h - 1)] ELSE 0
      BY <2>2, <2>3, <2>5
    <3> QED
      BY <2>2, <2>3, <3>1 DEF RowTrue
  <2>7. AdoptedBy(NewRow(c), NoFrames, now) = NoFrames
    <3>1. CASE now < ValidFrom
      BY <3>1 DEF AdoptedBy
    <3>2. CASE ~(now < ValidFrom)
      <4> DEFINE z == NoFrames
                 x == now \div HourLen
      <4>1. AdoptedBy(NewRow(c), z, now) = [z EXCEPT ![x] = z[0], ![0] = 0]
        BY <2>3, <3>2 DEF AdoptedBy
      <4>2. z[0] = 0 /\ z = [h \in 0 .. LastHour |-> 0]
        BY <2>2, <2>4 DEF NoFrames
      <4> HIDE DEF z, x
      <4>3. [z EXCEPT ![x] = z[0], ![0] = 0] = z
        BY <4>2
      <4> QED
        BY <4>1, <4>3 DEF z
    <3> QED
      BY <3>1, <3>2
  <2>8. Adopted(c) = NoFrames
    BY <1>3 DEF Adopted
  <2> QED
    BY <2>1, <2>2, <2>6, <2>7, <2>8
<1> QED
  BY <1>2, <1>3

LEMMA RowsHear == RowsInv /\ HearStation => RowsInv'
<1> SUFFICES ASSUME RowsInv, HearStation
             PROVE  RowsInv'
  OBVIOUS
<1>1. /\ now \in Nat /\ now <= MaxTime /\ heard \in Seq(Row) /\ Len(heard) <= Capacity
      /\ truth \in [Calls -> [0 .. LastHour -> Nat]] /\ Latest(heard, since) /\ OneRowEach(heard)
      /\ \A i \in DOMAIN heard : RowTrue(heard[i], truth[heard[i].call], now)
  BY DEF RowsInv, Latest
<1>2. PICK call \in Calls :
        /\ heard' = Added(heard, now, call, OnAir)
        /\ since' = [c \in DOMAIN since \cup {call} |-> IF c = call THEN {} ELSE since[c] \cup {call}]
        /\ truth' = [truth EXCEPT ![call] = [Adopted(call) EXCEPT ![HourNow] = Lesser(@ + 1, CountMax)]]
        /\ now' = now
  BY DEF HearStation
<1>3. FrameTold(OnAir)
  BY DEF FrameTold, OnAir
<1>4. Latest(heard', since')
  <2>1. Latest(Added(heard, now, call, OnAir), Followed(since, call))
    BY <1>1, <1>3, LatestKept
  <2>2. since' = Followed(since, call)
    BY <1>2 DEF Followed
  <2> QED
    BY <1>2, <2>1, <2>2
<1>5. /\ heard' \in Seq(Row) /\ heard'[1] = Stamped(HeardRow(heard, call), now, OnAir) /\ heard'[1].call = call
      /\ \A j \in DOMAIN heard' : j # 1 => heard'[j].call # call /\ \E i \in DOMAIN heard : heard[i] = heard'[j]
  <2> DEFINE new == Added(heard, now, call, OnAir)
  <2>1. /\ new \in Seq(Row) /\ new[1] = Stamped(HeardRow(heard, call), now, OnAir) /\ new[1].call = call
        /\ \A j \in DOMAIN new : j # 1 => new[j].call # call /\ \E i \in DOMAIN heard : heard[i] = new[j]
    BY <1>1, <1>3, AddedIs
  <2>2. heard' = new
    BY <1>2
  <2> HIDE DEF new
  <2> QED
    BY <2>1, <2>2
<1>6. Len(heard') <= Capacity
  <2>1. Len(heard') \in 1 .. Capacity
    BY <1>1, <1>2, <1>3, AddedAt
  <2> QED
    BY <2>1
<1>7. HeardRow(heard, call) \in Row
  BY <1>1, HeardRowIs
<1>8. PICK f \in [0 .. LastHour -> Nat] :
        RowTrue(HeardRow(heard, call), f, now) /\ Adopted(call) = AdoptedBy(HeardRow(heard, call), f, now)
  BY AdoptedIs
<1> DEFINE g == [Adopted(call) EXCEPT ![HourNow] = Lesser(@ + 1, CountMax)]
<1>9. g \in [0 .. LastHour -> Nat] /\ RowTrue(heard'[1], g, now)
  <2> DEFINE r == HeardRow(heard, call)
             hour == HourNow
  <2>1. hour = IF now < ValidFrom THEN 0 ELSE now \div HourLen
    BY DEF HourNow
  <2>2. r \in Row /\ RowTrue(r, f, now) /\ Adopted(call) = AdoptedBy(r, f, now) /\ heard'[1] = Stamped(r, now, OnAir)
    BY <1>5, <1>7, <1>8
  <2> HIDE DEF r, hour
  <2>3. LET e == [AdoptedBy(r, f, now) EXCEPT ![hour] = Lesser(@ + 1, CountMax)] IN
        e \in [0 .. LastHour -> Nat] /\ RowTrue(Stamped(r, now, OnAir), e, now)
    BY <1>1, <1>3, <2>1, <2>2, StampedTrue
  <2>4. g = [AdoptedBy(r, f, now) EXCEPT ![hour] = Lesser(@ + 1, CountMax)]
    BY <2>2 DEF hour
  <2> HIDE DEF g
  <2> QED
    BY <2>2, <2>3, <2>4
<1>10. truth' = [truth EXCEPT ![call] = g]
  BY <1>2
<1> HIDE DEF g
<1>11. /\ truth' \in [Calls -> [0 .. LastHour -> Nat]] /\ truth'[call] = g
       /\ \A c \in Calls : c # call => truth'[c] = truth[c]
  BY <1>1, <1>9, <1>10
<1>12. ASSUME NEW j \in DOMAIN heard'
       PROVE  RowTrue(heard'[j], truth'[heard'[j].call], now')
  <2>1. CASE j = 1
    BY <1>2, <1>5, <1>9, <1>11, <2>1
  <2>2. CASE j # 1
    <3>1. PICK i \in DOMAIN heard : heard[i] = heard'[j]
      BY <1>5, <2>2
    <3>2. heard'[j].call # call /\ heard[i] \in Row
      BY <1>1, <1>5, <2>2, <3>1
    <3>3. heard'[j].call \in Calls
      BY <3>1, <3>2 DEF Row
    <3> QED
      BY <1>1, <1>2, <1>11, <3>1, <3>2, <3>3
  <2> QED
    BY <2>1, <2>2
<1>13. now' \in Nat /\ now' <= MaxTime
  BY <1>1, <1>2
<1> QED
  BY <1>4, <1>5, <1>6, <1>11, <1>12, <1>13 DEF RowsInv

LEMMA RowsRoll == RowsInv /\ RollHistory => RowsInv'
<1> SUFFICES ASSUME RowsInv, RollHistory
             PROVE  RowsInv'
  OBVIOUS
<1>1. /\ now \in Nat /\ now <= MaxTime /\ heard \in Seq(Row) /\ Len(heard) <= Capacity
      /\ truth \in [Calls -> [0 .. LastHour -> Nat]] /\ Latest(heard, since) /\ OneRowEach(heard)
      /\ \A i \in DOMAIN heard : RowTrue(heard[i], truth[heard[i].call], now)
  BY DEF RowsInv, Latest
<1>2. PICK k \in DOMAIN heard :
        /\ heard' = [heard EXCEPT ![k] = Rolled(@, now)]
        /\ truth' = [truth EXCEPT ![heard[k].call] = Adopted(heard[k].call)]
        /\ now' = now /\ since' = since
  BY DEF RollHistory
<1> DEFINE row == heard[k]
           new == Rolled(row, now)
           f == truth[row.call]
           g == Adopted(row.call)
<1>3. row \in Row /\ row.call \in Calls /\ RowTrue(row, f, now) /\ f \in [0 .. LastHour -> Nat]
  <2>1. row \in Row /\ RowTrue(row, f, now)
    BY <1>1
  <2> HIDE DEF row
  <2>2. row.call \in Calls
    BY <2>1 DEF Row
  <2> QED
    BY <1>1, <2>1, <2>2
<1>4. g = AdoptedBy(row, f, now)
  <2>1. row.call \in Known
    BY DEF Known
  <2>2. HeardRow(heard, row.call) = row
    BY <1>1, <1>3, HeardRowIs
  <2> QED
    BY <2>1, <2>2 DEF Adopted, AdoptedBy, HourNow
<1>5. heard' = [heard EXCEPT ![k] = new] /\ truth' = [truth EXCEPT ![row.call] = g]
  BY <1>2
<1> HIDE DEF g
<1>6. RowTrue(new, g, now) /\ g \in [0 .. LastHour -> Nat] /\ new \in Row /\ new.call = row.call
  <2> HIDE DEF row, f
  <2> QED
    BY <1>1, <1>3, <1>4, RolledTrue, RolledIsRow
<1> HIDE DEF row, new, f
<1>7. /\ heard' \in Seq(Row) /\ Len(heard') = Len(heard) /\ DOMAIN heard' = DOMAIN heard /\ heard'[k] = new
      /\ \A j \in DOMAIN heard : j # k => heard'[j] = heard[j]
  BY <1>1, <1>5, <1>6
<1>8. /\ truth' \in [Calls -> [0 .. LastHour -> Nat]] /\ truth'[row.call] = g
      /\ \A c \in Calls : c # row.call => truth'[c] = truth[c]
  BY <1>1, <1>3, <1>5, <1>6
<1>9. \A j \in DOMAIN heard : heard'[j].call = heard[j].call
  BY <1>6, <1>7 DEF row
<1>10. Latest(heard', since')
  <2>1. CallsOf(heard') = CallsOf(heard)
    BY <1>7, <1>9 DEF CallsOf
  <2>2. ASSUME NEW i \in DOMAIN heard
        PROVE  InFront(heard', i) = InFront(heard, i)
    <3>1. \A j \in 1 .. i - 1 : j \in DOMAIN heard
      BY <1>1
    <3> QED
      BY <1>9, <3>1 DEF InFront
  <2>3. OneRowEach(heard')
    BY <1>1, <1>7, <1>9 DEF OneRowEach
  <2> QED
    BY <1>1, <1>2, <1>7, <1>9, <2>1, <2>2, <2>3 DEF Latest
<1>11. ASSUME NEW j \in DOMAIN heard'
       PROVE  RowTrue(heard'[j], truth'[heard'[j].call], now')
  <2>1. CASE j = k
    BY <1>2, <1>6, <1>7, <1>8, <2>1
  <2>2. CASE j # k
    <3>1. j \in DOMAIN heard /\ heard'[j] = heard[j] /\ heard[j] \in Row
      BY <1>1, <1>7, <2>2
    <3>2. heard[j].call # row.call
      BY <1>1, <2>2, <3>1 DEF OneRowEach, row
    <3>3. heard[j].call \in Calls
      BY <3>1 DEF Row
    <3> QED
      BY <1>1, <1>2, <1>8, <3>1, <3>2, <3>3
  <2> QED
    BY <2>1, <2>2
<1> QED
  BY <1>1, <1>2, <1>7, <1>8, <1>10, <1>11 DEF RowsInv

LEMMA RowsAge == RowsInv /\ TableTick => RowsInv'
<1> SUFFICES ASSUME RowsInv, TableTick
             PROVE  RowsInv'
  OBVIOUS
<1>1. /\ now \in Nat /\ now <= MaxTime
      /\ \A i \in DOMAIN heard : RowTrue(heard[i], truth[heard[i].call], now) /\ heard[i] \in Row
  BY DEF RowsInv
<1>2. UNCHANGED <<heard, since, truth>> /\ now' \in Nat /\ now <= now' /\ now' <= MaxTime
  BY <1>1, HeardNumbers, ClockNumbers DEF TableTick, ClockRuns, ClockSet
<1>3. now \div HourLen \in Nat /\ now' \div HourLen \in Nat /\ now \div HourLen <= now' \div HourLen
  BY <1>1, <1>2, HoursGrow
<1>4. ASSUME NEW i \in DOMAIN heard
      PROVE  RowTrue(heard[i], truth[heard[i].call], now')
  <2> DEFINE was == now \div HourLen
             is == now' \div HourLen
             r == heard[i]
  <2>1. /\ r.rolled => ValidFrom <= now /\ r.slot <= was
        /\ ~r.rolled => r.slot = 0
        /\ \A h \in 0 .. LastHour : h > r.slot => truth[r.call][h] = 0
        /\ \A h \in 1 .. Hours : r.hourly[h] = IF r.slot >= h - 1 THEN truth[r.call][r.slot - (h - 1)] ELSE 0
    BY <1>1 DEF RowTrue
  <2>2. was \in Nat /\ is \in Nat /\ was <= is /\ r.slot \in Nat
    BY <1>1, <1>3 DEF Row
  <2> HIDE DEF was, is, r
  <2>3. r.rolled => ValidFrom <= now' /\ r.slot <= is
    BY <1>1, <1>2, <2>1, <2>2, HeardNumbers
  <2>4. RowTrue(r, truth[r.call], now')
    BY <2>1, <2>3 DEF RowTrue, is
  <2> QED
    BY <2>4 DEF r
<1> QED
  BY <1>2, <1>4 DEF RowsInv

\* The table holds the stations heard last, in that order and each once, and a
\* row's histogram tells the station's frames of the hour it was rolled in and of
\* each before it, for any table size, number of hours and count that saturates,
\* whenever the clock is set and however long it is silent (lastheard.c:139-395).
THEOREM HeardTableKept == TableSpec => [](KeepsLatest /\ HoursTrue)
<1>1. RowsInv /\ [TableNext]_tableVars => RowsInv'
  <2> SUFFICES ASSUME RowsInv, [TableNext]_tableVars
               PROVE  RowsInv'
    OBVIOUS
  <2>1. CASE UNCHANGED tableVars
    BY <2>1 DEF tableVars, RowsInv
  <2> QED
    BY <2>1, RowsHear, RowsRoll, RowsAge DEF TableNext
<1>2. RowsInv => KeepsLatest /\ HoursTrue
  <2> SUFFICES ASSUME RowsInv
               PROVE  KeepsLatest /\ HoursTrue
    OBVIOUS
  <2>1. Latest(heard, since) /\ CallsOf(heard) = Known
    BY DEF RowsInv, CallsOf, Known
  <2>2. KeepsLatest
    BY <2>1 DEF Latest, InFront, OneRowEach, KeepsLatest
  <2>3. HoursTrue
    BY DEF RowsInv, RowTrue, HoursTrue, Told
  <2> QED
    BY <2>2, <2>3
<1> QED
  BY <1>1, <1>2, RowsStart, PTL DEF TableSpec
=============================================================================
