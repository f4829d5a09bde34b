----------------------------- MODULE Coordinates ------------------------------
(***************************************************************************)
(* How a coordinate is written in a position report and read back          *)
(* (main/include/aprs_minutes.h, main/aprs_coord.c, main/aprs_dao.c, the   *)
(* readers of main/aprs_filter.c).                                         *)
(*                                                                         *)
(* A coordinate is a signed integer of ten-thousandths of a minute, one    *)
(* digit finer than anything transmitted, so every rounding is exact.      *)
(* Speeds, ranges and altitudes of the compressed layout are named by      *)
(* their step in the exponential table the field uses (1.08^n, 1.002^n):   *)
(* the logarithm is not computed, the clamping and the digits are.         *)
(***************************************************************************)
EXTENDS Integers, Sequences, TLC

Minute == 10000
Degree == 60 * Minute
Magnitude(x) == IF x < 0 THEN -x ELSE x

-----------------------------------------------------------------------------
(* The shared split into degrees and thousandths of a minute.              *)

(* Faulty variant: a minutes value of 60.000 is sent as it is. *)
SplitNoCarry(x) == [deg |-> x \div Degree, thousandths |-> ((x % Degree) + 5) \div 10]

Split(x) ==
  LET t == ((x % Degree) + 5) \div 10
  IN  IF t >= 60000 THEN [deg |-> x \div Degree + 1, thousandths |-> t - 60000]
      ELSE [deg |-> x \div Degree, thousandths |-> t]

Hundredths(m) == m.thousandths \div 10
DaoDigit(m) == m.thousandths % 10

-----------------------------------------------------------------------------
(* The uncompressed field: degrees, four minute digits, hemisphere.        *)
(* Ambiguity blanks digits from the right.                                 *)

Blank == -1
AmbiguityMax == 4
Places == <<1000, 100, 10, 1>>
DigitMax == <<5, 9, 9, 9>>

MinuteDigits(h, ambiguity) ==
  [i \in 1..4 |-> IF i > 4 - ambiguity THEN Blank ELSE (h \div Places[i]) % 10]

FormatAxis(x, ambiguity) ==
  LET m == Split(Magnitude(x))
      a == IF ambiguity > AmbiguityMax THEN AmbiguityMax ELSE ambiguity
  IN  [deg |-> m.deg, digits |-> MinuteDigits(Hundredths(m), a), positive |-> x >= 0]

(* The blanks must be the trailing digits; the value is the middle of what *)
(* they can stand for, in ten-thousandths of a minute.                     *)
BlanksTrail(digits) ==
  \A i, j \in 1..4 : (i < j /\ digits[i] = Blank) => digits[j] = Blank

Filled(digits, filler) ==
  LET At(i) == Places[i] * (IF digits[i] = Blank THEN filler[i] ELSE digits[i])
  IN  At(1) + At(2) + At(3) + At(4)

(* Faulty variant: a blank digit is read as zero. *)
ParseMinutesLow(digits) == 100 * Filled(digits, <<0, 0, 0, 0>>)

ParseMinutes(digits) == 50 * (Filled(digits, <<0, 0, 0, 0>>) + Filled(digits, DigitMax))

ReadAxis(f, limit) ==
  LET v == f.deg * Degree + ParseMinutes(f.digits)
  IN  [ok |-> BlanksTrail(f.digits) /\ v <= limit * Degree,
       value |-> IF f.positive THEN v ELSE -v]

(* The DAO digit is added away from zero, on the side of the base field. *)
(* Faulty variant: the digit is added to the signed value. *)
RefinedSigned(value, digit) == value + 10 * digit

Refined(value, digit) == IF value < 0 THEN value - 10 * digit ELSE value + 10 * digit

-----------------------------------------------------------------------------
(* The compressed field: two base-91 numbers. Products and sums are taken  *)
(* in two parts so that they stay inside a machine integer, and the result *)
(* is rounded to the 24 bits a single-precision product holds.             *)

LatScale == 380926
LonScale == 190463
Base91Top == 91 * 91 * 91 * 91 - 1

Spacing(v) == IF v >= 67108864 THEN 8 ELSE IF v >= 33554432 THEN 4 ELSE IF v >= 16777216 THEN 2 ELSE 1
Single(v) == LET s == Spacing(v) IN ((v + s \div 2) \div s) * s

(* round(LonScale * r / Degree) for r < Degree *)
LonPart(r) ==
  LET a == r \div 500
      q == LonScale * a
  IN  (q \div 1200) + ((q % 1200) * 500 + LonScale * (r % 500) + Degree \div 2) \div Degree

(* round(LatScale * r / Degree) = round(LonScale * r / (Degree / 2)) *)
LatPart(r) ==
  LET a == r \div 500
      q == LonScale * a
  IN  (q \div 600) + ((q % 600) * 500 + LonScale * (r % 500) + Degree \div 4) \div (Degree \div 2)

Clamp91(v) == IF v < 0 THEN 0 ELSE IF v > Base91Top THEN Base91Top ELSE v

CompressLat(x) == LET y == 90 * Degree - x IN Clamp91(Single(LatScale * (y \div Degree) + LatPart(y % Degree)))
(* Faulty variant: the longitude is measured from Greenwich. *)
CompressLonOff(x) == LET y == x IN Clamp91(Single(LonScale * (y \div Degree) + LonPart(y % Degree)))

CompressLon(x) == LET y == 180 * Degree + x IN Clamp91(Single(LonScale * (y \div Degree) + LonPart(y % Degree)))

Digits91(v) == [i \in 1..4 |-> (v \div <<753571, 8281, 91, 1>>[i]) % 91]
Value91(d) == ((d[1] * 91 + d[2]) * 91 + d[3]) * 91 + d[4]

(* f * Degree / LonScale for f < LatScale *)
FromLon(f) == LET q == f * 600 IN (q \div LonScale) * 1000 + ((q % LonScale) * 1000) \div LonScale
ExpandLon(v) == (v \div LonScale) * Degree + FromLon(v % LonScale) - 180 * Degree
ExpandLat(v) == 90 * Degree - ((v \div LatScale) * Degree + FromLon(v % LatScale) \div 2)

-----------------------------------------------------------------------------
(* The two bytes after the symbol code and the type byte.                  *)

RangeMarker == 90
DigitTop == 89
AltitudeTop == 90 * 91 + 90
NoCs == [form |-> "none", c |-> 0, s |-> 0]

Capped(n, top) == IF n > top THEN top ELSE n
(* Faulty variant: the course may reach the range marker. *)
CsCourseSpeedFine(course, step) ==
  [form |-> "plain", c |-> Capped((course % 364) \div 4, RangeMarker), s |-> Capped(step, DigitTop)]

CsCourseSpeed(course, step) ==
  [form |-> "plain", c |-> Capped((course % 360) \div 4, DigitTop), s |-> Capped(step, DigitTop)]
CsRange(step) == [form |-> "plain", c |-> RangeMarker, s |-> Capped(step, DigitTop)]
CsAltitude(step) ==
  LET n == Capped(step, AltitudeTop) IN [form |-> "gga", c |-> n \div 91, s |-> n % 91]

(* decode_compressed_cs() *)
ReadCs(cs) ==
  IF cs.form = "none" \/ cs.c > RangeMarker \/ cs.s > DigitTop THEN [kind |-> "none"]
  ELSE IF cs.form = "gga" THEN [kind |-> "altitude", step |-> cs.c * 91 + cs.s]
  ELSE IF cs.c = RangeMarker THEN [kind |-> "range", step |-> cs.s]
  ELSE [kind |-> "course", course |-> (cs.c * 4) % 360, step |-> cs.s]

-----------------------------------------------------------------------------
(* The six-character grid locator.                                         *)

Bounded(v, top) == IF v < 0 THEN 0 ELSE IF v >= top THEN top - 1 ELSE v

(* Faulty variant: the subsquare is taken of the whole square's remainder. *)
LocatorShifted(lat, lon) ==
  LET la == Bounded(lat + 90 * Degree, 180 * Degree)
      lo == Bounded(lon + 180 * Degree, 360 * Degree)
  IN  <<lo \div (20 * Degree), la \div (10 * Degree),
        (lo % (20 * Degree)) \div (2 * Degree), (la % (10 * Degree)) \div Degree,
        (lo % Degree) \div (5 * Minute), (la % Degree) \div (Degree \div 24)>>

Locator(lat, lon) ==
  LET la == Bounded(lat + 90 * Degree, 180 * Degree)
      lo == Bounded(lon + 180 * Degree, 360 * Degree)
      la1 == la % (10 * Degree)
      lo1 == lo % (20 * Degree)
  IN  <<lo \div (20 * Degree), la \div (10 * Degree),
        lo1 \div (2 * Degree), la1 \div Degree,
        (lo1 % (2 * Degree)) \div (5 * Minute), (la1 % Degree) \div (Degree \div 24)>>

-----------------------------------------------------------------------------
(***************************************************************************)
(* The Mic-E position report (components/weather_telemetry/mice.c): six    *)
(* letters of the destination address carry the latitude digits, the       *)
(* message bits and the hemispheres, nine bytes of the information field   *)
(* the longitude, the motion and the symbol, and the rest of it a type     *)
(* byte, an altitude, a text and the maker's pair.                         *)
(*                                                                         *)
(* A destination letter is named by the column of the table it is in and   *)
(* its digit; a byte by its value less 28.  A text is named by what it     *)
(* could be mistaken for.                                                  *)
(***************************************************************************)
Emergency == 7
Unknown == 8
NoAltitude == -99999

-----------------------------------------------------------------------------
(* A destination letter: a digit or a blank, and a flag in two spellings.  *)

Letter(digit, flag, custom) ==
  [column |-> IF ~flag THEN "zero" ELSE IF custom THEN "custom" ELSE "standard", digit |-> digit]

LetterFlag(l) == l.column # "zero"
LetterCustom(l) == l.column = "custom"
LetterDigit(l) == IF l.digit = Blank THEN 0 ELSE l.digit

MessageBits(code) ==
  LET idx == IF code = Emergency THEN 0 ELSE IF code \in 0..6 THEN 7 - code ELSE 7
  IN  [i \in 1..3 |-> (idx \div <<4, 2, 1>>[i]) % 2 = 1]

(* Only a standard and a custom letter together make the code unknown. *)
ReadMessage(letters) ==
  LET set == {i \in 1..3 : LetterFlag(letters[i])}
      custom == {i \in set : LetterCustom(letters[i])}
      Weight(i) == IF i \in set THEN <<4, 2, 1>>[i] ELSE 0
  IN  IF set = {} THEN [code |-> Emergency, custom |-> FALSE]
      ELSE IF custom # {} /\ custom # set THEN [code |-> Unknown, custom |-> FALSE]
      ELSE [code |-> 7 - (Weight(1) + Weight(2) + Weight(3)), custom |-> custom # {}]

-----------------------------------------------------------------------------
(* The speed: plain up to 670 knots, steps of 112 above.                   *)

RawMax == 799
PlainMax == 670

SpeedFromRaw(raw) ==
  LET r == IF raw > RawMax THEN RawMax ELSE IF raw < 0 THEN 0 ELSE raw
  IN  IF r > PlainMax THEN (r * 112) - 74370 ELSE r

(* Faulty variant: the gap between the two scales is always bridged up. *)
SpeedToRawUp(knots) ==
  IF knots <= 0 THEN 0
  ELSE IF knots <= PlainMax THEN knots
  ELSE LET r == (knots + 74370 + 56) \div 112 IN IF r < PlainMax + 1 THEN PlainMax + 1 ELSE IF r > RawMax THEN RawMax ELSE r

SpeedToRaw(knots) ==
  IF knots <= 0 THEN 0
  ELSE IF knots <= PlainMax THEN knots
  ELSE LET nearest == (knots + 74370 + 56) \div 112
           raw == IF nearest < PlainMax + 1 THEN PlainMax + 1 ELSE IF nearest > RawMax THEN RawMax ELSE nearest
       IN  IF Magnitude(SpeedFromRaw(raw) - knots) < knots - PlainMax THEN raw ELSE PlainMax

(* The altitude travels in metres above -10000, feet on both ends. *)
AltitudeField(feet) ==
  LET metres == (feet * 25000 + 41010) \div 82021 + 10000
  IN  IF metres < 0 THEN 0 ELSE IF metres > 753570 THEN 753570 ELSE metres
AltitudeFeet(field) == ((field - 10000) * 82021 + 12500) \div 25000

-----------------------------------------------------------------------------
(* aprs_mice_encode()                                                      *)

Encodable(r) ==
  /\ Magnitude(r.lat) <= 90 * Degree
  /\ Magnitude(r.lon) < 180 * Degree
  /\ Split(Magnitude(r.lon)).deg <= 179

LatDigits(r) ==
  LET m == Split(Magnitude(r.lat))
      h == Hundredths(m)
      all == <<m.deg \div 10, m.deg % 10, h \div 1000, (h \div 100) % 10, (h \div 10) % 10, h % 10>>
  IN  [i \in 1..6 |-> IF i > 6 - r.ambiguity THEN Blank ELSE all[i]]

Destination(r) ==
  LET d == LatDigits(r)
      bits == MessageBits(r.code)
      custom == r.custom /\ r.code # Emergency
  IN  [i \in 1..6 |->
         IF i <= 3 THEN Letter(d[i], bits[i], custom)
         ELSE Letter(d[i], CASE i = 4 -> r.lat >= 0
                             [] i = 5 -> Split(Magnitude(r.lon)).deg >= 100
                             [] OTHER -> r.lon < 0, FALSE)]

(* Faulty variant: the offset flag alone tells a longitude of 100 degrees. *)
DegreeByteRaw(deg) == deg

DegreeByte(deg) == IF deg >= 100 THEN deg - 100 ELSE deg

Bytes(r) ==
  LET m == Split(Magnitude(r.lon))
      h == Hundredths(m)
      speed == IF r.moving THEN SpeedToRaw(r.speed) ELSE 0
      course == IF ~r.moving THEN 0 ELSE IF r.course > 399 THEN 399 ELSE r.course
  IN  <<DegreeByte(m.deg), h \div 100, h % 100,
        speed \div 10, ((speed % 10) * 10) + (course \div 100), course % 100>>

(* A text that begins with a byte a receiver would take for an older       *)
(* telemetry layout is moved one place. The maker's pair closes the field. *)
TextField(r) ==
  [msgCapable |-> r.msgCapable,
   altitude |-> IF r.altitude = NoAltitude THEN NoAltitude ELSE AltitudeField(r.altitude),
   text |-> r.text, moved |-> r.text = "comma", pair |-> TRUE]

Encode(r) == [dest |-> Destination(r), bytes |-> Bytes(r), symbol |-> r.symbol, tail |-> TextField(r)]

-----------------------------------------------------------------------------
(* aprs_mice_decode()                                                      *)

(* Faulty variant: a blank after a digit does not end the precision. *)
AmbiguityCount(letters) ==
  LET blank == {i \in 4..6 : letters[i].digit = Blank} IN IF 6 \in blank THEN 1 ELSE 0

Ambiguity(letters) ==
  LET known == {i \in 3..6 : letters[i].digit # Blank}
  IN  IF known = {} THEN 4 ELSE 6 - (CHOOSE i \in known : \A j \in known : j <= i)

LongitudeDegrees(byte, offset) ==
  LET d == IF offset THEN byte + 100 ELSE byte
  IN  IF d \in 180..189 THEN d - 80 ELSE IF d \in 190..199 THEN d - 190 ELSE d

(* An altitude is looked for at the front, then at the end of the text;    *)
(* a text that reads as one there is taken for it.                         *)
ReadTail(t) ==
  [msgCapable |-> t.msgCapable,
   altitude |-> IF t.altitude # NoAltitude THEN AltitudeFeet(t.altitude)
                ELSE IF t.text \in {"altitude first", "altitude last"} THEN 0 ELSE NoAltitude,
   text |-> IF t.altitude = NoAltitude /\ t.text \in {"altitude first", "altitude last"} THEN "cut" ELSE t.text]

Decode(p) ==
  LET l == p.dest
      b == p.bytes
      deg == LetterDigit(l[1]) * 10 + LetterDigit(l[2])
      hundredths == LetterDigit(l[3]) * 1000 + LetterDigit(l[4]) * 100 + LetterDigit(l[5]) * 10 + LetterDigit(l[6])
      lat == deg * Degree + hundredths * 100
      minutes == IF b[2] >= 60 THEN b[2] - 60 ELSE b[2]
      lon == LongitudeDegrees(b[1], LetterFlag(l[5])) * Degree + minutes * Minute + (IF b[3] > 99 THEN 99 ELSE b[3]) * 100
      raw == b[4] * 10 + b[5] \div 10
      heading == (b[5] % 10) * 100 + b[6]
      speed == SpeedFromRaw(IF raw >= 800 THEN raw - 800 ELSE raw)
      course == IF heading >= 400 THEN heading - 400 ELSE heading
  IN  [lat |-> IF LetterFlag(l[4]) THEN lat ELSE -lat,
       lon |-> IF LetterFlag(l[6]) THEN -lon ELSE lon,
       ambiguity |-> Ambiguity(l), message |-> ReadMessage(l),
       speed |-> speed, course |-> course, moving |-> ~(speed = 0 /\ course = 0),
       symbol |-> p.symbol, tail |-> ReadTail(p.tail)]

-----------------------------------------------------------------------------
(***************************************************************************)
(* What a receiver makes of the parts of other stations' reports: the time *)
(* stamp (main/aprs_filter.c), the symbol named in a destination address   *)
(* and a raw GNSS sentence (main/aprs_coord.c).                            *)
(*                                                                         *)
(* Instants are minutes since 1970, characters their codes.                *)
(***************************************************************************)
-----------------------------------------------------------------------------
(* A stamp names a month, a day or an hour, and not the year.              *)

DayMinutes == 1440
(* Faulty variant: a stamp may not be ahead of the clock at all. *)
FutureSlackNone == 0

FutureSlack == 12 * 60

(* days_from_civil_month() *)
DaysFromCivilMonth(year, month) ==
  LET y == IF month <= 2 THEN year - 1 ELSE year
      era == y \div 400
      yoe == y - era * 400
      doy == (153 * (IF month > 2 THEN month - 3 ELSE month + 9) + 2) \div 5
  IN  era * 146097 + (yoe * 365 + yoe \div 4 - yoe \div 100 + doy) - 719468

(* utc_from_fields(): months outside the year are carried into it. *)
UtcFromFields(t) ==
  LET month == ((t.month + 11) % 12) + 1
      year == t.year + (t.month - month) \div 12
  IN  (DaysFromCivilMonth(year, month) + t.day - 1) * DayMinutes + t.minute

(* The fields of a stamp that are there: "month", "day" or "hour" first. *)
(* resolve_utc() *)
ResolveUtc(stamp, kind, now) ==
  LET guess == [year |-> now.year, month |-> IF kind = "month" THEN stamp.month ELSE now.month,
                day |-> IF kind = "hour" THEN now.day ELSE stamp.day, minute |-> stamp.minute]
      back == CASE kind = "month" -> [guess EXCEPT !.year = @ - 1]
                [] kind = "day" -> [guess EXCEPT !.month = @ - 1]
                [] OTHER -> [guess EXCEPT !.day = @ - 1]
  IN  IF UtcFromFields(guess) > UtcFromFields(now) + FutureSlack THEN UtcFromFields(back) ELSE UtcFromFields(guess)

(* The calendar itself, counted out. *)
Leap(year) == (year % 4 = 0 /\ year % 100 # 0) \/ year % 400 = 0
MonthDays(year, month) == IF month = 2 THEN IF Leap(year) THEN 29 ELSE 28 ELSE IF month \in {4, 6, 9, 11} THEN 30 ELSE 31
Before(month) == <<0, 31, 59, 90, 120, 151, 181, 212, 243, 273, 304, 334>>[month]
Calendar(t) ==
  LET y == t.year - 1
      leaps == y \div 4 - y \div 100 + y \div 400
      days == 365 * (t.year - 1970) + leaps - 477 + Before(t.month) + (IF Leap(t.year) /\ t.month > 2 THEN 1 ELSE 0) + t.day - 1
  IN  days * DayMinutes + t.minute

-----------------------------------------------------------------------------
(* A symbol named by two letters of the destination (destPairToCode()).    *)

Chr == [A |-> 65, B |-> 66, D |-> 68, H |-> 72, J |-> 74, L |-> 76, M |-> 77, N |-> 78, O |-> 79, P |-> 80,
        Q |-> 81, R |-> 82, S |-> 83, X |-> 88, Z |-> 90, zero |-> 48, one |-> 49, four |-> 52, nine |-> 57]

SymbolGroups(alternate) ==
  << [x |-> IF alternate THEN Chr.O ELSE Chr.B, from |-> Chr.B, to |-> Chr.P, base |-> 1],
     [x |-> IF alternate THEN Chr.A ELSE Chr.P, from |-> Chr.zero, to |-> Chr.nine, base |-> 16],
     [x |-> IF alternate THEN Chr.A ELSE Chr.P, from |-> Chr.A, to |-> Chr.Z, base |-> 33],
     [x |-> IF alternate THEN Chr.N ELSE Chr.M, from |-> Chr.R, to |-> Chr.X, base |-> 26],
     [x |-> IF alternate THEN Chr.D ELSE Chr.H, from |-> Chr.S, to |-> Chr.X, base |-> 59],
     [x |-> IF alternate THEN Chr.S ELSE Chr.L, from |-> Chr.A, to |-> Chr.Z, base |-> 65],
     [x |-> IF alternate THEN Chr.Q ELSE Chr.J, from |-> Chr.one, to |-> Chr.four, base |-> 91] >>

NoSymbol == 0
(* Faulty variant: a group's codes run on past its last letter. *)
PairToCodeOpen(x, y, alternate) ==
  LET g == SymbolGroups(alternate)
      at == {i \in 1..7 : x = g[i].x /\ y >= g[i].from}
  IN  IF at = {} THEN NoSymbol ELSE LET i == CHOOSE i \in at : \A j \in at : i <= j IN g[i].base + (y - g[i].from)

PairToCode(x, y, alternate) ==
  LET g == SymbolGroups(alternate)
      at == {i \in 1..7 : x = g[i].x /\ y \in g[i].from..g[i].to}
  IN  IF at = {} THEN NoSymbol ELSE LET i == CHOOSE i \in at : \A j \in at : i <= j IN g[i].base + (y - g[i].from)

(* aprs_symbol_from_dest(): the primary table first. *)
SymbolOfPair(x, y) ==
  LET primary == PairToCode(x, y, FALSE)
      alternate == PairToCode(x, y, TRUE)
  IN  IF primary # NoSymbol THEN [table |-> "primary", code |-> primary]
      ELSE IF alternate # NoSymbol THEN [table |-> "alternate", code |-> alternate]
      ELSE [table |-> "none", code |-> NoSymbol]

-----------------------------------------------------------------------------
(* A GNSS sentence, a sequence of fields. A coordinate field is degrees    *)
(* and hundred-thousandths of a minute.                                    *)

ChecksumOk(s) == s.checksum \in {"none", "right"}

NmeaDegrees(c) == c.minutes < 60 * 100000
NmeaValue(c) == c.deg * 10000000 + (c.minutes * 10 + 3) \div 6
NmeaAxis(c, limit) == NmeaDegrees(c) /\ NmeaValue(c) <= limit * 10000000

(* Faulty variant: only the first digit of the quality is looked at. *)
HasFixFirstDigit(s) ==
  CASE s.type = "RMC" -> s.status = "A"
    [] s.type = "GGA" -> s.quality # <<>> /\ s.quality[1] # 0
    [] s.type = "GLL" -> s.status # "V"
    [] OTHER -> FALSE

HasFix(s) ==
  CASE s.type = "RMC" -> s.status = "A"
    [] s.type = "GGA" -> s.quality # <<>> /\ \E i \in 1..Len(s.quality) : s.quality[i] # 0
    [] s.type = "GLL" -> s.status # "V"
    [] OTHER -> FALSE

ReadNmea(s) ==
  IF ChecksumOk(s) /\ HasFix(s) /\ NmeaAxis(s.lat, 90) /\ NmeaAxis(s.lon, 180)
  THEN [ok |-> TRUE, lat |-> IF s.north THEN NmeaValue(s.lat) ELSE -NmeaValue(s.lat),
        lon |-> IF s.east THEN NmeaValue(s.lon) ELSE -NmeaValue(s.lon)]
  ELSE [ok |-> FALSE, lat |-> 0, lon |-> 0]
=============================================================================
