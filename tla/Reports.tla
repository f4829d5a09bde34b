------------------------------- MODULE Reports --------------------------------
(***************************************************************************)
(* What a station says of itself: the position beacon, plain, compressed   *)
(* or Mic-E, and the status report (main/beacon.c), and how a receiver     *)
(* takes the same text apart (main/aprs_filter.c, main/aprs_dao.c).        *)
(*                                                                         *)
(* The text after the position is a sequence of tokens [k, n]: what the    *)
(* token is and how many bytes it takes.  A buffer that is full cuts the   *)
(* token that does not fit, and a cut token says nothing any more.         *)
(***************************************************************************)
EXTENDS Coordinates

Token(k, n) == [k |-> k, n |-> n]
Present(on, k, n) == IF on THEN <<Token(k, n)>> ELSE <<>>

Width(text) ==
  LET upTo[i \in 0..Len(text)] == IF i = 0 THEN 0 ELSE upTo[i - 1] + text[i].n IN upTo[Len(text)]

(* str_append() into a buffer of so many bytes, the last one for the end. *)
Append1(text, t, size) ==
  LET room == size - 1 - Width(text)
  IN  IF t.n <= room THEN Append(text, t)
      ELSE IF room > 0 THEN Append(text, Token("cut", room)) ELSE text

AppendAll(text, tokens, size) ==
  LET upTo[i \in 0..Len(tokens)] == IF i = 0 THEN text ELSE Append1(upTo[i - 1], tokens[i], size) IN upTo[Len(tokens)]

-----------------------------------------------------------------------------
(* The operator's comment: the prefix that keeps the report out of the     *)
(* archives, the comment, and the Winlink marker while it still fits.      *)

CommentSize == 129
PrefixWidth(s) == IF s.comment.n > 0 THEN 4 ELSE 3
MarkerWidth == 8

CommentField(s) ==
  LET text == AppendAll(<<>>, Present(s.noArchive, "no archive", PrefixWidth(s))
                              \o Present(s.comment.n > 0, s.comment.k, s.comment.n), CommentSize)
  IN  IF s.marker /\ Width(text) + MarkerWidth < CommentSize
      THEN Append(text, Token("marker", MarkerWidth)) ELSE text

-----------------------------------------------------------------------------
(* The data extension.                                                     *)

ExtWidth == [phg |-> 7, rate |-> 9, rng |-> 7, dfs |-> 7, df |-> 15, course |-> 7]
(* The heights a transmitted code stands for, and those read back. *)
HeightCodeMax == 13
HeightCodeRead == 9

HeightCode(doublings) == IF doublings > HeightCodeMax THEN HeightCodeMax ELSE doublings

(* The rate is there when the station has a fixed schedule. *)
Extension(s) ==
  CASE s.ext = "off" -> Present(s.moving, "course", 7)
    [] s.ext = "rng" -> Present(TRUE, "rng", 7)
    [] s.ext = "df"  -> Present(s.symbol = "df", "df", 15)
    [] s.ext = "dfs" -> <<[k |-> "dfs", n |-> 7, height |-> HeightCode(s.height)]>>
    [] OTHER -> <<[k |-> IF s.fixed THEN "rate" ELSE "phg",
                   n |-> IF s.fixed THEN 9 ELSE 7, height |-> HeightCode(s.height)]>>

-----------------------------------------------------------------------------
(* The position packet.                                                    *)

FreqWidth == 20
TlmWidth == 14
DaoWidth == 5
AltitudeWidth == 9
MiceTextSize == 63

FreqToken(s) == Present(s.freq, "freq", FreqWidth + 1)
TlmToken(s) == Present(s.tlm, "telemetry", TlmWidth)
DaoToken(s, x, y) ==
  <<[k |-> "dao", n |-> DaoWidth, lat |-> DaoDigit(Split(Magnitude(x))), lon |-> DaoDigit(Split(Magnitude(y)))]>>

(* Telemetry and the position's last digits are placed in room kept for    *)
(* them; the comment gives way.                                            *)
(* Faulty variant: the comment may use the whole buffer. *)
BodyUnreserved(body, tlm, dao, size) ==
  AppendAll(AppendAll(AppendAll(<<>>, body, size), tlm, size), dao, size)

Body(body, tlm, dao, size) ==
  LET reserved == Width(tlm) + Width(dao)
      room == IF size > reserved THEN size - reserved ELSE 1
  IN  AppendAll(AppendAll(AppendAll(<<>>, body, room), tlm, size - Width(dao)), dao, size)

(* Faulty variant: the last digits are sent whatever the ambiguity. *)
SendsDaoAlways(s) == s.dao
SendsDao(s) == s.dao /\ s.ambiguity = 0

MiceSymbol(s) == IF s.symbol = "overlay" THEN [table |-> "alternate", overlay |-> TRUE]
                 ELSE [table |-> IF s.symbol = "alternate" THEN "alternate" ELSE "primary", overlay |-> FALSE]

MicePacket(s) ==
  LET report == [lat |-> s.lat, lon |-> s.lon, ambiguity |-> s.ambiguity,
                 code |-> s.miceCode, custom |-> s.miceCustom,
                 moving |-> s.moving, speed |-> s.speed, course |-> s.course % 360,
                 symbol |-> MiceSymbol(s), msgCapable |-> s.msg,
                 altitude |-> IF s.altitude THEN s.feet ELSE NoAltitude, text |-> "plain"]
      text == Body(FreqToken(s) \o Extension(s) \o CommentField(s), TlmToken(s),
                   IF SendsDao(s) THEN DaoToken(s, s.lat, s.lon) ELSE <<>>, MiceTextSize)
  IN  IF Encodable(report) THEN [form |-> "mice", mice |-> Encode(report), text |-> text]
      ELSE [form |-> "refused"]

(* Compression: not beside an extension other than the range, and never    *)
(* when the operator asked for an imprecise position.                      *)
(* Faulty variant: compression ignores the ambiguity. *)
CompressedAlways(s) ==
  LET extension == Extension(s) # <<>> /\ s.ext # "off"
  IN  s.compress /\ (~extension \/ s.ext = "rng")

Compressed(s) ==
  LET extension == Extension(s) # <<>> /\ s.ext # "off"
  IN  s.compress /\ (~extension \/ s.ext = "rng") /\ s.ambiguity = 0

CsField(s) ==
  IF s.ext = "rng" THEN CsRange(s.range)
  ELSE IF s.ext = "off" /\ s.moving THEN CsCourseSpeed(s.course, s.speedStep)
  ELSE IF s.altitude THEN CsAltitude(s.feetStep)
  ELSE NoCs

AltitudeInCs(s) == s.altitude /\ s.ext # "rng" /\ ~(s.ext = "off" /\ s.moving)

(* A digit that overlays the symbol travels as a letter when compressed. *)
PlainPacket(s) ==
  LET packed == Compressed(s)
      altitude == Present(s.altitude /\ ~(packed /\ AltitudeInCs(s)), "altitude", AltitudeWidth)
      dao == IF SendsDao(s) /\ ~packed THEN DaoToken(s, s.lat, s.lon) ELSE <<>>
      text == Body(FreqToken(s) \o CommentField(s), TlmToken(s), dao, CommentSize)
      ext == IF packed /\ (s.ext = "rng" \/ s.ext = "off") THEN <<>> ELSE Extension(s)
  IN  IF packed
      THEN [form |-> "compressed", lat |-> Digits91(CompressLat(s.lat)), lon |-> Digits91(CompressLon(s.lon)),
            cs |-> CsField(s), table |-> IF s.symbol = "overlay" THEN "letter" ELSE s.symbol,
            text |-> ext \o altitude \o text]
      ELSE [form |-> "plain", lat |-> FormatAxis(s.lat, s.ambiguity), lon |-> FormatAxis(s.lon, s.ambiguity),
            table |-> s.symbol, text |-> ext \o altitude \o text]

PositionPacket(s) ==
  IF s.lat = 0 /\ s.lon = 0 THEN [form |-> "refused"]
  ELSE IF s.mice THEN MicePacket(s) ELSE PlainPacket(s)

-----------------------------------------------------------------------------
(* A receiver takes the report apart.                                      *)

(* parse_data_extension(): the slot right behind the position. *)
Extensions == {"phg", "rate", "rng", "dfs", "df", "course"}
ReadExtension(text, symbol) ==
  IF text = <<>> \/ Head(text).k \notin Extensions THEN "none"
  ELSE LET t == Head(text)
       IN  IF t.k \in {"phg", "rate", "dfs"} /\ t.height > HeightCodeRead THEN "none"
           ELSE IF t.k = "df" /\ symbol # "df" THEN "course"
           ELSE t.k

(* aprs_dao_parse(): the first group with the shape of one, which a typed  *)
(* comment can have too.                                                   *)
ReadDao(text) ==
  LET at == {i \in 1..Len(text) : text[i].k \in {"dao", "like dao"}}
      first == CHOOSE i \in at : \A j \in at : i <= j
  IN  IF at = {} THEN [ok |-> FALSE]
      ELSE IF text[first].k = "dao" THEN [ok |-> TRUE, lat |-> text[first].lat, lon |-> text[first].lon]
      ELSE [ok |-> TRUE, lat |-> 0, lon |-> 0]

HasToken(text, k) == \E i \in 1..Len(text) : text[i].k = k
Refine(axis, dao, side) == IF dao.ok THEN Refined(axis, IF side = "lat" THEN dao.lat ELSE dao.lon) ELSE axis

ReadMice(p) ==
  LET r == Decode(p.mice)
      dao == ReadDao(p.text)
  IN  [lat |-> Refine(r.lat, dao, "lat"), lon |-> Refine(r.lon, dao, "lon"), ok |-> TRUE,
       ext |-> ReadExtension(p.text, "none"), moving |-> r.moving, course |-> r.course % 360, speed |-> r.speed,
       altitude |-> r.tail.altitude # NoAltitude, message |-> r.message, symbol |-> r.symbol,
       telemetry |-> HasToken(p.text, "telemetry"), dao |-> dao.ok]

ReadPlain(p) ==
  LET lat == ReadAxis(p.lat, 90)
      lon == ReadAxis(p.lon, 180)
      dao == ReadDao(p.text)
  IN  [lat |-> Refine(lat.value, dao, "lat"), lon |-> Refine(lon.value, dao, "lon"), ok |-> lat.ok /\ lon.ok,
       ext |-> ReadExtension(p.text, p.table), altitude |-> HasToken(p.text, "altitude"), symbol |-> p.table,
       telemetry |-> HasToken(p.text, "telemetry"), dao |-> dao.ok]

(* Nothing behind a compressed field is looked for but the altitude. *)
ReadCompressed(p) ==
  LET cs == ReadCs(p.cs)
  IN  [lat |-> ExpandLat(Value91(p.lat)), lon |-> ExpandLon(Value91(p.lon)), ok |-> TRUE,
       ext |-> IF cs.kind = "range" THEN "rng" ELSE IF cs.kind = "course" THEN "course" ELSE "none",
       altitude |-> cs.kind = "altitude" \/ HasToken(p.text, "altitude"),
       symbol |-> IF p.table = "letter" THEN "overlay" ELSE p.table,
       telemetry |-> HasToken(p.text, "telemetry"), dao |-> FALSE]

ReadReport(p) ==
  CASE p.form = "mice" -> ReadMice(p)
    [] p.form = "compressed" -> ReadCompressed(p)
    [] p.form = "plain" -> ReadPlain(p)
    [] OTHER -> [ok |-> FALSE]

-----------------------------------------------------------------------------
(* The status report gives up its locator or time stamp first, then its    *)
(* frequency, and is not sent at all before its text is cut.               *)

StatusMax == 63
GridWidth == 8
StampWidth == 7
BeamWidth == 3

StatusHead(grid, stamp, freq) ==
  Present(grid, "grid", GridWidth) \o Present(stamp, "time", StampWidth) \o Present(freq, "freq", FreqWidth)
StatusField(s, grid, stamp, freq) ==
  LET head == StatusHead(grid, stamp, freq)
  IN  head \o Present(head # <<>>, "space", 1) \o <<Token("text", s.text)>> \o Present(s.beam, "beam", BeamWidth)

StatusWidth(f) == 1 + Width(f)
Fits(f) == StatusWidth(f) <= StatusMax
(* Faulty variant: the type byte is not counted. *)
FitsWithoutType(f) == Width(f) <= StatusMax

(* Faulty variant: the locator is given up only after the frequency. *)
StatusPacketFreqFirst(s) ==
  LET grid == s.grid /\ ~s.atOrigin
      stamp == s.stamp /\ ~grid
      tries == <<StatusField(s, grid, stamp, s.freq), StatusField(s, grid, stamp, FALSE),
                 StatusField(s, FALSE, FALSE, FALSE)>>
      good == {i \in 1..3 : Fits(tries[i])}
  IN  IF s.text = 0 \/ good = {} THEN <<>> ELSE tries[CHOOSE i \in good : \A j \in good : i <= j]

StatusPacket(s) ==
  LET grid == s.grid /\ ~s.atOrigin
      stamp == s.stamp /\ ~grid
      tries == <<StatusField(s, grid, stamp, s.freq), StatusField(s, FALSE, FALSE, s.freq),
                 StatusField(s, FALSE, FALSE, FALSE)>>
      good == {i \in 1..3 : Fits(tries[i])}
  IN  IF s.text = 0 \/ good = {} THEN <<>> ELSE tries[CHOOSE i \in good : \A j \in good : i <= j]

-----------------------------------------------------------------------------
(***************************************************************************)
(* What a station says of other things: objects and items                  *)
(* (main/objects_items.c) and telemetry (main/telemetry.c), with the place *)
(* a receiver looks for each part.                                         *)
(***************************************************************************)
-----------------------------------------------------------------------------
(* The frequency block, a run of groups in a fixed order, every group      *)
(* behind the first optional (objitem_build_freq_block()).                 *)

FreqFieldWidth == 10
FreqBlockSize == 38

(* Frequencies in kHz that have no letter cannot be written.               *)
LetterBases == {1200, 2300, 2400, 3400, 5600, 5700, 5800, 10100, 10200, 10300, 10400, 10500, 24000, 24100, 24200}
FreqWritten(khz) ==
  /\ khz > 0
  /\ khz > 999999 => \E b \in LetterBases : khz \div 1000 \in b..(b + 99)
RxFreqWritten(khz) == khz \in 100000..999999

(* A group that does not fit is left out whole. *)
WholeOrNot(text, t) == IF Width(text) + t.n < FreqBlockSize THEN Append(text, t) ELSE text
AddGroups(text, groups) ==
  LET upTo[i \in 0..Len(groups)] == IF i = 0 THEN text ELSE WholeOrNot(upTo[i - 1], groups[i]) IN upTo[Len(groups)]

(* Faulty variant: the second frequency is given the space of the first. *)
FreqBlockNoRoom(f) ==
  IF ~FreqWritten(f.khz) THEN <<>>
  ELSE <<Token("freq", FreqFieldWidth)>> \o
         Present(RxFreqWritten(f.rx), "rx", 12) \o <<Token("tone", 6)>>
         \o Present(f.duplex # 0, "offset", 7) \o Present(f.range > 0, "range", 8)

FreqBlock(f) ==
  IF ~FreqWritten(f.khz) THEN <<>>
  ELSE AddGroups(<<Token("freq", FreqFieldWidth)>>,
         Present(RxFreqWritten(f.rx), "rx", 10) \o <<Token("tone", 5)>>
         \o Present(f.duplex # 0, "offset", 5) \o Present(f.range > 0, "range", IF f.km THEN 6 ELSE 5))

-----------------------------------------------------------------------------
(* An object or an item.  b.kind is what its symbol says it is.            *)

NameMax == 9
SlotWidth == 7
CommentMax == 43

(* The slot behind the position: the symbol decides before any setting. *)
ObjectSlot(b) ==
  CASE b.kind = "area" -> "area"
    [] b.kind = "signpost" -> "signpost"
    [] b.df /\ b.kind = "df" -> "df"
    [] b.kind \notin {"area", "signpost"} /\ b.speed > 0 /\ ~(b.df /\ b.kind = "df") -> "course"
    [] b.phg /\ b.speed = 0 /\ ~(b.df /\ b.kind = "df") -> "phg"
    [] OTHER -> "none"

ObjectCompressed(b) == b.compress /\ b.kind \notin {"area", "signpost"} /\ ~b.phg /\ ~(b.df /\ b.kind = "df")

(* Faulty variant: a compressed object keeps the course in both places. *)
ObjectSlotSentTwice(b) == ObjectSlot(b)
ObjectSlotSent(b) == IF ObjectCompressed(b) THEN "none" ELSE ObjectSlot(b)

Spaced(text, t) == IF text = <<>> THEN t ELSE <<Token("space", 1)>> \o t

ObjectText(b) ==
  LET corridor == Present(b.kind = "area" /\ b.line /\ b.width > 0, "corridor", 5)
      freq == FreqBlock(b.freq)
      withFreq == IF freq = <<>> THEN corridor ELSE corridor \o Spaced(corridor, freq)
      comment == Present(b.comment > 0, "comment", b.comment)
  IN  Present(b.noArchive, "no archive", 4) \o
      (IF comment = <<>> THEN withFreq ELSE withFreq \o Spaced(withFreq, comment))

(* An object's name fills nine places, an item's ends at the mark that     *)
(* says whether it is alive.                                               *)
ObjectPacket(b) ==
  [type |-> IF b.item THEN "item" ELSE "object",
   name |-> IF b.item THEN IF b.name > NameMax THEN NameMax ELSE b.name ELSE NameMax,
   live |-> b.live, stamp |-> IF b.item THEN "none" ELSE IF b.permanent THEN "permanent" ELSE "now",
   compressed |-> ObjectCompressed(b),
   cs |-> IF ObjectCompressed(b) /\ b.speed > 0 THEN CsCourseSpeed(b.course, b.speed) ELSE NoCs,
   slot |-> ObjectSlotSent(b), course |-> b.course, speed |-> b.speed, text |-> ObjectText(b)]

(* The reader looks for an item's mark from the fourth name place on. *)
ItemNameMin == 3
ReadObject(p) ==
  IF p.type = "item" /\ p.name < ItemNameMin THEN [ok |-> FALSE]
  ELSE LET cs == ReadCs(p.cs)
       IN  [ok |-> TRUE, live |-> p.live, name |-> p.name,
            course |-> p.slot = "course" \/ (p.compressed /\ cs.kind = "course"),
            slot |-> IF p.compressed THEN cs.kind ELSE p.slot]

-----------------------------------------------------------------------------
(* The telemetry report: five analog places and one for the bits.  A       *)
(* reader numbers the fields by their place.                               *)

AnalogChannels == 5
BitChannels == 8
Empty == "empty"

Analog(t, i) == t.analogOn /\ i <= t.count /\ i \in t.present
HasBits(t) == t.bitsOn /\ t.bits > 0

(* Fields left when trailing ones may be dropped. *)
FieldsToEmit(t) ==
  IF ~t.omit THEN t.count + 1
  ELSE IF HasBits(t) THEN t.count + 1
  ELSE LET used == {i \in 1..t.count : Analog(t, i)}
       IN  IF used = {} THEN 0 ELSE CHOOSE i \in used : \A j \in used : j <= i

(* Faulty variant: an empty field is dropped wherever it is. *)
DataFieldsPacked(t) ==
  LET n == FieldsToEmit(t)
      analog == SelectSeq([i \in 1..(IF n < t.count THEN n ELSE t.count) |-> IF Analog(t, i) THEN <<"analog", i>> ELSE <<Empty>>],
                          LAMBDA f : f # <<Empty>>)
  IN  IF HasBits(t) /\ n > t.count THEN Append(analog, <<"bits">>) ELSE analog

DataFields(t) ==
  LET n == FieldsToEmit(t)
      analog == [i \in 1..(IF n < t.count THEN n ELSE t.count) |-> IF Analog(t, i) THEN <<"analog", i>> ELSE <<Empty>>]
  IN  IF HasBits(t) /\ n > t.count THEN Append(analog, <<"bits">>) ELSE analog

(* The group in a position report's comment: pairs of the first channels   *)
(* up to one that has no value, and the bits only behind all five.         *)
(* Faulty variant: a channel without a value is passed over. *)
CommentGroupSkipping(t) ==
  LET analog == SelectSeq([i \in 1..AnalogChannels |-> i], LAMBDA i : i <= t.count /\ i \in t.present)
      pairs == [i \in 1..Len(analog) |-> <<"analog", analog[i]>>]
  IN  IF pairs = <<>> THEN <<>>
      ELSE IF HasBits(t) /\ Len(pairs) = AnalogChannels THEN Append(pairs, <<"bits">>) ELSE pairs

CommentGroup(t) ==
  LET missing == {i \in 1..AnalogChannels : ~(i <= t.count /\ i \in t.present)}
      n == IF missing = {} THEN AnalogChannels ELSE (CHOOSE i \in missing : \A j \in missing : i <= j) - 1
      pairs == [i \in 1..n |-> <<"analog", i>>]
  IN  IF n = 0 THEN <<>> ELSE IF HasBits(t) /\ n = AnalogChannels THEN Append(pairs, <<"bits">>) ELSE pairs

(* The names sent for the channels, thirteen places with the analog ones   *)
(* first, empty ones at the end left out.                                  *)
ParmNames(t) ==
  LET place(i) == IF i <= t.count THEN <<"analog", i>>
                  ELSE IF i > AnalogChannels /\ i - AnalogChannels <= t.bits THEN <<"bit", i - AnalogChannels>>
                  ELSE <<Empty>>
      used == {i \in 1..(AnalogChannels + BitChannels) : place(i) # <<Empty>>}
      n == IF used = {} THEN 0 ELSE CHOOSE i \in used : \A j \in used : j <= i
  IN  [i \in 1..n |-> place(i)]

(* A value is kept inside the range declared for its channel, when that    *)
(* range and the field's own have something in common.                     *)
Window(lo, hi, rawMin, rawMax) ==
  LET low == IF rawMin > lo THEN rawMin ELSE lo
      high == IF rawMax < hi THEN rawMax ELSE hi
  IN  IF rawMax <= rawMin \/ low > high THEN <<lo, hi>> ELSE <<low, high>>

Base91Pair == 91 * 91 - 1
(* Faulty variant: the declared range alone bounds the pair. *)
PairValueDeclared(raw, rawMin, rawMax) ==
  IF rawMax <= rawMin THEN raw ELSE IF raw < rawMin THEN rawMin ELSE IF raw > rawMax THEN rawMax ELSE raw

PairValue(raw, rawMin, rawMax) ==
  LET w == Window(0, Base91Pair, rawMin, rawMax) IN IF raw < w[1] THEN w[1] ELSE IF raw > w[2] THEN w[2] ELSE raw

-----------------------------------------------------------------------------
(* Where the receiver looks for things by counting characters: the         *)
(* position behind a late '!', the symbol of a position, the comment       *)
(* behind it with the alert code that may lead it, the arguments of a      *)
(* server filter's term and the callsign prefixes of the range fieldset.   *)
(* A text is the widths and kinds of its fields; of a coordinate, what     *)
(* tells a well-formed one from one the decoder refuses.  An argument is   *)
(* the class of its characters.                                            *)

CONSTANTS
  LateTexts,     \* texts with a '!' in them
  Terms,         \* terms of the server filter
  Lists,         \* prefix lists with a callsign, as characters
  Comments       \* reports with a comment

(* Positions                                                               *)

PlainWidth == 19        \* POS_UNCOMPRESSED_LEN
CompressedWidth == 13   \* POS_COMPRESSED_LEN
FieldWidth(field) == IF field.layout = "plain" THEN PlainWidth ELSE CompressedWidth

(* position_field_is_well_formed(): degrees up to and with the limit, and  *)
(* digits or blanks after the point in any order.                          *)
WellFormed(field, room) ==
  /\ field.layout # "text"
  /\ room >= FieldWidth(field)
  /\ field.layout = "plain" => field.deg <= 90

(* What decode_pos_uncompressed() accepts of such a field: the coordinate, *)
(* not its degrees, within the limit, and blanks that trail.               *)
Decodable(field) ==
  field.layout = "plain" =>
    (field.deg < 90 \/ (field.deg = 90 /\ ~field.minutes)) /\ field.trailing

(* Faulty variant: the limit counts from zero. *)
ScanMaxFromZero == 41

ScanMax == 40   \* LATE_DTI_SCAN_MAX

(* late_position_offset(): marks of a payload are the '!'s behind its      *)
(* first byte, at offsets from 0; the offset just past the first that a    *)
(* well-formed position follows.                                           *)
LateOffset(p) ==
  LET limit == IF p.len < ScanMax THEN p.len ELSE ScanMax
      hits == {m \in p.marks : m.at < limit /\ WellFormed(m.field, p.len - m.at - 1)}
  IN  IF hits = {} THEN 0
      ELSE (CHOOSE m \in hits : \A n \in hits : m.at <= n.at).at + 1

(* extract_symbol() and position_bit(), object_bit(): the symbol at the    *)
(* offset of its layout says weather or buoy, if the field reaches it.     *)
SymbolEnd(layout) == IF layout = "plain" THEN 19 ELSE 10
ClassOf(field, room, default) ==
  CASE room < SymbolEnd(field.layout) -> default
    [] room >= SymbolEnd(field.layout) /\ field.symbol = "_" -> "weather"
    [] room >= SymbolEnd(field.layout) /\ field.symbol = "/N" -> "buoy"
    [] OTHER -> default

Class(p) ==
  LET offset == LateOffset(p) IN
  IF offset = 0 THEN "none"
  ELSE ClassOf((CHOOSE m \in p.marks : m.at = offset - 1).field, p.len - offset, "position")

-----------------------------------------------------------------------------
(* Terms of the server filter                                              *)

Number(arg)   == arg \in {"12", "1.5"}
Unsigned(arg) == arg = "12"
FlagArg(arg)     == arg = "o"          \* one of IiOoSs
TypeSet(arg)  == arg \in {"o", "po", ""}   \* no character that is no type letter
Every(args, Test(_)) == \A i \in DOMAIN args : Test(args[i])

(* The arguments split_args() is asked for, by letter.                     *)
MaxArgs(letter) ==
  CASE letter = "r" -> 4 [] letter = "f" -> 3 [] letter = "m" -> 2 [] letter = "t" -> 3
    [] letter = "q" -> 2 [] letter = "a" -> 5 [] OTHER -> 8

SplitArgs(term) ==
  SubSeq(term.args, 1, IF Len(term.args) < MaxArgs(term.letter) THEN Len(term.args)
                       ELSE MaxArgs(term.letter))

(* validate_term(), on the arguments it has split off                      *)
Shape(letter, args) ==
  CASE letter = "r" -> Len(args) = 3 /\ Every(args, Number)
    [] letter = "f" -> Len(args) = 2 /\ args[1] # "" /\ Number(args[2])
    [] letter = "m" -> Len(args) = 1 /\ Number(args[1])
    [] letter = "t" -> /\ args # <<>> /\ args[1] # "" /\ TypeSet(args[1])
                       /\ Len(args) >= 3 => Unsigned(args[3])
    [] letter = "q" -> args # <<>> /\ Every(args, FlagArg)
    [] letter = "a" -> Len(args) = 4 /\ Every(args, Number)
    [] letter = "p" -> args # <<>> /\ "" \notin {args[i] : i \in DOMAIN args}
    [] OTHER -> FALSE

Accepts(term) == Shape(term.letter, SplitArgs(term))

(* What may follow the letter, from the forms the comments spell out:      *)
(* a number of arguments, and the shape of each of them.                   *)
Counts(letter) ==
  CASE letter = "r" -> {3} [] letter = "f" -> {2} [] letter = "m" -> {1} [] letter = "t" -> 1..3
    [] letter = "q" -> 1..2 [] letter = "a" -> {4} [] letter = "p" -> Nat \ {0} [] OTHER -> {}
Grammar(term) == Len(term.args) \in Counts(term.letter) /\ Shape(term.letter, term.args)

-----------------------------------------------------------------------------
(* Callsign prefixes                                                       *)

StartsWith(call, prefix) ==
  Len(prefix) <= Len(call) /\ \A i \in DOMAIN prefix : call[i] = prefix[i]

(* aprs_filter_prefix_match(): skip blanks and commas, run to the next     *)
(* comma, give the blanks at its end back.                                 *)
EntryEnd(text, end) ==
  LET ends == {e \in 0..end : \A i \in (e + 1)..end : text[i] = " "} IN
  CHOOSE e \in ends : \A f \in ends : e <= f

MatchFrom[text \in {l.text : l \in Lists}, at \in 1..8, call \in {l.call : l \in Lists}] ==
  LET starts == {i \in at..Len(text) : text[i] \notin {" ", ","}} IN
  IF starts = {} THEN FALSE
  ELSE LET start == CHOOSE i \in starts : \A j \in starts : i <= j
           commas == {i \in start..Len(text) : text[i] = ","}
           end == IF commas = {} THEN Len(text) ELSE (CHOOSE i \in commas : \A j \in commas : i <= j) - 1
       IN  \/ StartsWith(call, SubSeq(text, start, EntryEnd(text, end)))
           \/ MatchFrom[text, end + 1, call]

PrefixMatch(l) == l.call # <<>> /\ MatchFrom[l.text, 1, l.call]

(* The whole entries between commas, without the blanks around them.       *)
ListEntries(text) ==
  {SubSeq(text, b[1], b[2]) : b \in
     {c \in (1..Len(text)) \X (1..Len(text)) :
        /\ c[1] <= c[2] /\ \A i \in c[1]..c[2] : text[i] # ","
        /\ text[c[1]] # " " /\ text[c[2]] # " "
        /\ \A i \in 1..(c[1] - 1) : (\A j \in i..(c[1] - 1) : text[j] # ",") => text[i] = " "
        /\ \A i \in (c[2] + 1)..Len(text) : (\A j \in (c[2] + 1)..i : text[j] # ",") => text[i] = " "}}

-----------------------------------------------------------------------------
(* The alert code that leads a comment                                     *)

(* aprs_filter_comment_alert(): where the position starts, by the data     *)
(* type identifier; an item's name ends at the first '!' or '_' that may   *)
(* end one.  0 when the report is too short to have one.                   *)
PositionStart(c) ==
  LET at == CASE c.dti = "plain" -> 1 [] c.dti = "stamped" -> 8 [] c.dti = "object" -> 18
              [] c.dti = "item" -> IF c.name \in 3..9 THEN c.name + 2 ELSE 0
              [] OTHER -> 0
  IN  IF at < c.len THEN at ELSE 0

(* comment_offset(): the field, and the data extension of a plain one.     *)
CommentOffset(c, room) ==
  IF room < FieldWidth(c) THEN room
  ELSE FieldWidth(c) + (IF c.layout = "plain" THEN c.extension ELSE 0)

(* match_comment_alert(): the code is looked for at the offset only.       *)
Alerts(c) ==
  LET start == PositionStart(c) IN
  start # 0 /\ start + CommentOffset(c, c.len - start) = c.codeAt

-----------------------------------------------------------------------------
(***************************************************************************)
(* A report from the settings it is built from, over the air, to what a    *)
(* receiver makes of it.  Each kind of report is a case of its own; what   *)
(* joins them is the question asked of all: is what is read what was meant *)
(* and is nothing told that was to be kept back.                           *)
(***************************************************************************)

CONSTANTS
  Beacons, Statuses, Objects, Telemetries,  \* settings a report is built from
  Stamps, Pairs, Sentences                  \* parts of other stations' reports
                                            \* (each a set of families of them)

VARIABLES
  what,   \* the settings
  air,    \* the report sent
  made   \* what is made of it

reportVars == <<what, air, made>>

Nothing == [form |-> "nothing"]
Slices ==
  [beacon |-> Beacons, status |-> Statuses, object |-> Objects, telemetry |-> Telemetries,
   stamp |-> Stamps, pair |-> Pairs, sentence |-> Sentences,
   late |-> {LateTexts}, term |-> {Terms}, prefix |-> {Lists}, comment |-> {Comments}]

ReportInit ==
  /\ \E part \in DOMAIN Slices : \E family \in Slices[part] : \E of \in family : what = [part |-> part, of |-> of]
  /\ air = Nothing /\ made = Nothing

Built(c) ==
  CASE c.part = "beacon" -> PositionPacket(c.of)
    [] c.part = "status" -> [form |-> "status", text |-> StatusPacket(c.of)]
    [] c.part = "object" -> [form |-> "object", packet |-> ObjectPacket(c.of)]
    [] c.part = "telemetry" ->
         [form |-> "telemetry", fields |-> DataFields(c.of), group |-> CommentGroup(c.of), names |-> ParmNames(c.of),
          pair |-> PairValue(c.of.raw, c.of.rawMin, c.of.rawMax)]
    [] OTHER -> [form |-> c.part]

Read(c, p) ==
  CASE c.part = "beacon" -> ReadReport(p)
    [] c.part = "object" -> ReadObject(p.packet)
    [] c.part = "stamp" -> [utc |-> ResolveUtc(c.of.sent, c.of.kind, c.of.now)]
    [] c.part = "pair" -> SymbolOfPair(c.of[1], c.of[2])
    [] c.part = "sentence" -> ReadNmea(c.of)
    [] c.part = "late" -> [offset |-> LateOffset(c.of), class |-> Class(c.of)]
    [] c.part = "term" -> [accepted |-> Accepts(c.of)]
    [] c.part = "prefix" -> [matches |-> PrefixMatch(c.of)]
    [] c.part = "comment" -> [alert |-> Alerts(c.of)]
    [] OTHER -> p

Build ==
  /\ air = Nothing
  /\ air' = Built(what)
  /\ UNCHANGED <<what, made>>

ReadBack ==
  /\ air # Nothing /\ made = Nothing
  /\ made' = Read(what, air)
  /\ UNCHANGED <<what, air>>

Done == made # Nothing /\ UNCHANGED reportVars

ReportNext == Build \/ ReadBack \/ Done
ReportSpec == ReportInit /\ [][ReportNext]_reportVars

-----------------------------------------------------------------------------
On(part) == what.part = part /\ made # Nothing
Sent(part) == what.part = part /\ air # Nothing
Own == what.of

Near(x, y, d) == Magnitude(x - y) <= d

(* What the digits left blank can stand for, and half of it with the       *)
(* minutes that are cut off.                                               *)
BoxSize(a) == <<100, 1000, 10000, 100000, 600000>>[a + 1]
Blur(a) == <<105, 555, 5055, 50055, 300055>>[a + 1]
(* The altitude digits a reader refuses, finding of its own below. *)
AltitudeDigitLost == air.form = "compressed" /\ air.cs.form = "gga" /\ air.cs.s > DigitTop

(* A coordinate less than a hundredth of a minute south of the equator or  *)
(* west of Greenwich is read as zero, and its last digit is added on the   *)
(* wrong side (aprs_filter.c:1254).                                        *)
BesideZero(x) == x < 0 /\ Magnitude(x) < 95

(* A position is read to within what its layout carries: a thousandth of a *)
(* minute with the last digits, the blanked ones' range with ambiguity, a  *)
(* step of the base-91 number when compressed (aprs_coord.c, aprs_dao.c).  *)
PositionKept ==
  (On("beacon") /\ air.form # "refused") =>
    LET d == CASE air.form = "compressed" -> 20
               [] air.form = "mice" /\ Own.ambiguity > 0 -> BoxSize(Own.ambiguity) + 5
               [] made.dao /\ Own.comment.k = "comment" -> IF BesideZero(Own.lat) \/ BesideZero(Own.lon) THEN 195 ELSE 5
               [] OTHER -> Blur(Own.ambiguity)
    IN  made.ok => (Near(made.lat, Own.lat, d) /\ Near(made.lon, Own.lon, d))

(* A station that asked for an imprecise position sends the same report    *)
(* from everywhere inside the box it named: no compression and no last     *)
(* digits give away more. A Mic-E report blanks its latitude alone         *)
(* (beacon.c:711, 778, mice.c:572).                                        *)
Corner(x) ==
  LET rounded == ((Magnitude(x) + 5) \div 10) * 10
      corner == (rounded \div BoxSize(Own.ambiguity)) * BoxSize(Own.ambiguity)
  IN  IF x < 0 THEN -corner ELSE corner
AmbiguityHides ==
  (Sent("beacon") /\ air.form # "refused" /\ Own.ambiguity > 0) =>
    LET lat == Corner(Own.lat)
        lon == Corner(Own.lon)
    IN  IF air.form = "mice"
        THEN lat # 0 => PositionPacket([Own EXCEPT !.lat = lat]) = air
        ELSE (lat # 0 /\ lon # 0) => PositionPacket([Own EXCEPT !.lat = lat, !.lon = lon]) = air

(* The telemetry and the last digits are never cut, however long the       *)
(* comment (beacon.c:595, 805).                                            *)
ReservedKept ==
  (On("beacon") /\ air.form # "refused") =>
    /\ Own.tlm => made.telemetry
    /\ (SendsDao(Own) /\ air.form # "compressed") => made.dao
    /\ Width(air.text) < (IF air.form = "mice" THEN MiceTextSize ELSE CommentSize + 15 + AltitudeWidth)

(* The data extension the operator chose is the one a receiver reads, for  *)
(* the heights the format defines; the altitude is read from where it was  *)
(* put; the symbol survives the letter it travels as (beacon.c:682-758).   *)
SettingsRead ==
  (On("beacon") /\ air.form \in {"plain", "compressed"}) =>
    /\ \/ Own.ext \in {"phg", "dfs"} /\ Own.height > HeightCodeRead
       \/ made.ext = CASE Own.ext = "off" -> IF Own.moving THEN "course" ELSE "none"
                        [] Own.ext = "df" -> IF Own.symbol = "df" THEN "df" ELSE "none"
                        [] Own.ext = "phg" -> IF Own.fixed THEN "rate" ELSE "phg"
                        [] OTHER -> Own.ext
    /\ made.altitude = Own.altitude \/ AltitudeDigitLost
    /\ made.symbol = Own.symbol

(* A Mic-E report is read with the comment, the altitude and the motion    *)
(* that were sent: the speed to the nearest step of the scale above 670    *)
(* knots, whichever scale is the nearer (mice.c:94-192).                   *)
MiceRead ==
  (On("beacon") /\ air.form = "mice") =>
    /\ made.message = [code |-> Own.miceCode, custom |-> Own.miceCustom]
    /\ made.altitude = Own.altitude
    /\ Own.moving => /\ Near(made.speed, Own.speed, IF Own.speed <= PlainMax THEN 0 ELSE 56) \/ Own.speed > SpeedFromRaw(RawMax)
                     /\ made.course = Own.course % 360 \/ ~made.moving
    /\ made.moving => Own.moving

(* The grid square named for a position has the position inside it         *)
(* (aprs_coord.c:108-151).                                                 *)
LocatorHolds ==
  On("beacon") =>
    LET g == Locator(Own.lat, Own.lon)
        south == g[2] * 10 * Degree + g[4] * Degree + g[6] * (Degree \div 24) - 90 * Degree
        west == g[1] * 20 * Degree + g[3] * 2 * Degree + g[5] * 5 * Minute - 180 * Degree
    IN  /\ Own.lat - south \in 0..(Degree \div 24 - 1) \/ Magnitude(Own.lat) >= 90 * Degree
        /\ Own.lon - west \in 0..(5 * Minute - 1) \/ Magnitude(Own.lon) >= 180 * Degree

(* A position beacon means to its receiver what its settings say. *)
BeaconTrue == PositionKept /\ AmbiguityHides /\ ReservedKept /\ SettingsRead /\ MiceRead /\ LocatorHolds

(* The highest altitude digit is read like any other (aprs_coord.h:363).   *)
AltitudeKept == On("beacon") => ~AltitudeDigitLost \/ made.altitude

-----------------------------------------------------------------------------
(* A status text is never cut: the locator or the time give way first,     *)
(* then the frequency, and only a text too long by itself is withheld      *)
(* (beacon.c:1031-1075).                                                   *)
StatusSound ==
  Sent("status") =>
    LET text == air.text
        bare == 1 + Own.text + (IF Own.beam THEN BeamWidth ELSE 0)
    IN  /\ text # <<>> => /\ Width(text) + 1 <= StatusMax
                          /\ \E i \in DOMAIN text : text[i] = Token("text", Own.text)
                          /\ ~(HasToken(text, "grid") /\ HasToken(text, "time"))
                          /\ (Own.freq /\ ~HasToken(text, "freq")) => bare + FreqWidth + 1 > StatusMax
        /\ text = <<>> => Own.text = 0 \/ bare > StatusMax

(* An object's motion is told once, where its layout has a place for it,   *)
(* and a special symbol keeps the slot that explains it; an item with a    *)
(* name of three letters or more is read again; the frequency block fits   *)
(* its field with nothing of it cut (objects_items.c:710-1046).            *)
ObjectSound ==
  On("object") =>
    LET block == FreqBlock(Own.freq)
        special == Own.kind \in {"area", "signpost"} \/ (Own.df /\ Own.kind = "df")
    IN  /\ ~Own.item \/ Own.name >= ItemNameMin => made.ok
        /\ made.ok => /\ made.live = Own.live
                       /\ made.course = (Own.speed > 0 /\ ~special)
                       /\ special => made.slot \in {"area", "signpost", "df"}
                       /\ ~(air.packet.slot = "course" /\ air.packet.cs # NoCs)
        /\ Width(block) < FreqBlockSize
        /\ FreqWritten(Own.freq.khz) => block # <<>> /\ block[1].n = FreqFieldWidth

(* A reader that numbers the fields by their place names every value as    *)
(* its station does: empty places are kept, the group in a comment ends at *)
(* the first gap, the bits come sixth or with fewer analog channels        *)
(* declared right behind them, and a pair fits two digits                  *)
(* (telemetry.c:820-1175).                                                 *)
TelemetrySound ==
  Sent("telemetry") =>
    /\ \A i \in DOMAIN air.fields :
         \/ air.fields[i] \in {<<Empty>>, <<"analog", i>>}
         \/ air.fields[i] = <<"bits">> /\ i = Own.count + 1
    /\ \A i \in 1..Own.count : Analog(Own, i) => i \in DOMAIN air.fields
    /\ HasBits(Own) => <<"bits">> \in {air.fields[i] : i \in DOMAIN air.fields}
    /\ \A i \in DOMAIN air.group : air.group[i] = IF i <= AnalogChannels THEN <<"analog", i>> ELSE <<"bits">>
    /\ \A i \in DOMAIN air.names :
         air.names[i] \in {<<Empty>>, IF i <= AnalogChannels THEN <<"analog", i>> ELSE <<"bit", i - AnalogChannels>>}
    /\ air.pair \in 0..Base91Pair
    /\ (Own.rawMin <= Own.raw /\ Own.raw <= Own.rawMax /\ Own.raw \in 0..Base91Pair) => air.pair = Own.raw

(* What a station says of itself and its surroundings fits its field and   *)
(* is found in its place. *)
ServiceTrue == StatusSound /\ ObjectSound /\ TelemetrySound

-----------------------------------------------------------------------------
(* A stamp that names a month, a day or an hour is the instant it was      *)
(* sent, for one that is not older than its fields can tell; one ahead of  *)
(* the receiver's clock is taken for what it is inside the same year,      *)
(* month or day, and half a day at most (aprs_filter.c:1083-1146).         *)
WholeDays(kind) == CASE kind = "month" -> 364 [] kind = "day" -> 27 [] OTHER -> 0
SamePeriod(kind, a, b) ==
  /\ a.year = b.year
  /\ kind # "month" => a.month = b.month
  /\ kind = "hour" => a.day = b.day
StampRight ==
  On("stamp") =>
    LET sent == Calendar(Own.sent)
        age == Calendar(Own.now) - sent
        half == DayMinutes \div 2
    IN  (\/ age \in 0..(WholeDays(Own.kind) * DayMinutes + half - 1)
         \/ age \in (-half)..0 /\ SamePeriod(Own.kind, Own.sent, Own.now))
        => made.utc = sent

Symbols == [table : {"primary", "alternate"}, code : 0..127]
NamedBy == [symbol \in Symbols |-> {p \in UNION Pairs : SymbolOfPair(p[1], p[2]) = symbol}]

(* The symbol two letters of a destination name is one the tables have,    *)
(* no two pairs name the same one, and every symbol has a pair             *)
(* (aprs_coord.c:759-894).                                                 *)
SymbolPairs ==
  On("pair") =>
    /\ made.table # "none" => made.code \in 1..94
    /\ made.table # "none" => NamedBy[made] = {Own}

(* A sentence is a position when its receiver had a fix and its sum is not *)
(* wrong, and the position is the one named, in ten-millionths of a degree *)
(* (aprs_coord.c:471-722).                                                 *)
SentenceRead ==
  On("sentence") =>
    /\ made.ok => /\ Own.checksum # "wrong"
                   /\ Magnitude(made.lat) <= 900000000 /\ Magnitude(made.lon) <= 1800000000
                   /\ Own.type = "GGA" => \E i \in DOMAIN Own.quality : Own.quality[i] # 0
    /\ (Own.type = "GGA" /\ Own.checksum = "right" /\ NmeaAxis(Own.lat, 90) /\ NmeaAxis(Own.lon, 180)
        /\ \E i \in DOMAIN Own.quality : Own.quality[i] # 0) => made.ok

(* A late '!' is found when it is one of the first 40 characters and a     *)
(* whole position is behind it, the first such one; a position the decoder *)
(* can read is never passed over for a later one.                          *)
LateFound ==
  On("late") =>
    LET p == Own
        Readable(m) == m.at + 1 <= 40 /\ m.field.layout # "text" /\ Decodable(m.field)
                       /\ m.at + 1 + FieldWidth(m.field) <= p.len
    IN  /\ \A m \in p.marks : Readable(m) => made.offset \in 1..(m.at + 1)
        /\ made.offset # 0 =>
             \E m \in p.marks : /\ made.offset = m.at + 1 /\ m.at < 40
                                /\ m.at + 1 + FieldWidth(m.field) <= p.len
                                /\ made.class \in {"position", "weather", "buoy"}

(* The form of a term decides, for as many arguments as are looked at: no  *)
(* term of the grammar is refused, and none with a fixed number of         *)
(* arguments is taken with another.                                        *)
TermsTaken ==
  On("term") =>
    /\ Grammar(Own) => made.accepted
    /\ made.accepted /\ Own.letter \notin {"q", "t", "p"} => Grammar(Own)

(* A callsign matches when some entry of the list, the blanks around it    *)
(* aside, is a prefix of it.                                               *)
PrefixesWhole ==
  On("prefix") =>
    made.matches = (\E e \in ListEntries(Own.text) : StartsWith(Own.call, e))

(* An alert is raised when its code is the first of the comment, whatever  *)
(* stands between the report's first byte and the comment.                 *)
AlertsLead == On("comment") => made.alert = Own.leads

ScanSound == LateFound /\ TermsTaken /\ PrefixesWhole /\ AlertsLead

(* The parts of other stations' reports are read for what they say. *)
ReaderTrue == StampRight /\ SymbolPairs /\ SentenceRead /\ ScanSound

(* What a report says is what was meant, and what is read is what it says. *)
ReportsSound == BeaconTrue /\ ServiceTrue /\ ReaderTrue

-----------------------------------------------------------------------------
(* aprs_filter.c: "the classifier and the decoder must reject the same     *)
(* out-of-range fields".  A latitude of 90 degrees and some minutes passes *)
(* the one and not the other, as do blanks with a digit behind them.       *)
SameFieldsRefused ==
  On("late") /\ made.offset # 0 =>
    \E m \in Own.marks : m.at = made.offset - 1 /\ Decodable(m.field)

(* aprs_filter.c: "q/con[/ana] - q construct: 1-2 single-char flags".  A   *)
(* third is not looked at, as is what follows the hops of a type.          *)
GrammarOnly == On("term") /\ made.accepted => Grammar(Own)
=============================================================================
