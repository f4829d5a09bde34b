------------------------------ MODULE MCStation -----------------------------
(***************************************************************************)
(* The station for TLC: a setting between its page and its file, the files *)
(* through saves, failures and boots, the reports built from the settings  *)
(* and read back, the weather sensors behind one of them, and the numbers  *)
(* of the messages.  A behaviour is one part's; the others rest.           *)
(***************************************************************************)
EXTENDS Settings, SettingsFiles, Reports, WeatherStation, MessageQueue

VARIABLE part
allVars == <<part, valueVars, fileVars, reportVars, weatherVars, vars>>

(* The choices that do not fit the field they are stored in.               *)
MCUnsettled ==
    {<<"ntpResync", 65536>>, <<"httpRoUser", 2>>}
    \cup ({"myPHGHeight", "igatePHGHeight", "digiPHGHeight"} \X {81920})

-----------------------------------------------------------------------------
(* The settings of a report and the foreign reports, as unions of slices   *)
(* that each vary what belongs together.                                   *)
Plain == [lat |-> 450000 * 61 + 5, lon |-> -600000 * 9 - 1234, ambiguity |-> 0, mice |-> FALSE, compress |-> FALSE,
          ext |-> "off", moving |-> FALSE, speed |-> 0, course |-> 0, speedStep |-> 0, symbol |-> "primary",
          height |-> 3, fixed |-> FALSE, range |-> 10, feet |-> 1000, feetStep |-> 3400, altitude |-> FALSE,
          freq |-> FALSE, tlm |-> FALSE, dao |-> FALSE, noArchive |-> FALSE, comment |-> [k |-> "comment", n |-> 20],
          marker |-> FALSE, miceCode |-> 0, miceCustom |-> FALSE, msg |-> TRUE]

(* Thousandths of a minute either side of every rounding. *)
Axis(top) ==
  {x * 600000 + m : x \in {0, 9, top - 1}, m \in {0, 4, 5, 94, 95, 1234, 599944, 599949, 599994, 599995, 599999}}
  \cup {top * 600000}
Signed(set) == set \cup {-x : x \in set}

Positions ==
  {{[Plain EXCEPT !.lat = y, !.lon = x, !.ambiguity = a, !.mice = layout = "mice", !.compress = layout = "compress", !.dao = d] :
     y \in Signed(Axis(90)), x \in {600000 * 9 + 1234, 600000 * 109 + 599995}} :
     a \in 0..4, layout \in {"mice", "compress", "plain"}, d \in BOOLEAN}
  \cup
  {{[Plain EXCEPT !.lat = 600000 * 9 + 1234, !.lon = x, !.ambiguity = a, !.mice = layout = "mice", !.compress = layout = "compress", !.dao = d] :
     x \in Signed(Axis(180) \cup {99 * 600000 + 599999, 100 * 600000, 110 * 600000})} :
     a \in {0, 1, 4}, layout \in {"mice", "compress", "plain"}, d \in BOOLEAN}

ReportLayouts ==
  {{[Plain EXCEPT !.ext = e, !.moving = mv, !.speedStep = 95, !.course = 359, !.speed = 40, !.compress = c, !.ambiguity = a,
                  !.altitude = al, !.symbol = sy, !.dao = d, !.height = h, !.fixed = fx, !.feetStep = f] :
     al \in BOOLEAN, d \in BOOLEAN, h \in {3, 10}, fx \in BOOLEAN, f \in {0, 181, 3400, 9000}} :
     e \in {"off", "rng", "df", "dfs", "phg"}, mv \in BOOLEAN, c \in BOOLEAN, a \in {0, 2},
     sy \in {"primary", "alternate", "overlay", "df"}}

Rooms ==
  {{[Plain EXCEPT !.comment = [k |-> kind, n |-> n], !.noArchive = na, !.marker = mk, !.tlm = t, !.dao = d,
                  !.freq = fq, !.mice = mi, !.compress = c, !.ext = "phg"] :
     kind \in {"comment", "like dao"}, na \in BOOLEAN, mk \in BOOLEAN, t \in BOOLEAN, d \in BOOLEAN} :
     n \in {0, 5, 20, 45, 46, 100, 116, 124, 128}, fq \in BOOLEAN, mi \in BOOLEAN, c \in BOOLEAN}

Motions ==
  {{[Plain EXCEPT !.mice = TRUE, !.moving = mv, !.speed = v, !.course = co, !.miceCode = k, !.miceCustom = cu, !.altitude = al] :
     mv \in BOOLEAN, co \in {0, 1, 99, 100, 359, 360}, al \in BOOLEAN} :
     v \in {0, 1, 99, 669, 670, 671, 725, 726, 727, 782, 838, 839, 15117, 15118, 15200}, k \in 0..6, cu \in BOOLEAN}

MCBeacons == UNION {Positions, ReportLayouts, Rooms, Motions}

MCStatuses ==
  {[text : 0..49, grid : BOOLEAN, stamp : BOOLEAN, freq : BOOLEAN, beam : BOOLEAN, atOrigin : BOOLEAN]}

NoFreq == [khz |-> 0, rx |-> 0, duplex |-> 0, range |-> 0, km |-> FALSE]
Frequencies ==
  {[khz |-> k, rx |-> r, duplex |-> d, range |-> g, km |-> FALSE] :
     k \in {0, 145500, 999999, 1000000, 1296000, 10250000}, r \in {0, 99999, 439000, 1000000}, d \in {0, 1}, g \in {0, 25}}
OneObject == [kind |-> "plain", df |-> FALSE, phg |-> FALSE, speed |-> 0, course |-> 90, compress |-> FALSE, item |-> FALSE,
              name |-> 5, live |-> TRUE, permanent |-> FALSE, noArchive |-> FALSE, line |-> FALSE, width |-> 0,
              freq |-> NoFreq, comment |-> 10]
MCObjects ==
  {{[OneObject EXCEPT !.kind = k, !.df = d, !.phg = p, !.speed = v, !.compress = c, !.item = i, !.name = n, !.live = l] :
     d \in BOOLEAN, p \in BOOLEAN, v \in {0, 30}, c \in BOOLEAN, i \in BOOLEAN, l \in BOOLEAN} :
     k \in {"plain", "area", "signpost", "df"}, n \in {1, 2, 3, 9, 12}}
  \cup {{[OneObject EXCEPT !.freq = f, !.kind = k, !.line = TRUE, !.width = 3, !.noArchive = na, !.comment = c] :
          f \in Frequencies, na \in BOOLEAN} : k \in {"plain", "area"}, c \in {0, 43}}

OneTelemetry == [count |-> 5, present |-> 1..5, analogOn |-> TRUE, bits |-> 3, bitsOn |-> TRUE, omit |-> FALSE,
                 raw |-> 100, rawMin |-> 0, rawMax |-> 255]
MCTelemetries ==
  {{[OneTelemetry EXCEPT !.count = c, !.present = p, !.analogOn = a, !.bits = b, !.bitsOn = bo, !.omit = o] :
     p \in SUBSET (1..5), a \in BOOLEAN, bo \in BOOLEAN} : c \in 0..5, b \in {0, 3}, o \in BOOLEAN}
  \cup {{[OneTelemetry EXCEPT !.raw = r, !.rawMin = lo, !.rawMax = hi] :
          r \in {-5, 0, 10, 255, 300, 8280, 8281}, lo \in {-10, 0, 9, 9000}, hi \in {-1, 0, 255, 9999}}}

Days == {1, 14, 28, 29, 30, 31}
Instants(years, minutes) ==
  {[year |-> y, month |-> m, day |-> d, minute |-> u] : y \in years, m \in {1, 2, 3, 7, 12}, d \in Days, u \in minutes}
WithinAYear(c) == Magnitude(Calendar(c.now) - Calendar(c.sent)) <= 366 * DayMinutes
Real(t) == t.day <= MonthDays(t.year, t.month)
MCStamps ==
  {{c \in {[sent |-> s, kind |-> k, now |-> now] : s \in {t \in Instants({2023, 2024}, {0, 725}) : Real(t)},
                                                     k \in {"month", "day", "hour"}} : WithinAYear(c)} :
     now \in {t \in Instants({2024}, {0, 720, 1439}) : Real(t)}}

PairLetters == (47..58) \cup (64..91)
MCPairs == {{x} \X PairLetters : x \in PairLetters}

Coordinate(d, m) == [deg |-> d, minutes |-> m]
MCSentences ==
  {{[type |-> ty, status |-> st, quality |-> q, checksum |-> ck, lat |-> la, lon |-> lo, north |-> n, east |-> FALSE] :
     ty \in {"RMC", "GGA", "GLL", "GSV"}, st \in {"A", "V", "none"}, q \in {<<>>, <<0>>, <<1>>, <<0, 1>>, <<0, 0>>},
     ck \in {"none", "right", "wrong"}, la \in {Coordinate(90, 0), Coordinate(90, 1), Coordinate(45, 5999999), Coordinate(45, 6000000)},
     lo \in {Coordinate(180, 0), Coordinate(9, 12345)}, n \in BOOLEAN}}

-----------------------------------------------------------------------------
(* The cases of a scan, around every width it counts with.                 *)
Coord(deg, minutes, trailing) ==
  [layout |-> "plain", deg |-> deg, minutes |-> minutes, trailing |-> trailing, symbol |-> "/N"]
Packed == [Coord(0, FALSE, TRUE) EXCEPT !.layout = "compressed", !.symbol = "_"]
Bare == [Packed EXCEPT !.layout = "text"]
ScanFields == {Bare, Packed, Coord(45, TRUE, TRUE), Coord(90, FALSE, TRUE), Coord(90, TRUE, TRUE),
           Coord(91, FALSE, TRUE), Coord(45, TRUE, FALSE)}

MCLateTexts ==
  {[len |-> l, marks |-> {[at |-> a, field |-> f]}] :
     l \in {8, 19, 20, 21, 33, 34, 52, 53, 54, 58, 59, 60}, a \in {1, 6, 38, 39, 40}, f \in ScanFields}
  \cup
  {[len |-> 59, marks |-> {[at |-> 3, field |-> f], [at |-> a, field |-> g]}] :
     a \in {30, 39, 40}, f \in ScanFields, g \in ScanFields}

Args == {"", "12", "1.5", "o", "po", "word"}
MCTerms ==
  {[letter |-> l, args |-> a] : l \in {"r", "f", "m", "t", "q", "a", "p", "z"},
     a \in UNION {[1..n -> Args] : n \in 0..3} \cup UNION {[1..n -> {"12", ""}] : n \in 4..5}
           \cup {<<"po", "word", "12", "word">>}}

Characters == {"E", "A", ",", " "}
MCLists ==
  {[text |-> t, call |-> c] : t \in UNION {[1..n -> Characters] : n \in 0..4},
     c \in {<<>>, <<"E">>, <<"A", "E">>, <<"E", "A", "E">>}}

(* Where the sender's comment is, from the report's own structure.         *)
HeaderOf(dti, name) ==
  CASE dti = "plain" -> 1 [] dti = "stamped" -> 1 + 7 [] dti = "object" -> 1 + 9 + 1 + 7
    [] dti = "item" -> 1 + name + 1
CommentOf(dti, name, layout, extension) ==
  HeaderOf(dti, name) + (IF layout = "plain" THEN 19 + extension ELSE 13)
MCComments ==
  {[dti |-> d, name |-> n, layout |-> l, extension |-> IF l = "plain" THEN e ELSE 0,
    len |-> CommentOf(d, n, l, IF l = "plain" THEN e ELSE 0) + 20,
    codeAt |-> CommentOf(d, n, l, IF l = "plain" THEN e ELSE 0) + s, leads |-> s = 0] :
     d \in {"plain", "stamped", "object", "item"}, n \in {3, 6, 9}, l \in {"plain", "compressed"},
     e \in {0, 7, 9, 15}, s \in {0, 1, 7}}

-----------------------------------------------------------------------------
(* Each part parked in one of its initial states.                          *)
ValueRests  == ValueInit /\ section = "gps" /\ key = CHOOSE k \in DOMAIN GpsDefaults : TRUE
ReportRests == /\ what = [part |-> "pair", of |-> <<47, 47>>] /\ air = Nothing /\ made = Nothing
WeatherRests == WeatherInit /\ averaged = {}
FilesRest == FileInit
NumbersRest == Init

StationInit ==
  \/ part = "values" /\ ValueInit /\ FilesRest /\ ReportRests /\ WeatherRests /\ NumbersRest
  \/ part = "files" /\ ValueRests /\ FileInit /\ ReportRests /\ WeatherRests /\ NumbersRest
  \/ part = "reports" /\ ValueRests /\ FilesRest /\ ReportInit /\ WeatherRests /\ NumbersRest
  \/ part = "weather" /\ ValueRests /\ FilesRest /\ ReportRests /\ WeatherInit /\ NumbersRest
  \/ part = "numbers" /\ ValueRests /\ FilesRest /\ ReportRests /\ WeatherRests /\ Init

ValueSteps == part = "values" /\ ValueNext /\ UNCHANGED <<fileVars, reportVars, weatherVars, vars>>
FileSteps == part = "files" /\ FileNext /\ UNCHANGED <<valueVars, reportVars, weatherVars, vars>>
ReportSteps == part = "reports" /\ ReportNext /\ UNCHANGED <<valueVars, fileVars, weatherVars, vars>>
WeatherSteps == part = "weather" /\ WeatherNext /\ UNCHANGED <<valueVars, fileVars, reportVars, vars>>
NumberSteps == part = "numbers" /\ Next /\ UNCHANGED <<valueVars, fileVars, reportVars, weatherVars>>

StationNext ==
  (ValueSteps \/ FileSteps \/ ReportSteps \/ WeatherSteps \/ NumberSteps) /\ UNCHANGED part

StationSpec == StationInit /\ [][StationNext]_allVars

-----------------------------------------------------------------------------
(* What is set stays set through page, file and boot, and what the station *)
(* says of itself is what its settings and its sensors say (app_config.c,  *)
(* web_common.c, beacon.c, aprs_filter.c, weather.c).                      *)
StationSound == ValuesSound /\ ReportsSound /\ WeatherSound
=============================================================================
