--------------------------- MODULE WeatherStation --------------------------
(***************************************************************************)
(* The weather report (main/weather.c): once a second every field is read  *)
(* from the driver the operator chose for it, fields marked so are         *)
(* averaged until the next report, and the report or the answer to a query *)
(* carries what is there.                                                  *)
(*                                                                         *)
(* A sensor may fall silent and come back.  The three wind fields share    *)
(* one flag of the report structure; of them only the presence is kept,    *)
(* and one value stands for every reading of a sensor other than the       *)
(* thermometer.                                                            *)
(***************************************************************************)
EXTENDS Integers, FiniteSetsExt, Sequences

CONSTANTS
  Readings,  \* values the thermometer delivers
  MaxPasses  \* bound: passes between two reports

VARIABLES
  chosen,    \* wx_sensor_enable: fields the operator reports
  averaged,  \* wx_sensor_avg: fields averaged between reports
  sensor,    \* what each field's driver delivers now, Silent for nothing
  wx,        \* s_wx: the shared report
  sum, cnt,  \* s_avg_sum, s_avg_cnt
  samples,   \* ghost: averaged samples of each field since the last report
  said       \* the letters of the last report or answer

weatherVars == <<chosen, averaged, sensor, wx, sum, cnt, samples, said>>

Wind == {"direction", "speed", "gust"}
Alone == {"temperature", "snow"}
Fields == Wind \cup Alone
Silent == -1

Groups == {"wind"} \cup Alone
Group(f) == IF f \in Wind THEN "wind" ELSE f

(* wx_field_present(): a direction is never marked unknown, since only one *)
(* that is known is copied into the report.                                *)
Has(w, f) ==
  CASE f \in {"direction", "speed"} -> w.on["wind"]
    [] f = "gust" -> w.on["wind"] /\ w.gusting
    [] OTHER -> w.on[f]

WeatherInit ==
  /\ chosen = Fields
  /\ averaged \in {{}, {"temperature"}, Alone}
  /\ sensor = [f \in Fields |-> Silent]
  /\ wx = [on |-> [g \in Groups |-> FALSE], gusting |-> FALSE, value |-> [f \in Alone |-> 0]]
  /\ sum = [f \in Alone |-> 0] /\ cnt = [f \in Alone |-> 0]
  /\ samples = [f \in Alone |-> <<>>]
  /\ said = <<>>

Delivered(f) == IF f = "temperature" THEN Readings ELSE {1}

(* A driver's own report: the field it was asked for, present or not. *)
Delivers(f) == f \in chosen /\ sensor[f] # Silent

(* weather_refresh_now() *)
(* Faulty variant: the flags of the last pass stay. *)
RefreshedKeepsFlags(w) ==
  LET fresh == {f \in Fields : Delivers(f)}
  IN  [on |-> [g \in Groups |-> w.on[g] \/ \E f \in fresh : Group(f) = g],
       gusting |-> IF "gust" \in fresh THEN TRUE ELSE w.gusting,
       value |-> [f \in Alone |-> IF f \in fresh THEN sensor[f] ELSE w.value[f]]]

Refreshed(w) ==
  LET fresh == {f \in Fields : Delivers(f)}
  IN  [on |-> [g \in Groups |-> \E f \in fresh : Group(f) = g],
       gusting |-> IF "gust" \in fresh THEN TRUE ELSE w.gusting,
       value |-> [f \in Alone |-> IF f \in fresh THEN sensor[f] ELSE w.value[f]]]

(* Fields taken into their averages on a pass. *)
Counted(w) == {f \in averaged : Has(w, f)}

Pass ==
  /\ \A f \in Alone : Len(samples[f]) < MaxPasses
  /\ LET w == Refreshed(wx)
     IN  /\ wx' = w
         /\ sum' = [f \in Alone |-> sum[f] + (IF f \in Counted(w) THEN w.value[f] ELSE 0)]
         /\ cnt' = [f \in Alone |-> cnt[f] + (IF f \in Counted(w) THEN 1 ELSE 0)]
         /\ samples' = [f \in Alone |-> IF f \in averaged /\ Delivers(f) THEN Append(samples[f], sensor[f]) ELSE samples[f]]
  /\ UNCHANGED <<chosen, averaged, sensor, said>>

-----------------------------------------------------------------------------
(* The report.                                                             *)

Resolved == {f \in chosen : Has(wx, f)}
Value(f) == IF f \in averaged /\ cnt[f] > 0 THEN sum[f] \div cnt[f] ELSE wx.value[f]

(* build_wx_tokens(): wind, gust and temperature have their place filled   *)
(* with dots when unknown; a report without a position writes the wind     *)
(* speed under the letter that snow has elsewhere.                         *)
(* Faulty variant: snow is written in either layout. *)
LettersSnowAlways(has, positionless) ==
  (IF positionless THEN <<"c", "s">> ELSE <<>>) \o <<"g", "t">>
  \o (IF "snow" \in has THEN <<"s">> ELSE <<>>)

Letters(has, positionless) ==
  (IF positionless THEN <<"c", "s">> ELSE <<>>) \o <<"g", "t">>
  \o (IF "snow" \in has /\ ~positionless THEN <<"s">> ELSE <<>>)

Tokens(layout) ==
  LET has == Resolved \ (IF layout = "positionless" THEN {"snow"} ELSE {})
  IN  [letters |-> Letters(Resolved, layout = "positionless"), value |-> [f \in has \cap Alone |-> Value(f)]]

Layouts == {"object", "position", "positionless"}

(* resolve_fields() and build_wx_packet(): the averages start again. *)
Report ==
  /\ \E l \in Layouts : said' = Tokens(l).letters
  /\ sum' = [f \in Alone |-> 0] /\ cnt' = [f \in Alone |-> 0]
  /\ samples' = [f \in Alone |-> <<>>]
  /\ UNCHANGED <<chosen, averaged, sensor, wx>>

(* peek_fields(): an answer to a query uses the averages and leaves them. *)
(* Faulty variant: the answer starts the averages again. *)
AfterPeekReset == sum' = [f \in Alone |-> 0] /\ cnt' = [f \in Alone |-> 0]

AfterPeek == UNCHANGED <<sum, cnt>>

DriverAnswers ==
  /\ \E l \in Layouts : said' = Tokens(l).letters
  /\ AfterPeek
  /\ UNCHANGED <<chosen, averaged, sensor, wx, samples>>

(* A sensor delivers something else, or nothing. *)
Change ==
  /\ \E f \in Fields : \E v \in Delivered(f) \cup {Silent} : sensor[f] # v /\ sensor' = [sensor EXCEPT ![f] = v]
  /\ UNCHANGED <<chosen, averaged, wx, sum, cnt, samples, said>>

(* The Weather page, between two reports. *)
ChooseDriver ==
  /\ \E f \in Alone : chosen' = IF f \in chosen THEN chosen \ {f} ELSE chosen \cup {f}
  /\ UNCHANGED <<averaged, sensor, wx, sum, cnt, samples, said>>

WeatherNext == Pass \/ Report \/ DriverAnswers \/ Change \/ ChooseDriver
WeatherSpec == WeatherInit /\ [][WeatherNext]_weatherVars

-----------------------------------------------------------------------------
Total(s) == FoldSet(LAMBDA i, n : n + s[i], 0, DOMAIN s)

(* An average covers every reading of its field since the last report and  *)
(* no other: an answer to a query in between takes nothing away            *)
(* (resolve_fields() and peek_fields()). Stated of the fields that have    *)
(* their own flag.                                                         *)
AverageIsOfTheInterval ==
  \A f \in Alone :
    /\ cnt[f] = Len(samples[f])
    /\ samples[f] # <<>> => Value(f) = Total(samples[f]) \div Len(samples[f])

(* No letter of the report stands for two fields (build_wx_tokens()). *)
LettersDiffer == \A i, j \in DOMAIN said : said[i] = said[j] => i = j

WeatherSound == AverageIsOfTheInterval /\ LettersDiffer

(* "Clear the enabled flags so only fields whose selected driver actually  *)
(* reports *this* cycle count" (weather.c:293): what a pass leaves for the *)
(* report was delivered in that pass.                                      *)
OnlyThisCycle == [][ Pass => \A f \in Fields : Has(wx', f) => Delivers(f) ]_weatherVars
=============================================================================
