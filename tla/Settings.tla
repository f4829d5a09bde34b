------------------------------ MODULE Settings ------------------------------
(***************************************************************************)
(* One setting on its way between the web page that shows it, the running  *)
(* configuration (g_config) and the section file that outlives a reboot:   *)
(* app_config.c's readers and writers and the settings pages of the web    *)
(* server.  Every setting of every section is walked, one per behaviour.   *)
(*                                                                         *)
(* What matters is that the page, its handler and the file's reader agree: *)
(* tables written far apart, in several notations, for 378 settings.       *)
(***************************************************************************)
EXTENDS Integers, Sequences, FiniteSets, TLC

-----------------------------------------------------------------------------
(***************************************************************************)
(* The vocabulary of the settings tables: what a section file's reader and *)
(* a page's POST handler do to the value they are given (a rule), and what *)
(* a page lets its user enter (a control).                                 *)
(*                                                                         *)
(* A setting is an integer.  A flag is 0 or 1; a text is its length; a     *)
(* real number is counted in ten-thousandths; a map symbol is 0 (the       *)
(* default one), 1 (another valid one) or 2 (not a symbol of the tables).  *)
(***************************************************************************)

(* A table of a section: the same entry for each of some keys.             *)
Each(keys, entry) == [key \in keys |-> entry]

(* A cast to an unsigned (width > 0) or signed (width < 0) integer type;   *)
(* width 0 is a value wide enough already.                                 *)
Narrow(width, value) ==
    LET bits == IF width < 0 THEN -width ELSE width
        half == IF bits = 0 THEN 0 ELSE 2 ^ (bits - 1)
    IN  CASE width = 0 -> value
          [] width > 0 -> value % (2 ^ bits)
          [] width < 0 -> ((value + half) % (2 ^ bits)) - half

---------------------------------------------------------------------------
(* Rules: a cast, the values kept, and what replaces the others: the       *)
(* nearest bound, or one value.                                            *)
Rule(width, only, low, high, other, grid) ==
    [width |-> width, only |-> only, low |-> low, high |-> high,
     other |-> other, grid |-> grid, store |-> 0]

Limit     == 2 ^ 30
Nearest   == -Limit
Wrapped   == -Limit + 1
Unchanged == -Limit + 2

Cast(width)              == Rule(width, {}, -Limit, Limit, Nearest, "exact")
Clamp(low, high)         == Rule(0, {}, low, high, Nearest, "exact")
CastClamp(w, low, high)  == Rule(w, {}, low, high, Nearest, "exact")
Reset(w, low, high, def) == Rule(w, {}, low, high, def, "exact")
OneOf(values, def)       == Rule(0, values, 0, 0, def, "exact")
AnyNumber                == Cast(0)
Flag                     == OneOf({0, 1}, 1)
Text(length)             == Clamp(0, length)
Symbol                   == OneOf({0, 1}, 0)
Tens(low, high, def)     == Rule(0, {}, low, high, def, "tens")
Odd(w, low, high)        == Rule(w, {}, low, high, Nearest, "odd")
Turn(degrees)            == Rule(0, {}, 0, degrees - 1, Wrapped, "exact")
(* A rule whose outcome is then stored in a field of that width.           *)
Stored(rule, width)      == [rule EXCEPT !.store = width]
(* Faulty variant: the loop over a mask's check boxes stops one short.     *)
BitsShort(boxes) == Turn(2 ^ (boxes - 1))
(* A mask rebuilt from its check boxes.                                    *)
Bits(boxes) == Turn(2 ^ boxes)

Kept(rule, n) == IF rule.only # {} THEN n \in rule.only
                 ELSE n >= rule.low /\ n <= rule.high

Replacement(rule, current, n) ==
    CASE rule.other = Nearest   -> IF n < rule.low THEN rule.low ELSE rule.high
      [] rule.other = Wrapped   -> n % (rule.high + 1)
      [] rule.other = Unchanged -> current
      [] OTHER                  -> rule.other

OnGrid(grid, n) == CASE grid = "tens" /\ n >= 0 -> n - (n % 10)
                     [] grid = "odd"            -> n + 1 - (n % 2)
                     [] OTHER                   -> n

(* What a rule makes of a value given to a setting that holds current.     *)
Ruled(rule, current, value) ==
    LET n == Narrow(rule.width, value)
    IN  Narrow(rule.store,
               OnGrid(rule.grid,
                      IF Kept(rule, n) THEN n ELSE Replacement(rule, current, n)))

---------------------------------------------------------------------------
(* Controls: a check box, a number box with its bounds, a list of choices  *)
(* (its first one is what the browser selects when none matches), a line   *)
(* of text, and a box for a real number with some decimals.                *)
Widget(kind, low, high, values, digit) ==
    [kind |-> kind, low |-> low, high |-> high, values |-> values,
     digit |-> digit]

Box             == Widget("box", 0, 1, {}, 1)
Spin(low, high) == Widget("spin", low, high, {}, 1)
PickOf(values)    == Widget("pick", 0, 0, values, 1)
Line(length)    == Widget("line", 0, length, {}, 1)
RealBox(low, high, digit) == Widget("real", low, high, {}, digit)
SymbolBox       == PickOf({0, 1})
(* A check box for each of the lowest bits of a mask.                      *)
Boxes(count)    == Widget("boxes", 0, 2 ^ count - 1, {}, 1)

(* What a control shows of a setting: the text it holds, the number to     *)
(* its last decimal, the choice that matches.                              *)
Shown(control, value) ==
    CASE control.kind = "line" ->
             IF value > 400 THEN 400 ELSE value
      [] control.kind = "real" ->
             ((value + control.digit \div 2) \div control.digit) * control.digit
      [] control.kind = "pick" /\ value \notin control.values ->
             CHOOSE first \in control.values :
                 \A other \in control.values : first <= other
      [] control.kind = "boxes" -> value % (control.high + 1)
      [] OTHER -> value

(* The entries a browser accepts in a control: it refuses to send a number *)
(* outside the bounds the page gives it, or with more decimals.            *)
Accepted(control, value) ==
    IF control.kind = "pick" THEN value \in control.values
    ELSE /\ value >= control.low /\ value <= control.high
         /\ (value - control.low) % control.digit = 0

(* The entries worth trying: the choices, the bounds of the control and of *)
(* the rules, and their neighbours.  A list of more than 40 choices is     *)
(* tried at its ends.                                                      *)
Ends(values) == {v \in values : \/ \A w \in values : v <= w
                                \/ \A w \in values : v >= w}
Sample(values) == IF Cardinality(values) > 40 THEN Ends(values) ELSE values
Edges(rule) == IF rule.only # {} THEN Ends(rule.only) ELSE {rule.low, rule.high}
Around(edges) == edges \cup {e - 1 : e \in edges} \cup {e + 1 : e \in edges}
Entries(control, rules) ==
    LET choices == IF control.kind = "pick" THEN Sample(control.values)
                   ELSE {control.low, control.high}
        edges   == {control.low, control.high} \cup UNION {Edges(r) : r \in rules}
    IN  {e \in choices \cup Around(edges) :
             e > -Limit + 2 /\ e < Limit - 2} \cup {0}

-----------------------------------------------------------------------------
(***************************************************************************)
(* The settings of the System, My Station, Wireless and GPS pages: their   *)
(* factory values, the keys their section files hold, what the files'      *)
(* readers and the pages' handlers do to a value, and the pages' controls. *)
(* A list of entries treated alike (time servers, access points) is one    *)
(* key.  The read-only account's name is 0 when there is none, 2 when it   *)
(* is the administrator's.                                                 *)
(***************************************************************************)
(* Time zones of time_sync.c's table.                                      *)
TzCount == 119

SystemDefaults ==
    "syncTime" :> 1 @@ "cpuFreq" :> 240 @@ "timeZone" :> 0
    @@ "ntpHost" :> 12 @@ "ntpResync" :> 3600
    @@ Each({"httpUser", "httpPass"}, 5) @@ Each({"httpRoUser", "httpRoPass"}, 0)

SystemWrite ==
    {"cpuFreq", "syncTime", "ntpHost", "ntpResync", "timeZone",
     "httpUser", "httpPass", "httpRoUser", "httpRoPass"}

SystemRead ==
    "cpuFreq" :> Cast(8) @@ "syncTime" :> Flag @@ "ntpHost" :> Text(19)
    @@ "ntpResync" :> CastClamp(16, 30, 65535)
    @@ "timeZone" :> Reset(8, 0, TzCount - 1, 0)
    @@ "httpUser" :> Text(31) @@ "httpRoUser" :> Text(31)
    @@ Each({"httpPass", "httpRoPass"}, Text(63))

SystemForm ==
    "cpuFreq" :> PickOf({80, 160, 240}) @@ "syncTime" :> Box
    @@ "ntpHost" :> Line(19) @@ "ntpResync" :> Spin(30, Limit)
    @@ "timeZone" :> PickOf(0 .. TzCount - 1)
    @@ "httpUser" :> Line(31) @@ "httpRoUser" :> Line(31)
    @@ Each({"httpPass", "httpRoPass"}, Line(63))

SystemPost ==
    "httpUser" :> Text(31) @@ Each({"httpPass", "httpRoPass"}, Text(63))
    @@ "httpRoUser" :> Rule(0, (0 .. 31) \ {2}, 0, 31, 0, "exact")
    @@ "syncTime" :> Flag @@ "ntpHost" :> Text(19)
    @@ "ntpResync" :> CastClamp(16, 30, 65535)
    @@ "timeZone" :> Reset(0, 0, TzCount - 1, 0)
    @@ "cpuFreq" :> OneOf({80, 160, 240}, Unchanged)

---------------------------------------------------------------------------
StationDefaults ==
    "myCallsign" :> 6 @@ Each({"myLAT", "myLON", "myALT"}, 0)
    @@ "myPHGPower" :> 1 @@ "myPHGGain" :> 6 @@ "myPHGHeight" :> 10
    @@ "myPHGDir" :> 0 @@ "myAmbiguity" :> 0
    @@ "myStatusBeam" :> -1 @@ "myStatusERP" :> 0
    @@ Each({"myUseGps", "myStatusGrid", "myStatusTS", "myNoArchive",
             "myPosDao"}, 0)

StationWrite ==
    {"myCallsign", "myUseGps", "myLAT", "myLON", "myALT", "myPHGPower",
     "myPHGGain", "myPHGHeight", "myPHGDir", "myAmbiguity", "myStatusGrid",
     "myStatusTS", "myStatusBeam", "myStatusERP", "myNoArchive", "myPosDao"}

StationRead ==
    "myCallsign" :> Text(9) @@ Each({"myLAT", "myLON", "myALT"}, AnyNumber)
    @@ Each({"myPHGPower", "myPHGHeight"}, Cast(16))
    @@ "myPHGGain" :> AnyNumber @@ "myPHGDir" :> Cast(8)
    @@ "myAmbiguity" :> CastClamp(8, 0, 4)
    @@ "myStatusBeam" :> Tens(0, 350, -1) @@ "myStatusERP" :> Clamp(0, 7290)
    @@ Each({"myUseGps", "myStatusGrid", "myStatusTS", "myNoArchive",
             "myPosDao"}, Flag)

(* The choices of the PHG code table: watts, dBi, feet, octants.           *)
PhgWatts   == {0, 1, 5, 10, 15, 25, 35, 50, 65, 80}
PhgHeights == {10 * 2 ^ code : code \in 0 .. 13}

StationForm ==
    "myCallsign" :> Line(9)
    @@ "myLAT" :> RealBox(-900000, 900000, 1)
    @@ "myLON" :> RealBox(-1800000, 1800000, 1)
    @@ "myALT" :> RealBox(-5000000, 100000000, 1000)
    @@ "myAmbiguity" :> PickOf(0 .. 4)
    @@ "myStatusBeam" :> PickOf({-1} \cup {10 * step : step \in 0 .. 35})
    @@ "myStatusERP" :> PickOf({0} \cup {10 * code * code : code \in 1 .. 27})
    @@ "myPHGPower" :> PickOf(PhgWatts) @@ "myPHGGain" :> PickOf(0 .. 9)
    @@ "myPHGHeight" :> PickOf(PhgHeights) @@ "myPHGDir" :> PickOf(0 .. 8)
    @@ Each({"myUseGps", "myStatusGrid", "myStatusTS", "myNoArchive",
             "myPosDao"}, Box)

(* With a fix and "Use GPS" the position is the receiver's: any number too. *)
StationPost ==
    "myCallsign" :> Text(6) @@ Each({"myLAT", "myLON", "myALT"}, AnyNumber)
    @@ "myAmbiguity" :> Clamp(0, 4) @@ "myStatusBeam" :> Tens(0, 350, -1)
    @@ "myStatusERP" :> Clamp(0, 7290)
    @@ Each({"myPHGPower", "myPHGHeight"}, Cast(16))
    @@ "myPHGGain" :> AnyNumber @@ "myPHGDir" :> Cast(8)
    @@ Each({"myUseGps", "myStatusGrid", "myStatusTS", "myNoArchive",
             "myPosDao"}, Flag)

---------------------------------------------------------------------------
WirelessDefaults ==
    "WiFiMode" :> 2 @@ "WiFiPwr" :> 20 @@ "WiFiAPCH" :> 1
    @@ Each({"WiFiAP_SSID", "WiFiAP_PASS"}, 12)
    @@ "staEnable" :> 0 @@ "staSsid" :> 7 @@ "staPass" :> 0

WirelessWrite ==
    {"WiFiMode", "WiFiPwr", "WiFiAPCH", "WiFiAP_SSID", "WiFiAP_PASS",
     "staEnable", "staSsid", "staPass"}

WirelessRead ==
    "WiFiMode" :> Cast(8) @@ "WiFiPwr" :> Clamp(2, 20)
    @@ "WiFiAPCH" :> Reset(8, 1, 13, 1) @@ "staEnable" :> Flag
    @@ Each({"WiFiAP_SSID", "staSsid"}, Text(32))
    @@ Each({"WiFiAP_PASS", "staPass"}, Text(63))

WirelessForm ==
    "WiFiMode" :> PickOf(0 .. 3) @@ "WiFiPwr" :> Spin(2, 20)
    @@ "WiFiAPCH" :> Spin(1, 13) @@ "staEnable" :> Box
    @@ Each({"WiFiAP_SSID", "staSsid"}, Line(32))
    @@ Each({"WiFiAP_PASS", "staPass"}, Line(63))

WirelessPost ==
    "WiFiMode" :> Cast(8) @@ "WiFiPwr" :> Clamp(2, 20)
    @@ "WiFiAPCH" :> Reset(0, 1, 13, 1) @@ "staEnable" :> Flag
    @@ Each({"WiFiAP_SSID", "staSsid"}, Text(32))
    @@ Each({"WiFiAP_PASS", "staPass"}, Text(63))

---------------------------------------------------------------------------
GpsDefaults == "gpsEn" :> 0
GpsWrite    == {"gpsEn"}
GpsRead     == "gpsEn" :> Flag
GpsForm     == "gpsEn" :> Box
GpsPost     == "gpsEn" :> Flag

-----------------------------------------------------------------------------
(***************************************************************************)
(* The settings of the Radio Modem page: the transmitter's timing and      *)
(* channel access, and the receiver's tuning, which the modem's own        *)
(* modem_rx_tuning_sanitize corrects after both the file and the page have *)
(* been cut to the width of the field.                                     *)
(***************************************************************************)
RadioDefaults ==
    Each({"audioModemEn", "audioLPF", "afskModem", "rfTxBuffers", "rxBlank"}, 1)
    @@ Each({"fx25Mode", "pttMinUnkeyMs", "dutyCycleEn", "adcSelfBias",
             "rxClipWarn", "txMaxKeyedMs", "rxTilt1", "rxGateMv", "rxAgcMode",
             "rxAgcGainDb", "rxFixBits"}, 0)
    @@ "rfPreamble" :> 300 @@ "rfTxTail" :> 20 @@ "txTimeSlot" :> 2000
    @@ "csmaPersist" :> 63 @@ "csmaSlotTime" :> 100 @@ "csmaBusyMax" :> 30
    @@ "dutyCyclePct" :> 25 @@ "dacAmplPct" :> 60 @@ "dacRate" :> 38400
    @@ "rxEqPreset" :> 5 @@ "rxEqCount" :> 3 @@ "rxTilt0" :> 4
    @@ "rxTilt2" :> -5 @@ "rxBpfLoHz" :> 900 @@ "rxBpfHiHz" :> 2600
    @@ "rxBpfTaps" :> 31 @@ "rxHpfHz" :> 300

RadioWrite ==
    {"audioModemEn", "audioLPF", "afskModem", "fx25Mode", "rfPreamble",
     "rfTxTail", "rfTxBuffers", "txTimeSlot", "csmaPersist", "csmaSlotTime",
     "csmaBusyMax", "pttMinUnkeyMs", "dutyCycleEn", "dutyCyclePct",
     "adcSelfBias", "rxClipWarn", "dacAmplPct", "dacRate", "txMaxKeyedMs",
     "rxEqPreset", "rxEqCount", "rxTilt0", "rxTilt1", "rxTilt2",
     "rxBpfLoHz", "rxBpfHiHz", "rxBpfTaps", "rxGateMv", "rxHpfHz",
     "rxAgcMode", "rxAgcGainDb", "rxFixBits", "rxBlank"}

(* modem_rx_tuning_sanitize, of a field that fits its type.                *)
RxSanitize ==
    "rxEqPreset" :> Reset(0, 0, 6, 5) @@ "rxEqCount" :> Clamp(1, 3)
    @@ Each({"rxTilt0", "rxTilt1", "rxTilt2"}, Clamp(-9, 9))
    @@ "rxBpfLoHz" :> Clamp(600, 1100) @@ "rxBpfHiHz" :> Clamp(2300, 3000)
    @@ "rxBpfTaps" :> Odd(0, 9, 31) @@ "rxGateMv" :> Clamp(0, 50)
    @@ "rxHpfHz" :> Clamp(0, 800) @@ "rxAgcMode" :> Reset(0, 0, 1, 0)
    @@ "rxAgcGainDb" :> Clamp(-12, 18) @@ "rxFixBits" :> Clamp(0, 2)
    @@ "rxBlank" :> Flag

RadioRead ==
    Each({"audioModemEn", "audioLPF", "dutyCycleEn", "adcSelfBias",
          "rxClipWarn"}, Flag)
    @@ Each({"afskModem", "fx25Mode"}, Cast(8))
    @@ "rfPreamble" :> CastClamp(16, 50, 2000) @@ "rfTxTail" :> Clamp(0, 500)
    @@ "rfTxBuffers" :> CastClamp(8, 1, 11)
    @@ "txTimeSlot" :> CastClamp(16, 0, 10000)
    @@ "csmaPersist" :> CastClamp(8, 1, 255)
    @@ "csmaSlotTime" :> Clamp(10, 2550) @@ "csmaBusyMax" :> Clamp(0, 600)
    @@ "pttMinUnkeyMs" :> CastClamp(16, 0, 5000)
    @@ "dutyCyclePct" :> CastClamp(8, 1, 100)
    @@ "dacAmplPct" :> CastClamp(8, 20, 100)
    @@ "dacRate" :> OneOf({38400, 76800}, 38400)
    @@ "txMaxKeyedMs" :> Clamp(0, 60000)
    @@ RxSanitize

RadioForm ==
    "fx25Mode" :> PickOf(0 .. 2) @@ "afskModem" :> PickOf(0 .. 3)
    @@ Each({"audioModemEn", "audioLPF", "dutyCycleEn", "adcSelfBias",
             "rxClipWarn", "rxBlank"}, Box)
    @@ "rfPreamble" :> Spin(50, 2000) @@ "rfTxTail" :> Spin(0, 500)
    @@ "txTimeSlot" :> Spin(0, 10000) @@ "rfTxBuffers" :> PickOf(1 .. 11)
    @@ "dutyCyclePct" :> Spin(1, 100) @@ "pttMinUnkeyMs" :> Spin(0, 5000)
    @@ "csmaPersist" :> Spin(1, 255) @@ "csmaSlotTime" :> Spin(10, 2550)
    @@ "csmaBusyMax" :> Spin(0, 600) @@ "dacAmplPct" :> Spin(20, 100)
    @@ "dacRate" :> PickOf({38400, 76800}) @@ "txMaxKeyedMs" :> Spin(0, 60000)

RxForm ==
    "rxEqPreset" :> PickOf(0 .. 6) @@ "rxEqCount" :> Spin(1, 3)
    @@ Each({"rxTilt0", "rxTilt1", "rxTilt2"}, Spin(-9, 9))
    @@ "rxBpfLoHz" :> Spin(600, 1100) @@ "rxBpfHiHz" :> Spin(2300, 3000)
    @@ "rxBpfTaps" :> Spin(9, 31) @@ "rxGateMv" :> Spin(0, 50)
    @@ "rxHpfHz" :> PickOf({0, 150, 300, 400, 600, 800})
    @@ "rxAgcMode" :> PickOf({0, 1}) @@ "rxAgcGainDb" :> Spin(-12, 18)
    @@ "rxFixBits" :> PickOf(0 .. 2)

(* The page casts the number of pre-filters before it is sanitized.        *)
RxPost == "rxEqCount" :> CastClamp(8, 1, 3) @@ RxSanitize

TransmitPost ==
    Each({"audioModemEn", "audioLPF", "dutyCycleEn", "adcSelfBias",
          "rxClipWarn"}, Flag)
    @@ "fx25Mode" :> Clamp(0, 2) @@ "afskModem" :> Clamp(0, 3)
    @@ "rfPreamble" :> Clamp(50, 2000) @@ "rfTxTail" :> Clamp(0, 500)
    @@ "txTimeSlot" :> Clamp(0, 10000) @@ "rfTxBuffers" :> Clamp(1, 11)
    @@ "dutyCyclePct" :> Clamp(1, 100) @@ "pttMinUnkeyMs" :> Clamp(0, 5000)
    @@ "csmaPersist" :> Clamp(1, 255) @@ "csmaSlotTime" :> Clamp(10, 2550)
    @@ "csmaBusyMax" :> Clamp(0, 600) @@ "dacAmplPct" :> Clamp(20, 100)
    @@ "dacRate" :> OneOf({38400, 76800}, 38400)
    @@ "txMaxKeyedMs" :> Clamp(0, 60000)

RadioPost == TransmitPost @@ RxPost
RadioControls == RadioForm @@ RxForm

-----------------------------------------------------------------------------
(***************************************************************************)
(* The settings of the Tracker and Weather pages.  A weather field's       *)
(* channel is counted from 1, with 0 for "none": the file keeps the name   *)
(* of the sensor's driver, so a number without a driver comes back as      *)
(* "none".                                                                 *)
(***************************************************************************)
(* Drivers of the sensor registry in this instance.                        *)
Sensors == 0 .. 2

TrackerFlags ==
    {"trkEn", "trkPos2rf", "trkPos2inet", "trkTime", "trkUseStation",
     "trkUseGps", "trkUseLiveGps", "trkCompress", "trkPHG", "trkMice",
     "trkOptAlt", "trkSbEn"}

TrackerDefaults ==
    Each(TrackerFlags \cup {"trkLAT", "trkLON", "trkALT", "trkMiceMsg",
                            "trkSTSIntv", "trkStatus", "trkFreqMHz",
                            "trkFreqTone", "trkFreqDup", "trkFreqOff"}, 0)
    @@ "trkSSID" :> 9 @@ "trkMycall" :> 6 @@ "trkPath" :> 1
    @@ "trkINV" :> 60 @@ "trkSymbol" :> 1 @@ "trkComment" :> 21
    @@ "trkSbSlowIntv" :> 600 @@ "trkSbFastIntv" :> 60
    @@ "trkSbLowSpd" :> 4 @@ "trkSbHighSpd" :> 100
    @@ "trkSbTurnAngle" :> 25 @@ "trkSbTurnSlope" :> 255
    @@ "trkSbMinTurnTime" :> 15

TrackerWrite ==
    TrackerFlags \cup
    {"trkSSID", "trkMycall", "trkPath", "trkLAT", "trkLON", "trkALT",
     "trkINV", "trkMiceMsg", "trkSymbol", "trkComment", "trkSTSIntv",
     "trkStatus", "trkFreqMHz", "trkFreqTone", "trkFreqDup", "trkFreqOff",
     "trkSbSlowIntv", "trkSbFastIntv", "trkSbLowSpd", "trkSbHighSpd",
     "trkSbTurnAngle", "trkSbTurnSlope", "trkSbMinTurnTime"}

(* Faulty variant: the slope is taken for an angle.                        *)
SmartRulesAngle ==
    "trkSbSlowIntv" :> Clamp(30, 65535) @@ "trkSbFastIntv" :> Clamp(5, 65535)
    @@ Each({"trkSbLowSpd", "trkSbHighSpd"}, Clamp(0, 999))
    @@ "trkSbTurnAngle" :> Clamp(1, 180) @@ "trkSbTurnSlope" :> Clamp(0, 360)
    @@ "trkSbMinTurnTime" :> Clamp(0, 3600)

(* A high speed below the low one becomes the low one: SettingsFiles.      *)
SmartRules ==
    "trkSbSlowIntv" :> Clamp(30, 65535) @@ "trkSbFastIntv" :> Clamp(5, 65535)
    @@ Each({"trkSbLowSpd", "trkSbHighSpd"}, Clamp(0, 999))
    @@ "trkSbTurnAngle" :> Clamp(1, 180)
    @@ Each({"trkSbTurnSlope", "trkSbMinTurnTime"}, Clamp(0, 3600))

TrackerRead ==
    Each(TrackerFlags, Flag)
    @@ Each({"trkSSID", "trkPath"}, Cast(8)) @@ "trkMycall" :> Text(9)
    @@ Each({"trkLAT", "trkLON", "trkALT", "trkFreqMHz"}, AnyNumber)
    @@ Each({"trkINV", "trkSTSIntv", "trkFreqTone", "trkFreqOff"}, Cast(16))
    @@ "trkMiceMsg" :> Reset(8, 0, 13, 0) @@ "trkSymbol" :> Symbol
    @@ "trkComment" :> Text(128) @@ "trkStatus" :> Text(49)
    @@ "trkFreqDup" :> Clamp(-1, 1) @@ SmartRules

TrackerForm ==
    Each(TrackerFlags, Box) @@ Each({"trkINV", "trkSTSIntv"}, Spin(0, 65535))
    @@ "trkMycall" :> Line(9) @@ "trkSSID" :> Spin(0, 15)
    @@ "trkPath" :> Boxes(4)
    @@ "trkLAT" :> RealBox(-900000, 900000, 1)
    @@ "trkLON" :> RealBox(-1800000, 1800000, 1)
    @@ "trkALT" :> RealBox(-5000000, 100000000, 1000)
    @@ "trkSbSlowIntv" :> Spin(30, 65535) @@ "trkSbFastIntv" :> Spin(5, 65535)
    @@ Each({"trkSbLowSpd", "trkSbHighSpd"}, Spin(0, 999))
    @@ "trkSbTurnAngle" :> Spin(1, 180)
    @@ Each({"trkSbTurnSlope", "trkSbMinTurnTime"}, Spin(0, 3600))
    @@ "trkMiceMsg" :> PickOf(0 .. 13) @@ "trkSymbol" :> SymbolBox
    @@ "trkComment" :> Line(128) @@ "trkStatus" :> Line(49)
    @@ "trkFreqMHz" :> RealBox(0, 9999990, 10)
    @@ "trkFreqDup" :> PickOf({-1, 0, 1}) @@ "trkFreqOff" :> Spin(0, 65535)
    @@ "trkFreqTone" :> RealBox(0, 2541, 1)

TrackerPost ==
    Each(TrackerFlags, Flag) @@ "trkMycall" :> Text(6)
    @@ Each({"trkLAT", "trkLON", "trkALT"}, AnyNumber)
    @@ "trkSSID" :> Clamp(0, 15) @@ "trkPath" :> Bits(4)
    @@ Each({"trkINV", "trkSTSIntv"}, Cast(16)) @@ SmartRules
    @@ "trkMiceMsg" :> Reset(0, 0, 13, 0) @@ "trkSymbol" :> Symbol
    @@ "trkComment" :> Text(128) @@ "trkStatus" :> Text(49)
    @@ "trkFreqMHz" :> Clamp(0, Limit) @@ "trkFreqDup" :> OneOf({-1, 1}, 0)
    @@ Each({"trkFreqOff", "trkFreqTone"}, Clamp(0, 65535))

---------------------------------------------------------------------------
WeatherFlags ==
    {"wxEn", "wxTx2rf", "wxTx2inet", "wxTime", "wxUseStation", "wxUseGps",
     "wxSenEn", "wxSenAvg"}

WeatherDefaults ==
    Each((WeatherFlags \ {"wxSenEn"})
         \cup {"wxLAT", "wxLON", "wxObject", "wxSenCH"}, 0)
    @@ Each({"wxPath", "wxSenEn"}, 1) @@ "wxSSID" :> 13 @@ "wxMycall" :> 6
    @@ "wxInv" :> 300 @@ "wxComment" :> 19

WeatherWrite ==
    WeatherFlags \cup {"wxSSID", "wxMycall", "wxPath", "wxLAT", "wxLON",
                       "wxInv", "wxObject", "wxComment", "wxSenCH"}

WeatherRead ==
    Each(WeatherFlags, Flag) @@ Each({"wxSSID", "wxPath"}, Cast(8))
    @@ Each({"wxMycall", "wxObject"}, Text(9)) @@ "wxComment" :> Text(128)
    @@ Each({"wxLAT", "wxLON"}, AnyNumber) @@ "wxInv" :> Cast(16)
    @@ "wxSenCH" :> OneOf(Sensors, 0)

WeatherForm ==
    Each(WeatherFlags, Box) @@ Each({"wxMycall", "wxObject"}, Line(9))
    @@ "wxSSID" :> Spin(0, 15) @@ "wxPath" :> Boxes(4)
    @@ "wxLAT" :> RealBox(-900000, 900000, 1)
    @@ "wxLON" :> RealBox(-1800000, 1800000, 1)
    @@ "wxInv" :> Spin(0, 65535) @@ "wxComment" :> Line(128)
    @@ "wxSenCH" :> PickOf(Sensors)

WeatherPost ==
    Each(WeatherFlags, Flag) @@ "wxMycall" :> Text(6) @@ "wxObject" :> Text(9)
    @@ "wxSSID" :> Clamp(0, 15) @@ "wxPath" :> Bits(4)
    @@ Each({"wxLAT", "wxLON"}, AnyNumber) @@ "wxInv" :> Cast(16)
    @@ "wxComment" :> Text(128) @@ "wxSenCH" :> Cast(8)

-----------------------------------------------------------------------------
(***************************************************************************)
(* The settings of the Message, Winlink and Query pages.  The pin of the   *)
(* message alarm is -1 (none), 0 (a free pin) or 1 (a pin that is not to   *)
(* be driven); the lists of groups are one key.                            *)
(***************************************************************************)
MessageFlags == {"msgEnable", "msgUseStation", "msgRf", "msgInet", "msgAlarmEn"}

MessageDefaults ==
    Each({"msgEnable", "msgRf", "msgInet"}, 1)
    @@ Each({"msgUseStation", "msgAlarmEn", "msgGroup"}, 0)
    @@ "msgMycall" :> 6 @@ "msgPath" :> 9 @@ "msgRetry" :> 3
    @@ "msgInterval" :> 30 @@ "msgAlarmGpio" :> -1

MessageWrite ==
    MessageFlags \cup {"msgMycall", "msgPath", "msgRetry", "msgInterval",
                       "msgAlarmGpio", "msgGroup"}

MessageRead ==
    Each(MessageFlags, Flag) @@ Each({"msgMycall", "msgGroup"}, Text(9))
    @@ Each({"msgPath", "msgRetry"}, Cast(8)) @@ "msgInterval" :> Cast(16)
    @@ "msgAlarmGpio" :> Cast(-8)

MessageForm ==
    Each(MessageFlags, Box) @@ Each({"msgMycall", "msgGroup"}, Line(9))
    @@ "msgPath" :> Boxes(4) @@ "msgRetry" :> Spin(0, 255)
    @@ "msgInterval" :> Spin(0, 65535) @@ "msgAlarmGpio" :> PickOf({-1, 0})

MessagePost ==
    Each(MessageFlags, Flag) @@ "msgMycall" :> Text(6) @@ "msgGroup" :> Text(9)
    @@ "msgPath" :> Bits(4) @@ "msgRetry" :> Cast(8)
    @@ "msgInterval" :> Cast(16)
    @@ "msgAlarmGpio" :> Rule(-8, {-1, 0}, 0, 0, -1, "exact")

---------------------------------------------------------------------------
WinlinkFlags ==
    {"wlEnable", "wlUseMsgCall", "wlAutoLogin", "wlCommentEn", "wlInetOnly",
     "wlGateExempt"}

WinlinkDefaults ==
    Each({"wlUseMsgCall", "wlAutoLogin", "wlInetOnly", "wlGateExempt"}, 1)
    @@ Each({"wlEnable", "wlCommentEn", "wlPassword", "wlMyCall",
             "wlPollMin"}, 0)
    @@ "wlServiceCall" :> 6 @@ "wlSessionMaxMin" :> 110

WinlinkWrite ==
    WinlinkFlags \cup {"wlServiceCall", "wlPassword", "wlMyCall",
                       "wlSessionMaxMin", "wlPollMin"}

(* An empty service call is the default one, of six characters.            *)
ServiceCall(longest) == Rule(0, 1 .. longest, 0, 0, 6, "exact")

WinlinkRead ==
    Each(WinlinkFlags, Flag) @@ "wlPassword" :> Text(16)
    @@ "wlServiceCall" :> ServiceCall(9) @@ "wlMyCall" :> Text(9)
    @@ "wlSessionMaxMin" :> Clamp(5, 180) @@ "wlPollMin" :> Clamp(0, 1440)

WinlinkForm ==
    Each(WinlinkFlags, Box) @@ "wlPassword" :> Line(16)
    @@ Each({"wlServiceCall", "wlMyCall"}, Line(9))
    @@ "wlSessionMaxMin" :> Spin(5, 180) @@ "wlPollMin" :> Spin(0, 1440)

WinlinkPost ==
    Each(WinlinkFlags, Flag) @@ "wlPassword" :> Text(16)
    @@ "wlServiceCall" :> ServiceCall(6) @@ "wlMyCall" :> Text(6)
    @@ "wlSessionMaxMin" :> Clamp(5, 180) @@ "wlPollMin" :> Clamp(0, 1440)

---------------------------------------------------------------------------
QueryFlags ==
    {"queryEn", "queryRf", "queryInet", "queryAprsEn", "queryWxEn",
     "queryIgateEn", "queryDirectedEn", "queryExtEn", "queryCapEn",
     "queryCapRf", "queryCapInet"}

QueryDefaults ==
    Each(QueryFlags \ {"queryEn", "queryInet", "queryCapEn", "queryCapInet"}, 1)
    @@ Each({"queryEn", "queryInet", "queryCapEn", "queryCapInet",
             "queryCapExtra"}, 0)
    @@ "queryMinInterval" :> 30 @@ "queryCapIntv" :> 1800

QueryWrite == QueryFlags \cup {"queryMinInterval", "queryCapIntv", "queryCapExtra"}

QueryRead ==
    Each(QueryFlags, Flag) @@ "queryMinInterval" :> CastClamp(16, 5, 65535)
    @@ "queryCapIntv" :> Clamp(300, 86400) @@ "queryCapExtra" :> Text(63)

QueryForm ==
    Each(QueryFlags, Box) @@ "queryMinInterval" :> Spin(5, 65535)
    @@ "queryCapIntv" :> Spin(300, 86400) @@ "queryCapExtra" :> Line(63)

QueryPost ==
    Each(QueryFlags, Flag) @@ "queryMinInterval" :> CastClamp(16, 5, 65535)
    @@ "queryCapIntv" :> Clamp(300, 86400) @@ "queryCapExtra" :> Text(63)
---------------------------------------------------------------------------
(* The Telegram store.  A row of the accounts' table without an id is      *)
(* skipped, so a row's id stands for the table; a window outside its       *)
(* bounds is the default when it is read and the bound when it is entered. *)
TelegramFlags == {"tgEn", "tgRouteMsg", "tgRouteBul"}
TelegramDefaults ==
    Each(TelegramFlags \cup {"tgToken", "tgUrl", "tgAdmin", "tgUId", "tgUName",
                             "tgUCallsign", "tgCId", "tgCName"}, 0)
    @@ "tgBulWin" :> 900

TelegramWrite == DOMAIN TelegramDefaults

TelegramRead ==
    Each(TelegramFlags, Flag) @@ Each({"tgToken", "tgUrl"}, Text(128))
    @@ Each({"tgUName", "tgCName"}, Text(40)) @@ "tgUCallsign" :> Text(9)
    @@ Each({"tgAdmin", "tgUId", "tgCId"}, AnyNumber)
    @@ "tgBulWin" :> Reset(0, 0, 86400, 900)

TelegramForm ==
    Each(TelegramFlags, Box) @@ Each({"tgToken", "tgUrl"}, Line(128))
    @@ Each({"tgUName", "tgCName"}, Line(40)) @@ "tgUCallsign" :> Line(9)
    @@ Each({"tgAdmin", "tgUId", "tgCId"}, Spin(-10 ^ 9, 10 ^ 9))
    @@ "tgBulWin" :> Spin(0, 86400)

TelegramPost ==
    Each(TelegramFlags, Flag) @@ Each({"tgToken", "tgUrl"}, Text(128))
    @@ Each({"tgUName", "tgCName"}, Text(40)) @@ "tgUCallsign" :> Text(9)
    @@ Each({"tgAdmin", "tgUId", "tgCId"}, AnyNumber) @@ "tgBulWin" :> Clamp(0, 86400)

-----------------------------------------------------------------------------
(***************************************************************************)
(* The settings of the IGate, BrandMeister and Digipeater pages.  A        *)
(* position or an antenna taken from the station's page or from the GPS    *)
(* receiver is any number, as an entered one is; the order in which the    *)
(* pages prefer those sources is in SettingsFiles.  A duplex is -1, 0 or 1.*)
(***************************************************************************)
SlotWatts   == {0, 1, 5, 10, 15, 25, 35, 50, 65, 80}
SlotHeights == {10 * 2 ^ code : code \in 0 .. 13}
(* Three of the packet types a filter passes: two the page has a box for,  *)
(* and the queries, which it has none for.                                 *)
TypesOffered == 2
AllTypes     == 3

IgateDefaults ==
    Each({"igateEn", "rf2inet", "igatePos2inet", "igateBcn", "dupCacheEn",
          "inet2rfPositionRequired", "inet2rfHeardOnly", "igateMsgGateEn"}, 1)
    @@ Each({"inet2rf", "igatePos2rf", "igateLogAfterFilters",
             "igateCompress", "igatePHGEn", "igatePHGUseStation",
             "rf2inetRangeEn", "rf2inetPrefixEn", "inet2rfRangeEn",
             "inet2rf3rdPartyUnwrapEn", "igateUseStation", "igateUseGps",
             "igateTimestamp", "srvEn"}, 0)
    @@ Each({"igateLAT", "igateLON", "igateALT", "igateSTSIntv",
             "igateStatus", "igateFilter", "igateSymbol",
             "rf2inetBudlistMode", "inet2rfBudlistMode", "budlist", "satgate",
             "rf2inetRangeKm", "inet2rfRangeKm", "rf2inetPrefixes",
             "igatePHGDir", "igateExtType", "igateRng", "igateDfsS",
             "igateDfBrg", "igateDfN", "igateDfR", "igateDfQ",
             "igateFreqMHz", "igateFreqTone", "igateFreqDup",
             "igateFreqOff"}, 0)
    @@ "igateSSID" :> 10 @@ "igateMycall" :> 6 @@ "igatePasscode" :> 2
    @@ "srvHost" :> 14 @@ "srvPort" :> 14580 @@ "igateINV" :> 30
    @@ "igatePath" :> 1 @@ "igateComment" :> 19
    @@ "igatePHGPower" :> 1 @@ "igatePHGGain" :> 6 @@ "igatePHGHeight" :> 10
    @@ "rf2inetFilter" :> AllTypes @@ "inet2rfFilter" :> 1
    @@ "dupCacheSize" :> 20 @@ "dupCacheTimeoutMs" :> 30000
    @@ "inet2rfMinIntervalSec" :> 30 @@ "igateLocalWindowSec" :> 3600
    @@ "igateMsgMaxHops" :> 2

IgateWrite ==
    {"igateEn", "igateBcn", "rf2inet", "inet2rf", "igatePos2rf",
     "igatePos2inet", "rf2inetFilter", "inet2rfFilter", "rf2inetBudlistMode",
     "inet2rfBudlistMode", "budlist", "satgate", "dupCacheEn",
     "dupCacheSize", "dupCacheTimeoutMs", "rf2inetRangeEn", "rf2inetRangeKm",
     "rf2inetPrefixEn", "rf2inetPrefixes", "inet2rfRangeEn",
     "inet2rfRangeKm", "inet2rfPositionRequired", "inet2rfHeardOnly",
     "inet2rfMinIntervalSec", "inet2rf3rdPartyUnwrapEn", "igateMsgGateEn",
     "igateLocalWindowSec", "igateMsgMaxHops", "igateSSID", "srvEn",
     "srvHost", "srvPort", "igateMycall", "igateUseStation", "igateUseGps",
     "igatePasscode", "igateFilter", "igateLogAfterFilters", "igateLAT",
     "igateLON", "igateALT", "igateINV", "igateSymbol", "igatePath",
     "igateComment", "igateSTSIntv", "igateStatus", "igateTimestamp",
     "igateCompress", "igatePHGEn", "igatePHGUseStation", "igatePHGPower",
     "igatePHGGain", "igatePHGHeight", "igatePHGDir", "igateExtType",
     "igateRng", "igateDfsS", "igateDfBrg", "igateDfN", "igateDfR",
     "igateDfQ", "igateFreqMHz", "igateFreqTone", "igateFreqDup",
     "igateFreqOff"}

IgateGateRead ==
    Each({"igateEn", "igateBcn", "rf2inet", "inet2rf", "igatePos2rf",
          "igatePos2inet", "dupCacheEn", "rf2inetRangeEn", "rf2inetPrefixEn",
          "inet2rfRangeEn", "inet2rfPositionRequired", "inet2rfHeardOnly",
          "inet2rf3rdPartyUnwrapEn", "igateMsgGateEn"}, Flag)
    @@ Each({"rf2inetFilter", "inet2rfFilter"}, Cast(16))
    @@ Each({"rf2inetBudlistMode", "inet2rfBudlistMode"}, AnyNumber)
    @@ Each({"budlist", "satgate"}, Text(9))
    @@ "dupCacheSize" :> Clamp(4, 40) @@ "dupCacheTimeoutMs" :> Clamp(1000, 120000)
    @@ Each({"rf2inetRangeKm", "inet2rfRangeKm"}, Clamp(0, 200380000))
    @@ "rf2inetPrefixes" :> Text(39)
    @@ "inet2rfMinIntervalSec" :> Clamp(0, 3600)
    @@ "igateLocalWindowSec" :> CastClamp(16, 60, 3600)
    @@ "igateMsgMaxHops" :> Clamp(0, 8)

IgateBeaconRead ==
    Each({"srvEn", "igateUseStation", "igateUseGps", "igateLogAfterFilters",
          "igateTimestamp", "igateCompress", "igatePHGEn",
          "igatePHGUseStation"}, Flag)
    @@ "igateSSID" :> Cast(8) @@ "igatePath" :> Cast(8)
    @@ "srvHost" :> Text(19) @@ "srvPort" :> Reset(16, 1, 65535, 14580)
    @@ "igateMycall" :> Text(9) @@ "igatePasscode" :> Text(5)
    @@ "igateFilter" :> Text(127) @@ "igateComment" :> Text(128)
    @@ "igateStatus" :> Text(49) @@ "igateSymbol" :> Symbol
    @@ Each({"igateLAT", "igateLON", "igateALT", "igatePHGGain",
             "igateFreqMHz"}, AnyNumber)
    @@ Each({"igateINV", "igateSTSIntv", "igatePHGPower", "igatePHGHeight",
             "igateFreqTone", "igateFreqOff"}, Cast(16))
    @@ "igatePHGDir" :> Cast(8) @@ "igateExtType" :> Reset(8, 0, 3, 0)
    @@ "igateRng" :> CastClamp(16, 0, 9999) @@ "igateDfsS" :> CastClamp(8, 0, 9)
    @@ "igateDfBrg" :> Turn(360)
    @@ Each({"igateDfN", "igateDfR", "igateDfQ"}, Clamp(0, 9))
    @@ "igateFreqDup" :> Clamp(-1, 1)

IgateLinkForm ==
    Each({"igateEn", "igateUseStation", "igateUseGps", "rf2inet", "inet2rf",
          "igateLogAfterFilters", "igateTimestamp", "srvEn"}, Box)
    @@ "igateMycall" :> Line(9) @@ "igateSSID" :> Spin(0, 15)
    @@ "igateSymbol" :> SymbolBox @@ "igatePath" :> PickOf(0 .. 8)
    @@ "igatePasscode" :> Line(5) @@ "igateFilter" :> Line(127)
    @@ "igateComment" :> Line(128)
    @@ "srvHost" :> Line(19) @@ "srvPort" :> Spin(1, 65535)

IgateBeaconForm ==
    Each({"igateBcn", "igateCompress", "igatePos2rf", "igatePos2inet",
          "igatePHGEn", "igatePHGUseStation"}, Box)
    @@ "igateINV" :> Spin(0, 65535)
    @@ "igateLAT" :> RealBox(-900000, 900000, 1)
    @@ "igateLON" :> RealBox(-1800000, 1800000, 1)
    @@ "igateALT" :> RealBox(-5000000, 100000000, 1000)
    @@ "igateExtType" :> PickOf(0 .. 3) @@ "igateRng" :> Spin(0, 9999)
    @@ "igateDfBrg" :> Spin(0, 359)
    @@ Each({"igateDfsS", "igateDfN", "igateDfR", "igateDfQ"}, Spin(0, 9))
    @@ "igatePHGPower" :> PickOf(SlotWatts) @@ "igatePHGGain" :> PickOf(0 .. 9)
    @@ "igatePHGHeight" :> PickOf(SlotHeights) @@ "igatePHGDir" :> PickOf(0 .. 8)

IgateStatusForm ==
    "igateSTSIntv" :> Spin(0, 65535) @@ "igateStatus" :> Line(49)
    @@ "igateFreqMHz" :> RealBox(0, 9999990, 10)
    @@ "igateFreqDup" :> PickOf({-1, 0, 1}) @@ "igateFreqOff" :> Spin(0, 65535)
    @@ "igateFreqTone" :> RealBox(0, 2541, 1)

IgateFilterForm ==
    Each({"rf2inetFilter", "inet2rfFilter"}, Boxes(TypesOffered))
    @@ Each({"rf2inetRangeEn", "rf2inetPrefixEn", "inet2rf3rdPartyUnwrapEn",
             "inet2rfRangeEn", "inet2rfPositionRequired", "inet2rfHeardOnly",
             "igateMsgGateEn"}, Box)
    @@ Each({"rf2inetRangeKm", "inet2rfRangeKm"}, RealBox(0, 200380000, 1000))
    @@ "rf2inetPrefixes" :> Line(39)
    @@ "inet2rfMinIntervalSec" :> Spin(0, 3600)
    @@ "igateLocalWindowSec" :> Spin(60, 3600) @@ "igateMsgMaxHops" :> Spin(0, 8)

IgateListsForm ==
    Each({"rf2inetBudlistMode", "inet2rfBudlistMode"}, PickOf(0 .. 2))
    @@ Each({"budlist", "satgate"}, Line(9)) @@ "dupCacheEn" :> Box
    @@ "dupCacheSize" :> Spin(4, 40) @@ "dupCacheTimeoutMs" :> Spin(1000, 120000)

IgateLinkPost ==
    Each({"igateEn", "igateUseStation", "igateUseGps", "rf2inet", "inet2rf",
          "igateBcn", "igatePos2rf", "igatePos2inet", "igateTimestamp",
          "srvEn", "igateLogAfterFilters"}, Flag)
    @@ "igateMycall" :> Text(6) @@ "igateSSID" :> Clamp(0, 15)
    @@ "igatePasscode" :> Text(5) @@ "srvHost" :> Text(19)
    @@ "srvPort" :> Clamp(1, 65535) @@ "igateFilter" :> Text(127)
    @@ "igateSymbol" :> Symbol

IgateBeaconPost ==
    Each({"igateLAT", "igateLON", "igateALT", "igatePHGGain"}, AnyNumber)
    @@ Each({"igateINV", "igateSTSIntv", "igatePHGPower", "igatePHGHeight"},
            Cast(16))
    @@ Each({"igateCompress", "igatePHGEn", "igatePHGUseStation"}, Flag)
    @@ "igateExtType" :> Reset(0, 0, 3, 0) @@ "igateRng" :> Clamp(0, 9999)
    @@ Each({"igateDfsS", "igateDfN", "igateDfR", "igateDfQ"}, Clamp(0, 9))
    @@ "igateDfBrg" :> Turn(360) @@ "igatePHGDir" :> Cast(8)
    @@ "igatePath" :> Cast(8) @@ "igateComment" :> Text(128)
    @@ "igateStatus" :> Text(49) @@ "igateFreqMHz" :> Clamp(0, Limit)
    @@ "igateFreqDup" :> OneOf({-1, 1}, 0)
    @@ Each({"igateFreqOff", "igateFreqTone"}, Clamp(0, 65535))

IgateFilterPost ==
    Each({"rf2inetFilter", "inet2rfFilter"}, Bits(TypesOffered))
    @@ Each({"rf2inetRangeEn", "rf2inetPrefixEn", "inet2rfRangeEn",
             "inet2rfPositionRequired", "inet2rfHeardOnly",
             "inet2rf3rdPartyUnwrapEn", "igateMsgGateEn"}, Flag)
    @@ Each({"rf2inetRangeKm", "inet2rfRangeKm"}, Clamp(0, 200380000))
    @@ "rf2inetPrefixes" :> Text(39)
    @@ "inet2rfMinIntervalSec" :> Clamp(0, 3600)
    @@ "igateLocalWindowSec" :> Clamp(60, 3600) @@ "igateMsgMaxHops" :> Clamp(0, 8)

IgateListsPost ==
    Each({"rf2inetBudlistMode", "inet2rfBudlistMode"}, OneOf({1, 2}, 0))
    @@ Each({"budlist", "satgate"}, Text(6)) @@ "dupCacheEn" :> Flag
    @@ "dupCacheSize" :> Clamp(4, 40) @@ "dupCacheTimeoutMs" :> Clamp(1000, 120000)

IgateRead == IgateGateRead @@ IgateBeaconRead
IgateForm == IgateLinkForm @@ IgateBeaconForm @@ IgateStatusForm
             @@ IgateFilterForm @@ IgateListsForm
IgatePost == IgateLinkPost @@ IgateBeaconPost @@ IgateFilterPost
             @@ IgateListsPost
---------------------------------------------------------------------------
BmDefaults == "bmEn" :> 0 @@ "bmMonitor" :> 0 @@ "bmMsgInetOnly" :> 1
              @@ "bmGateways" :> 0
(* Faulty variant: the writer forgets a key its reader knows.              *)
BmWriteForgets == {"bmEn", "bmMonitor", "bmMsgInetOnly"}

BmWrite == {"bmEn", "bmMonitor", "bmMsgInetOnly", "bmGateways"}
(* The monitor's interlock with the range filter is in SettingsFiles.      *)
BmRead == Each({"bmEn", "bmMonitor", "bmMsgInetOnly"}, Flag)
              @@ "bmGateways" :> Text(9)
BmForm == Each({"bmEn", "bmMonitor", "bmMsgInetOnly"}, Box)
              @@ "bmGateways" :> Line(9)
BmPost == Each({"bmEn", "bmMonitor", "bmMsgInetOnly"}, Flag)
              @@ "bmGateways" :> Text(9)

---------------------------------------------------------------------------
DigiDefaults ==
    Each({"digiBcn", "digiTrapNClamp", "digiPath", "digiAliasMode",
          "digiSSID", "digiPHGPower"}, 1)
    @@ Each({"digiEn", "digiPos2rf", "digiPos2inet", "digiTime",
             "digiUseStation", "digiUseGps", "digiFillinOnly",
             "digiDestSsidEn", "digiPreempt", "digiCompress", "digiAlt",
             "digiLAT", "digiLON", "digiSymbol", "digiSTSIntv", "digiStatus",
             "digiPHGEn", "digiPHGUseStation", "digiPHGDir", "digiExtType",
             "digiRng", "digiDfsS", "digiDfBrg", "digiDfN", "digiDfR",
             "digiDfQ", "digiFreqMHz", "digiFreqTone", "digiFreqDup",
             "digiFreqOff"}, 0)
    @@ "digiMycall" :> 6 @@ "digiINV" :> 30 @@ "digiComment" :> 18
    @@ "digiAlias" :> 5 @@ "digiAliasMaxN" :> 2
    @@ "digiPHGGain" :> 6 @@ "digiPHGHeight" :> 10 @@ "path" :> 15

DigiWrite ==
    {"digiEn", "digiPos2rf", "digiPos2inet", "digiTime", "digiSSID",
     "digiMycall", "digiUseStation", "digiUseGps", "digiPath", "digiAlias",
     "digiAliasMaxN", "digiAliasMode", "digiFillinOnly", "digiTrapNClamp",
     "digiDestSsidEn", "digiPreempt", "digiBcn", "digiCompress", "digiAlt",
     "digiLAT", "digiLON", "digiINV", "digiSymbol", "digiComment",
     "digiSTSIntv", "digiStatus", "digiPHGEn", "digiPHGUseStation",
     "digiPHGPower", "digiPHGGain", "digiPHGHeight", "digiPHGDir",
     "digiExtType", "digiRng", "digiDfsS", "digiDfBrg", "digiDfN", "digiDfR",
     "digiDfQ", "digiFreqMHz", "digiFreqTone", "digiFreqDup", "digiFreqOff",
     "path"}

DigiRead ==
    Each({"digiEn", "digiPos2rf", "digiPos2inet", "digiTime",
          "digiUseStation", "digiUseGps", "digiFillinOnly", "digiTrapNClamp",
          "digiDestSsidEn", "digiBcn", "digiCompress", "digiPHGEn",
          "digiPHGUseStation"}, Flag)
    @@ Each({"digiSSID", "digiPath", "digiPHGDir"}, Cast(8))
    @@ Each({"digiINV", "digiSTSIntv", "digiPHGPower", "digiPHGHeight",
             "digiFreqTone", "digiFreqOff"}, Cast(16))
    @@ Each({"digiAlt", "digiLAT", "digiLON", "digiPHGGain", "digiFreqMHz"},
            AnyNumber)
    @@ "digiMycall" :> Text(9) @@ "digiAlias" :> Text(6)
    @@ "digiAliasMaxN" :> CastClamp(8, 1, 7)
    @@ Each({"digiAliasMode", "digiPreempt"}, Reset(8, 0, 2, 0))
    @@ "digiSymbol" :> Symbol @@ "digiComment" :> Text(128)
    @@ "digiStatus" :> Text(49) @@ "digiExtType" :> Reset(8, 0, 3, 0)
    @@ "digiRng" :> CastClamp(16, 0, 9999) @@ "digiDfsS" :> CastClamp(8, 0, 9)
    @@ "digiDfBrg" :> Turn(360)
    @@ Each({"digiDfN", "digiDfR", "digiDfQ"}, Clamp(0, 9))
    @@ "digiFreqDup" :> Clamp(-1, 1) @@ "path" :> Text(71)

DigiRepeatForm ==
    Each({"digiEn", "digiUseStation", "digiUseGps", "digiTime",
          "digiFillinOnly", "digiDestSsidEn", "digiBcn", "digiPos2rf",
          "digiPos2inet", "digiCompress"}, Box)
    @@ "digiMycall" :> Line(9) @@ "digiSSID" :> Spin(0, 15)
    @@ "digiPath" :> Boxes(4) @@ "digiTrapNClamp" :> PickOf({0, 1})
    @@ "digiAlias" :> Line(6) @@ "digiAliasMaxN" :> Spin(1, 7)
    @@ Each({"digiAliasMode", "digiPreempt"}, PickOf(0 .. 2))
    @@ "digiLAT" :> RealBox(-900000, 900000, 1)
    @@ "digiLON" :> RealBox(-1800000, 1800000, 1)
    @@ "digiAlt" :> RealBox(-5000000, 100000000, 1000)
    @@ "digiINV" :> Spin(0, 65535) @@ "digiSymbol" :> SymbolBox
    @@ "digiComment" :> Line(128)

DigiBeaconForm ==
    Each({"digiPHGEn", "digiPHGUseStation"}, Box)
    @@ "digiExtType" :> PickOf(0 .. 3) @@ "digiRng" :> Spin(0, 9999)
    @@ "digiDfBrg" :> Spin(0, 359)
    @@ Each({"digiDfsS", "digiDfN", "digiDfR", "digiDfQ"}, Spin(0, 9))
    @@ "digiPHGPower" :> PickOf(SlotWatts) @@ "digiPHGGain" :> PickOf(0 .. 9)
    @@ "digiPHGHeight" :> PickOf(SlotHeights) @@ "digiPHGDir" :> PickOf(0 .. 8)

DigiStatusForm ==
    "digiSTSIntv" :> Spin(0, 65535) @@ "digiStatus" :> Line(49)
    @@ "digiFreqMHz" :> RealBox(0, 9999990, 10)
    @@ "digiFreqDup" :> PickOf({-1, 0, 1}) @@ "digiFreqOff" :> Spin(0, 65535)
    @@ "digiFreqTone" :> RealBox(0, 2541, 1) @@ "path" :> Line(71)

DigiForm == DigiRepeatForm @@ DigiBeaconForm @@ DigiStatusForm

(* The path mask is cut to the hop budget in SettingsFiles.                *)
DigiRepeatPost ==
    Each({"digiEn", "digiUseStation", "digiUseGps", "digiTime",
          "digiFillinOnly", "digiDestSsidEn", "digiBcn", "digiPos2rf",
          "digiPos2inet", "digiCompress"}, Flag)
    @@ Each({"digiLAT", "digiLON", "digiAlt"}, AnyNumber)
    @@ "digiMycall" :> Text(6) @@ "digiSSID" :> Clamp(0, 15)
    @@ "digiPath" :> Bits(4) @@ "digiTrapNClamp" :> OneOf({0, 1}, 1)
    @@ "digiAlias" :> Text(6) @@ "digiAliasMaxN" :> Clamp(1, 7)
    @@ Each({"digiAliasMode", "digiPreempt"}, OneOf({1, 2}, 0))
    @@ "digiINV" :> Cast(16) @@ "digiSymbol" :> Symbol

DigiBeaconPost ==
    Each({"digiPHGEn", "digiPHGUseStation"}, Flag)
    @@ "digiExtType" :> Reset(0, 0, 3, 0) @@ "digiRng" :> Clamp(0, 9999)
    @@ Each({"digiDfsS", "digiDfN", "digiDfR", "digiDfQ"}, Clamp(0, 9))
    @@ "digiDfBrg" :> Turn(360)
    @@ Each({"digiPHGPower", "digiPHGHeight", "digiSTSIntv"}, Cast(16))
    @@ "digiPHGGain" :> AnyNumber @@ "digiPHGDir" :> Cast(8)
    @@ "digiComment" :> Text(128) @@ "digiStatus" :> Text(49)
    @@ "digiFreqMHz" :> Clamp(0, Limit) @@ "digiFreqDup" :> OneOf({-1, 1}, 0)
    @@ Each({"digiFreqOff", "digiFreqTone"}, Clamp(0, 65535))
    @@ "path" :> Text(71)

DigiPost == DigiRepeatPost @@ DigiBeaconPost

-----------------------------------------------------------------------------
(***************************************************************************)
(* The settings of the stores that are not sections of g_config: one       *)
(* bulletin, one object or item, and the telemetry configuration, with the *)
(* channels and bits of one kind as one setting.  A decay ratio and a tone *)
(* are counted in tenths.  What only the service sets (when a bulletin     *)
(* expires, how many kill reports an object owes) belongs to BeaconStores. *)
(***************************************************************************)
NoMore == Limit - 3   \* no bound of its own

(* A reader that takes a number only above a bound, and keeps the default  *)
(* otherwise.  (What C makes of a number beyond the field's type is not    *)
(* told; the station writes none.)                                         *)
Above(low, high, def) == Reset(0, low, high, def)

(* A handler that raises a number to zero before it stores it in an        *)
(* unsigned type.                                                          *)
FromZero(high) == Clamp(0, high)

---------------------------------------------------------------------------
BulletinFlags == {"bEn", "bRf", "bInet"}
BulletinDefaults ==
    Each(BulletinFlags \cup {"bId", "bGrp", "bMsg", "bInt", "bSlow", "bDecay",
                             "bExp"}, 0)
(* Faulty variant: the decay is left out of the file.                      *)
BulletinWriteNoDecay == DOMAIN BulletinDefaults \ {"bDecay"}
BulletinWrite == DOMAIN BulletinDefaults
BulletinRead ==
    Each(BulletinFlags, Flag) @@ "bId" :> Text(1) @@ "bGrp" :> Text(5)
    @@ "bMsg" :> Text(67) @@ Each({"bInt", "bSlow", "bExp"}, Above(1, NoMore, 0))
    @@ "bDecay" :> Above(1, 65535, 0)
BulletinForm ==
    Each(BulletinFlags, Box) @@ "bId" :> Line(1) @@ "bGrp" :> Line(5)
    @@ "bMsg" :> Line(67) @@ Each({"bInt", "bSlow"}, Spin(0, 86400))
    @@ "bDecay" :> RealBox(0, 100, 1) @@ "bExp" :> Spin(0, 8760)
BulletinPost ==
    Each(BulletinFlags, Flag) @@ "bId" :> Text(1) @@ "bGrp" :> Text(5)
    @@ "bMsg" :> Text(67) @@ Each({"bInt", "bSlow", "bExp"}, FromZero(NoMore))
    @@ "bDecay" :> FromZero(65535)

---------------------------------------------------------------------------
(* A course: 360, the first past the circle, and less than 0 are 0.        *)
Course == OneOf(0 .. 359, 0)

(* An object or item.  (Its direction-finding fields have no control: the  *)
(* page keeps what the file says.)                                         *)
ObjectFlags ==
    {"oEn", "oRf", "oInet", "oType", "oPerm", "oAct", "oCompress", "oRxEn",
     "oDcsEn", "oNarrow", "oRngU", "oPhgEn", "oPhgUS"}
ObjectDefaults ==
    Each((ObjectFlags \ {"oAct"})
         \cup {"oName", "oLat", "oLon", "oSym", "oCrs", "oSpd", "oScope",
               "oCmt", "oAType", "oAColor", "oALat", "oALon", "oAWidth",
               "oSign", "oFreq", "oRxFreq", "oDup", "oOfs", "oTone", "oDcs",
               "oRng", "oPath", "oQru", "oInt", "oSlow", "oDecay", "oPhgP",
               "oPhgG", "oPhgD"}, 0)
    @@ "oAct" :> 1 @@ "oPhgH" :> 10
ObjectWrite == DOMAIN ObjectDefaults

ObjectPlaceRead ==
    Each(ObjectFlags, Flag) @@ "oName" :> Text(9)
    @@ Each({"oLat", "oLon", "oSym"}, AnyNumber) @@ "oCrs" :> Course
    @@ "oSpd" :> Above(1, 65535, 0) @@ "oScope" :> Clamp(0, 2)
    @@ "oCmt" :> Text(43) @@ "oAType" :> Clamp(0, 9) @@ "oAColor" :> Clamp(0, 15)
    @@ Each({"oALat", "oALon"}, Above(0, NoMore, 0)) @@ "oAWidth" :> Clamp(0, 999)
    @@ "oSign" :> Text(3)

ObjectRadioRead ==
    Each({"oFreq", "oRxFreq"}, Above(1, NoMore, 0)) @@ "oDup" :> OneOf(0 .. 2, 1)
    @@ Each({"oOfs", "oTone"}, Above(0, 65535, 0)) @@ "oDcs" :> Clamp(0, 511)
    @@ "oRng" :> Clamp(0, 99) @@ "oPath" :> Turn(16) @@ "oQru" :> Text(8)
    @@ Each({"oInt", "oSlow"}, Above(1, NoMore, 0))
    @@ "oDecay" :> Above(1, 65535, 0)
    @@ "oPhgP" :> Above(0, 65535, 0) @@ "oPhgG" :> Above(0, NoMore, 0)
    @@ "oPhgH" :> Above(1, 65535, 10) @@ "oPhgD" :> Above(0, 255, 0)

ObjectRead == ObjectPlaceRead @@ ObjectRadioRead

ObjectForm ==
    Each(ObjectFlags \ {"oType", "oRngU"}, Box)
    @@ Each({"oType", "oRngU"}, PickOf({0, 1}))
    @@ "oName" :> Line(9) @@ "oLat" :> RealBox(-900000, 900000, 1)
    @@ "oLon" :> RealBox(-1800000, 1800000, 1) @@ "oSym" :> SymbolBox
    @@ "oCrs" :> Spin(0, 359) @@ "oSpd" :> Spin(0, 999)
    @@ "oScope" :> PickOf(0 .. 2) @@ "oCmt" :> Line(43)
    @@ "oAType" :> PickOf(0 .. 9) @@ "oAColor" :> Spin(0, 15)
    @@ Each({"oALat", "oALon"}, RealBox(0, 65340, 100))
    @@ "oAWidth" :> Spin(0, 999) @@ "oSign" :> Line(3)
    @@ Each({"oFreq", "oRxFreq"}, RealBox(0, 9999990, 10))
    @@ "oDup" :> PickOf(0 .. 2) @@ "oOfs" :> Spin(0, 65535)
    @@ "oTone" :> RealBox(0, 2541, 1) @@ "oDcs" :> Spin(0, 511)
    @@ "oRng" :> Spin(0, 99) @@ "oPath" :> Boxes(4) @@ "oQru" :> Line(8)
    @@ Each({"oInt", "oSlow"}, Spin(0, 86400)) @@ "oDecay" :> RealBox(0, 100, 1)

(* The PHG group: its own choices, greyed while it follows the station's.  *)
ObjectPhgForm ==
    "oPhgP" :> PickOf({0, 1, 5, 10, 15, 25, 35, 50, 65, 80})
    @@ "oPhgG" :> PickOf(0 .. 9) @@ "oPhgD" :> PickOf(0 .. 8)
    @@ "oPhgH" :> PickOf({10 * 2 ^ code : code \in 0 .. 12})

(* A speed, a power or a height that does not fit wraps.                   *)
ObjectPost ==
    Each(ObjectFlags, Flag) @@ "oName" :> Text(9)
    @@ Each({"oLat", "oLon"}, AnyNumber) @@ "oSym" :> OneOf({0, 1}, Unchanged)
    @@ "oCrs" :> Course @@ "oSpd" :> Stored(FromZero(NoMore), 16)
    @@ "oScope" :> Clamp(0, 2) @@ "oCmt" :> Text(43) @@ "oAType" :> Clamp(0, 9)
    @@ "oAColor" :> Clamp(0, 15) @@ Each({"oALat", "oALon"}, Clamp(0, 65340))
    @@ "oAWidth" :> Clamp(0, 999) @@ "oSign" :> Text(3)
    @@ Each({"oFreq", "oRxFreq"}, FromZero(NoMore))

ObjectPostRest ==
    "oDup" :> OneOf(0 .. 2, 0)
    @@ Each({"oOfs", "oTone", "oDecay"}, FromZero(65535))
    @@ "oDcs" :> Clamp(0, 511) @@ "oRng" :> Clamp(0, 99) @@ "oPath" :> Bits(4)
    @@ "oQru" :> Text(8) @@ Each({"oInt", "oSlow"}, FromZero(NoMore))
    @@ "oPhgP" :> Stored(FromZero(NoMore), 16) @@ "oPhgG" :> Clamp(0, 9)
    @@ "oPhgH" :> Stored(Reset(0, 1, NoMore, 10), 16) @@ "oPhgD" :> Clamp(0, 8)

---------------------------------------------------------------------------
Coefficients == {"anaA", "anaB", "anaC"}   \* of y = a x^2 + b x + c
SensorChannels == {"anaCh", "tlmBitCh"}

TlmFlags ==
    {"tlm0En", "tlm0Tx2rf", "tlm0Tx2inet", "tlm0UseStation", "autoSeq",
     "omitTrail", "cmtTlm", "genPARM", "genUNIT", "genEQNS", "genBITS", "anaRF",
     "anaInet", "digRF", "digInet", "anaEn", "bitEn", "bitSense",
     "tlmBitIgate", "tlmBitRF"}
TlmOn == {"autoSeq", "genPARM", "genUNIT", "genEQNS", "genBITS", "anaEn",
          "bitEn", "bitSense"}
TlmDefaults ==
    Each(TlmFlags \ TlmOn, 0) @@ Each(TlmOn, 1)
    @@ Each({"tlm0SSID", "tlm0Mycall", "tlm0Path", "rptPath", "fieldW",
             "trailCmt", "projTitle", "anaName", "anaUnit", "bitName", "bitOn",
             "anaA", "anaC", "anaRawMin", "anaDec"} \cup SensorChannels, 0)
    @@ "tlm0DataInv" :> 600 @@ "tlm0InfoInv" :> 3600 @@ "tocall" :> 4
    @@ "anaCount" :> 5 @@ "digCount" :> 8 @@ "anaB" :> 10000
    @@ "anaRawMax" :> 1023
TlmWrite == DOMAIN TlmDefaults

(* Both keep a driver's place in a byte.                                   *)
TlmNumbers ==
    Each({"tlm0DataInv", "tlm0InfoInv"}, Cast(16))
    @@ Each({"fieldW", "anaCount", "digCount", "anaDec"}, Cast(8))
    @@ Each(Coefficients \cup {"anaRawMin", "anaRawMax"}, AnyNumber)
    @@ "rptPath" :> Text(63) @@ "tocall" :> Text(6) @@ "trailCmt" :> Text(31)
    @@ "projTitle" :> Text(23) @@ "bitName" :> Text(20) @@ "anaName" :> Text(9)
    @@ Each({"anaUnit", "bitOn"}, Text(7))

TlmRead ==
    TlmNumbers @@ Each(TlmFlags, Flag) @@ Each({"tlm0SSID", "tlm0Path"}, Cast(8))
    @@ "tlm0Mycall" :> Text(9) @@ Each(SensorChannels, OneOf(0 .. 2, 0))

TlmBeaconForm ==
    Each(TlmFlags, Box) @@ "tlm0Mycall" :> Line(9) @@ "tlm0SSID" :> Spin(0, 15)
    @@ "tlm0Path" :> Boxes(4) @@ Each({"tlm0DataInv", "tlm0InfoInv"}, Spin(0, 65535))
    @@ "rptPath" :> Line(63) @@ "tocall" :> Line(6) @@ "fieldW" :> PickOf({0, 3})
    @@ "trailCmt" :> Line(31) @@ "anaCount" :> PickOf(1 .. 5)
    @@ "digCount" :> PickOf(0 .. 8)

TlmAnalogForm ==
    "anaCh" :> PickOf(0 .. 2) @@ "anaName" :> Line(8) @@ "anaUnit" :> Line(6)
    @@ Each({"anaRawMin", "anaRawMax"}, Spin(-NoMore, NoMore))
    @@ Each(Coefficients, RealBox(-NoMore, NoMore, 1)) @@ "anaDec" :> Spin(0, 9)

TlmDigitalForm ==
    "projTitle" :> Line(23) @@ "bitName" :> Line(20) @@ "bitOn" :> Line(6)
    @@ "tlmBitCh" :> PickOf(0 .. 2)

TlmPost ==
    TlmNumbers @@ Each(TlmFlags, Flag) @@ "tlm0Mycall" :> Text(6)
    @@ "tlm0SSID" :> Clamp(0, 15) @@ "tlm0Path" :> Bits(4)
    @@ Each(SensorChannels, Cast(8))

(* The file keeps six digits of a coefficient (%g) and the number else.    *)
SixDigits(value) ==
    LET size == IF value < 0 THEN -value ELSE value
        unit == CASE size < 1000000   -> 1
                  [] size < 10000000  -> 10
                  [] size < 100000000 -> 100
                  [] size < 1000000000 -> 1000
                  [] OTHER            -> 10000
        kept == ((size + unit \div 2) \div unit) * unit
    IN  IF value < 0 THEN -kept ELSE kept

-----------------------------------------------------------------------------

CONSTANT Unsettled   \* <<setting, choice>> pairs the run leaves out

Section(defaults, write, read, form, post) ==
    [defaults |-> defaults, write |-> write, read |-> read, form |-> form,
     post |-> post]

(* SECTIONS, and the four stores of the same kind: each has its reader,   *)
(* its writer and the page that edits it.                                  *)
Sections ==
    [system        |-> Section(SystemDefaults, SystemWrite, SystemRead,
                               SystemForm, SystemPost),
     station       |-> Section(StationDefaults, StationWrite, StationRead,
                               StationForm, StationPost),
     wireless      |-> Section(WirelessDefaults, WirelessWrite, WirelessRead,
                               WirelessForm, WirelessPost),
     radio         |-> Section(RadioDefaults, RadioWrite, RadioRead,
                               RadioControls, RadioPost),
     igate         |-> Section(IgateDefaults, IgateWrite, IgateRead,
                               IgateForm, IgatePost),
     brandmeister  |-> Section(BmDefaults, BmWrite, BmRead, BmForm, BmPost),
     digipeater    |-> Section(DigiDefaults, DigiWrite, DigiRead, DigiForm,
                               DigiPost),
     tracker       |-> Section(TrackerDefaults, TrackerWrite, TrackerRead,
                               TrackerForm, TrackerPost),
     weather       |-> Section(WeatherDefaults, WeatherWrite, WeatherRead,
                               WeatherForm, WeatherPost),
     gps           |-> Section(GpsDefaults, GpsWrite, GpsRead, GpsForm,
                               GpsPost),
     message       |-> Section(MessageDefaults, MessageWrite, MessageRead,
                               MessageForm, MessagePost),
     winlink       |-> Section(WinlinkDefaults, WinlinkWrite, WinlinkRead,
                               WinlinkForm, WinlinkPost),
     query         |-> Section(QueryDefaults, QueryWrite, QueryRead,
                               QueryForm, QueryPost),
     telegram      |-> Section(TelegramDefaults, TelegramWrite, TelegramRead,
                               TelegramForm, TelegramPost),
     bulletin      |-> Section(BulletinDefaults, BulletinWrite, BulletinRead,
                               BulletinForm, BulletinPost),
     object        |-> Section(ObjectDefaults, ObjectWrite, ObjectRead,
                               ObjectForm @@ ObjectPhgForm,
                               ObjectPost @@ ObjectPostRest),
     telemetry     |-> Section(TlmDefaults, TlmWrite, TlmRead,
                               TlmBeaconForm @@ TlmAnalogForm @@ TlmDigitalForm,
                               TlmPost)]

(* The entries tried for each setting.                                     *)
Entered ==
    [name \in DOMAIN Sections |->
        [setting \in DOMAIN Sections[name].defaults |->
            Entries(Sections[name].form[setting],
                    {Sections[name].read[setting], Sections[name].post[setting]})]]

VARIABLES
    section, key,  \* the setting this behaviour follows
    live,          \* its value in g_config
    file,          \* its value in the section's file
    byPage         \* g_config's value was chosen on the page, or is the factory's
valueVars == <<section, key, live, file, byPage>>

Table   == Sections[section]
Control == Table.form[key]
Tried   == Entered[section][key]
Enterable == {value \in Tried : Accepted(Control, value)
                              /\ <<key, value>> \notin Unsettled}

ValueInit ==
    /\ section \in DOMAIN Sections
    /\ key \in DOMAIN Sections[section].defaults
    /\ live = Sections[section].defaults[key]
    /\ file = live
    /\ byPage = TRUE

(* What g_config holds once the handler has run on an entry.               *)
Posted(value) == Ruled(Table.post[key], live, value)

(* What it holds once the page has been saved as it was shown.             *)
Resaved(value) == Ruled(Table.post[key], value, Shown(Control, value))

(* What it holds after the section is read over the factory values: a key  *)
(* the writer leaves out of the file comes back as the factory's.          *)
Loaded(value) ==
    IF key \in Table.write THEN Ruled(Table.read[key], Table.defaults[key], value)
    ELSE Table.defaults[key]

(* What is read back of a value written.                                   *)
Written(value) == IF key \in Coefficients THEN SixDigits(value) ELSE value

(* The section's save, which may fail: g_config keeps the value, the file  *)
(* the old one, and the page says so.                                      *)
SaveSection == file' = Written(live') \/ file' = file

(* The operator changes the control and presses Save.                      *)
ChooseValue(value) ==
    /\ value \in Enterable
    /\ live' = Posted(value)
    /\ SaveSection
    /\ byPage' = TRUE
    /\ UNCHANGED <<section, key>>

(* The operator presses Save for something else on the page.               *)
Resubmit ==
    /\ live' = Resaved(live)
    /\ SaveSection
    /\ UNCHANGED <<section, key, byPage>>

(* A request from something other than the page.                           *)
PostRaw(value) ==
    /\ value \in Tried
    /\ live' = Posted(value)
    /\ SaveSection
    /\ byPage' = FALSE
    /\ UNCHANGED <<section, key>>

(* A backup is uploaded over the section's file; it counts after a reboot  *)
(* (a save before that overwrites it).                                     *)
Restore(value) ==
    /\ value \in Tried
    /\ file' = value /\ live' = Loaded(value)
    /\ byPage' = FALSE
    /\ UNCHANGED <<section, key>>

Reboot ==
    /\ live' = Loaded(file)
    /\ byPage' = (byPage /\ file = live)
    /\ UNCHANGED <<section, key, file>>

ResetValue ==
    /\ live' = Table.defaults[key] /\ file' = Written(live')
    /\ byPage' = TRUE
    /\ UNCHANGED <<section, key>>

ValueNext ==
    \/ \E value \in Tried : ChooseValue(value)
    \/ Resubmit
    \/ \E value \in Tried : PostRaw(value)
    \/ \E value \in Tried : Restore(value)
    \/ Reboot
    \/ ResetValue

ValueSpec == ValueInit /\ [][ValueNext]_valueVars

---------------------------------------------------------------------------
(* Whatever a page, a script or a restored file put in a store, a saved    *)
(* setting is the same after a reboot, a coefficient to six digits: the    *)
(* writer writes it, and the reader takes back every value a handler lets  *)
(* through.  (Except that a request may name a sensor there is none of, or *)
(* a height too large for its field: these come back as the default.)      *)
SurvivesReboot ==
    (key \in SensorChannels \cup {"wxSenCH", "oPhgH"} => byPage)
    => Loaded(Written(live)) = Written(live)

(* Saving a page changes nothing but what the operator changed: what the   *)
(* page shows of a setting is what its handler makes that setting again.   *)
(* When a file or a script put in a value the page cannot show, the second *)
(* save at the latest settles it (the first may bring it to a bound that   *)
(* has more decimals than the page shows).                                 *)
FormKeepsSettings ==
    LET once == Resaved(live)
    IN  /\ byPage => once = live
        /\ Resaved(Resaved(once)) = Resaved(once)

(* A choice the page offers and a number within the bounds it prints is    *)
(* the one kept (a text may be cut, and an even number of filter taps is   *)
(* made odd).                                                              *)
ChoiceKept ==
    Control.kind # "line" =>
        \A value \in Enterable : Posted(value) = OnGrid(Table.post[key].grid, value)

(* The page, its handler, the writer and the reader of a setting agree.    *)
ValuesSound == SurvivesReboot /\ FormKeepsSettings /\ ChoiceKept
=============================================================================
