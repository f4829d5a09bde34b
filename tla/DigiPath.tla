------------------------------ MODULE DigiPath ------------------------------
(***************************************************************************)
(* The path rewriting of the digipeater: digiProcess() behind its test for *)
(* duplicates, followed over the hops of one copy of a frame that goes     *)
(* from a station running this code to the next.                           *)
(*                                                                         *)
(* A path is the C array of repeater addresses with its count and its      *)
(* has-been-repeated flags; the slots past the count are empty, as         *)
(* rx_dispatch() clears the message before it decodes a frame.  A callsign *)
(* is a name; a row of the alias table lists the names it matches.         *)
(***************************************************************************)
EXTENDS Naturals, Sequences, FiniteSets, FiniteSetsExt

CONSTANTS MaxRpt,     \* AX25_MAX_RPT
          Stations,   \* callsigns of digipeaters, each with SSID 0
          Table,      \* g_config.digi_alias: rows [names, fixed, max, mode]
          GateTokens, \* RFONLY, NOGATE
          NetTokens,  \* qA..., TCP...
          Sendable,   \* the addresses a station puts in a path
          Pages,      \* the settings of the Digi page: fillin, clamp, dest, preempt
          MaxDest,    \* bound: the SSID of the destination
          MaxFresh    \* bound: addresses of a frame as it was sent

ASSUME RptAssumption ==
  MaxRpt \in Nat /\ MaxRpt > 1 /\ MaxFresh \in 0 .. MaxRpt /\ MaxDest \in Nat
ASSUME PageAssumption ==
  Pages \subseteq [fillin : BOOLEAN, clamp : BOOLEAN, dest : BOOLEAN,
                   preempt : {"off", "mark", "discard"}]
\* The rows as app_config.c's reader leaves them: max is 1 to DIGI_ALIAS_MAX_N.
ASSUME TableAssumption ==
  /\ DOMAIN Table \subseteq Nat
  /\ \A r \in DOMAIN Table : Table[r] \in [names : SUBSET STRING, fixed : BOOLEAN,
                                         max : 1 .. 7, mode : {"off", "trace", "flood"}]
ASSUME CallAssumption ==
  /\ Sendable \subseteq [call : STRING, ssid : 0 .. 15] /\ Stations \subseteq STRING
  /\ "" \notin Stations \cup {a.call : a \in Sendable}
\* A gate token is the name of no station and of no place.
ASSUME TokenAssumption ==
  /\ Stations \cap GateTokens = {}
  /\ \A r \in DOMAIN Table : Table[r].fixed => Table[r].names \cap GateTokens = {}

Slots == 0 .. MaxRpt - 1
Empty == [call |-> "", ssid |-> 0]

VARIABLES frame, \* ax25_msg_t: entry, count, used, dst (the SSID of the destination)
          page,  \* the settings, the same at every station
          trail  \* history: who has repeated the copy, and whether it signed
vars == <<frame, page, trail>>

Fresh(path, dst) ==
  [entry |-> [k \in Slots |-> IF k < Len(path) THEN path[k + 1] ELSE Empty],
   count |-> Len(path), used |-> {}, dst |-> dst]

Init ==
  /\ \E n \in 0 .. MaxFresh, dst \in 0 .. MaxDest :
       \E path \in [1 .. n -> Sendable] : frame = Fresh(path, dst)
  /\ page \in Pages /\ (frame.dst > 0 => page.dest)
  /\ trail = <<>>

-----------------------------------------------------------------------------
(* Addresses and rows *)

In(f) == 0 .. f.count - 1
Unused(f) == In(f) \ f.used
Own(s) == [call |-> s, ssid |-> 0]

\* find_alias(): the rows that claim the name, of which the first counts
Rows(name) ==
  {r \in DOMAIN Table : /\ Table[r].mode # "off" /\ (page.fillin => Table[r].max = 1)
                        /\ name \in Table[r].names}

\* preempt_matches() and alias_is_preemptable()
PreemptMatches(s, a) ==
  \/ a = Own(s)
  \/ /\ a.ssid = 0
     /\ \E r \in DOMAIN Table :
          Table[r].mode # "off" /\ Table[r].fixed /\ a.call \in Table[r].names

\* Faulty variant: the addresses are not moved out of the way.
ShiftedNone(f, idx) == f
\* The loops of insert_own_call(): the addresses from idx to the next used one
\* move up a slot, none of them when the last would leave the array.
Shifted(f, idx) ==
  LET repeated == {k \in f.used : k \in idx .. f.count - 1}
      last == IF repeated = {} THEN f.count ELSE Min(repeated)
      moved == idx + 1 .. last + 1
  IN IF last + 1 >= MaxRpt THEN f
     ELSE [f EXCEPT !.entry = [k \in Slots |-> IF k \in moved THEN @[k - 1] ELSE @[k]],
                    !.used = {k \in Slots : (IF k \in moved THEN k - 1 ELSE k) \in @}]

\* copy_call() of the station's own callsign over an address, marked used
Claim(s, f, idx) == [f EXCEPT !.entry[idx] = Own(s), !.used = @ \cup {idx}]

\* insert_own_call()
InsertOwn(s, f, idx) == Claim(s, [Shifted(f, idx) EXCEPT !.count = @ + 1], idx)

\* digipeat_by_dest_ssid(), digiProcess(): a callsign is inserted only in
\* a path with a free slot
Room(f) == f.count < MaxRpt

\* What digiProcess() returns, and the frame it leaves behind.
Result(code, f) == [code |-> code, frame |-> f]

-----------------------------------------------------------------------------
(* The three routings *)

\* digipeat_by_dest_ssid(): 0 when it does not route the frame
ByDestSsid(s, f) ==
  LET open == {k \in In(f) : k \notin f.used \/ f.entry[k] = Own(s)}
      spent == [f EXCEPT !.dst = @ - 1]
  IN IF f.dst \notin 1 .. 7 THEN Result(0, f)
     ELSE IF f.count = 0 THEN Result(2, Claim(s, [spent EXCEPT !.count = 1], 0))
     ELSE IF open = {} \/ Min(open) \in f.used THEN Result(0, f)
     ELSE IF f.entry[Min(open)] = Own(s)
            THEN Result(1, [spent EXCEPT !.used = @ \cup {Min(open)}])
     ELSE IF Room(f) THEN Result(2, InsertOwn(s, spent, Min(open)))
     ELSE Result(0, f)

\* Faulty variant: only the match is marked, what was jumped over stays live.
PassedNone(first, match) == {}
\* The loop of DIGI_PREEMPT_MARK
PassedOver(first, match) == first .. match

\* digipeat_preemptive(): 0 when no match lies behind the first unused address
ByPreemption(s, f) ==
  LET matches == {k \in Unused(f) : PreemptMatches(s, f.entry[k])}
      match == Min(matches)
      first == Min(Unused(f))
      marked == [f EXCEPT !.used = @ \cup PassedOver(first, match)]
      kept == f.count - match
      headed == [f EXCEPT !.count = kept,
                   !.entry = [k \in Slots |-> IF k < kept THEN @[match + k] ELSE @[k]],
                   !.used = {k \in 0 .. kept - 1 : match + k \in @}]
  IN IF matches = {} \/ match = first THEN Result(0, f)
     ELSE IF page.preempt = "mark" THEN Result(2, Claim(s, marked, match))
     ELSE Result(2, Claim(s, headed, 0))

\* Faulty variant: the hop is not taken off.
HopsUnspent(row, n) == IF n > row.max THEN row.max ELSE n
\* The hop count an alias is left with
HopsLeft(row, n) == (IF n > row.max THEN row.max ELSE n) - 1

\* The alias branch of digiProcess()
ByAlias(s, f, idx, row) ==
  LET n == f.entry[idx].ssid
      g == InsertOwn(s, f, idx)
  IN IF n = 0 THEN Result(2, Claim(s, f, idx))
     ELSE IF n > row.max /\ ~page.clamp THEN Result(0, f)
     ELSE IF HopsLeft(row, n) = 0 THEN Result(2, Claim(s, f, idx))
     ELSE IF row.mode = "flood" THEN Result(2, [f EXCEPT !.entry[idx].ssid = HopsLeft(row, n)])
     ELSE IF ~Room(f) THEN Result(0, f)
     ELSE IF idx + 1 < MaxRpt
            THEN Result(2, [g EXCEPT !.entry[idx + 1].ssid = HopsLeft(row, n)])
     ELSE Result(2, g)

\* The first unused address decides; a gate token no alias claims is passed over.
ByTable(s, f) ==
  LET deciding == {k \in Unused(f) : \/ Rows(f.entry[k].call) # {}
                                     \/ f.entry[k].call \notin GateTokens}
      idx == Min(deciding)
      rows == Rows(f.entry[idx].call)
  IN IF deciding = {} THEN Result(0, f)
     ELSE IF rows # {} THEN ByAlias(s, f, idx, Table[Min(rows)])
     ELSE IF f.entry[idx] = Own(s) THEN Result(1, [f EXCEPT !.used = @ \cup {idx}])
     ELSE Result(0, f)

\* Faulty variant: a copy that has been here before is looked at again.
NeverBeenHere(s, f) == FALSE
BeenHere(s, f) == \E k \in In(f) : k \in f.used /\ f.entry[k] = Own(s)

\* digiProcess(), from the routings on
Digi(s, f) ==
  LET dest == IF page.dest THEN ByDestSsid(s, f) ELSE Result(0, f)
      ahead == IF page.preempt # "off" THEN ByPreemption(s, f) ELSE Result(0, f)
  IN IF dest.code # 0 THEN dest
     ELSE IF (\E k \in In(f) : f.entry[k].call \in NetTokens) \/ BeenHere(s, f)
       THEN Result(0, f)
     ELSE IF ahead.code # 0 THEN ahead
     ELSE ByTable(s, f)

-----------------------------------------------------------------------------
(* The air *)

\* ax25ToTnc2(), ax25_encode() and ax25_decode() into a cleared message: an
\* address without a callsign and an SSID leaves no token behind.
OnAir(f) ==
  LET sent == IF f.count > 0 /\ f.entry[f.count - 1] = Empty THEN f.count - 1 ELSE f.count
  IN [f EXCEPT !.count = sent, !.entry = [k \in Slots |-> IF k < sent THEN @[k] ELSE Empty]]

\* ax25_decode() refuses an address that is no callsign.
Decodable(f) == \A k \in In(f) : f.entry[k].call # ""

\* aprs_msg_callback() transmits a rewritten frame; somebody hears it.
Relay(s) ==
  LET r == Digi(s, frame)
  IN /\ Decodable(frame) /\ r.code = 2
     /\ frame' = OnAir(r.frame)
     /\ trail' = Append(trail, [by |-> s, 
                              signed |-> \E k \in r.frame.used : r.frame.entry[k] = Own(s)])
     /\ UNCHANGED page

Next == \E s \in Stations : Relay(s)

Spec == Init /\ [][Next]_vars

-----------------------------------------------------------------------------
(* Properties *)

\* The path never outgrows the array of an AX.25 frame, and its flags are
\* those of slots the array has (rpt_list, rpt_flags).
TypeOK ==
  /\ frame.count \in 0 .. MaxRpt /\ frame.used \subseteq In(frame)
  /\ DOMAIN frame.entry = Slots /\ frame.dst \in 0 .. MaxDest
  /\ \A k \in Slots : frame.entry[k].ssid \in 0 .. 15
  /\ trail \in Seq([by : Stations, signed : BOOLEAN])

\* The gate tokens that no alias claims: they ask nothing of a digipeater.
Tokens(f) == {k \in In(f) : f.entry[k].call \in GateTokens /\ Rows(f.entry[k].call) = {}}

\* The addresses at some slots, in the order of the slots.
Route(entry, slots) ==
  LET upTo[n \in 0 .. MaxRpt] ==
        IF n = 0 THEN <<>>
        ELSE IF n - 1 \in slots THEN Append(upTo[n - 1], entry[n - 1]) ELSE upTo[n - 1]
  IN upTo[MaxRpt]

At(f, slots) == Route(f.entry, slots \ Tokens(f))
Live(f)   == At(f, Unused(f))
Served(f) == At(f, In(f) \cap f.used)

\* The digipeaters' promise about a path (HopSpec), with the alias table in
\* force as the network's rules.
AliasNames == UNION {Table[r].names : r \in DOMAIN Table}
Aliases == {name \in AliasNames : Rows(name) # {}}
RowOf(name) == Table[Min(Rows(name))]
Places == {r \in DOMAIN Table : Table[r].mode # "off" /\ Table[r].fixed}
Network ==
  [limit  |-> [name \in Aliases |-> RowOf(name).max],
   traced |-> {name \in Aliases : RowOf(name).mode = "trace"},
   fixed  |-> UNION {Table[r].names : r \in Places}]
Hops == INSTANCE HopSpec WITH
  served <- Served(frame), live <- Live(frame), hops <- frame.dst, rules <- Network

\* Each hop serves one address, signs where it should, and leaves every other
\* address of the path as it was (the comments of insert_own_call(),
\* digipeat_preemptive() and the tracing branch), unless it inserts a callsign
\* in a path with one slot left.
HopKept == [][frame.count # MaxRpt - 1 => Hops!Next]_vars

\* The same of every path: "pushing the entry that was there (and every unused
\* entry after it) one slot down".
EveryHopKept == [][Hops!Next]_vars

\* The hops the addresses at some slots ask for, and one for each address.
AskedBy(entry, slots) ==
  LET upTo[n \in 0 .. MaxRpt] ==
        IF n = 0 THEN 0
        ELSE upTo[n - 1] + (IF n - 1 \in slots THEN entry[n - 1].ssid + 1 ELSE 0)
  IN upTo[MaxRpt]

\* What the unused addresses and the destination ask for.
Budget(f) == AskedBy(f.entry, Unused(f)) + (IF page.dest THEN f.dst ELSE 0)

\* What a frame can still ask of the network shrinks with every hop, whatever
\* stations hear it and in whatever order, so no frame circulates for ever.
EachRepeatSpends == [][Budget(frame') < Budget(frame)]_vars

\* A station that has signed a copy does not repeat what becomes of it ("has
\* been through here before"), unless an explicit route discarded the signature.
NoSecondVisit ==
  page.preempt # "discard" =>
    \A i, j \in DOMAIN trail : i < j /\ trail[i].signed => trail[j].by # trail[i].by

\* However the addresses were jumped over, the live part of a path is behind
\* its served part; only a gate token is left standing in front.
ServedFirst ==
  \A k \in frame.used, u \in Unused(frame) \ Tokens(frame) : k < u

\* A path in hand is one a digipeater further on can parse and serve, and no
\* station has served it twice (digirepeater.c:230-457).
PathSound == TypeOK /\ ServedFirst /\ NoSecondVisit

\* No hop takes RFONLY or NOGATE out of a path ("Left as-is here"): a frame that
\* asks not to be gated asks it at every hop, unless an explicit route discards
\* what was in front of the station; nor with one slot left (EveryHopKept).
GateTokenKept ==
  [][page.preempt # "discard" /\ frame.count # MaxRpt - 1 =>
       Cardinality(Tokens(frame')) = Cardinality(Tokens(frame))]_vars
\* Every hop of a frame is one the promise allows, keeps the gate tokens and
\* leaves less to ask for (digirepeater.c:215-457).
StepSound == HopKept /\ GateTokenKept /\ EachRepeatSpends
=============================================================================
