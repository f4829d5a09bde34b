------------------------------ MODULE HopSpec -------------------------------
(***************************************************************************)
(* What a digipeater promises about the path of a frame it repeats,        *)
(* without slots, counts or flags: the addresses that have been served, in *)
(* order, and those still to be served.  A hop serves one of the live      *)
(* addresses and loses none of the others.                                 *)
(***************************************************************************)
EXTENDS Naturals, Sequences, SequencesExt

CONSTANT Stations  \* callsigns of digipeaters
VARIABLES served, live,
          hops,    \* what the SSID of the destination asks for
          rules    \* the network's: limit, how far an alias may be repeated by
                   \* its name, traced, the aliases whose hops are signed, and
                   \* fixed, those that stand for a station

Own(s) == [call |-> s, ssid |-> 0]
Alias(a) == a.call \in DOMAIN rules.limit
Lesser(m, n) == IF m < n THEN m ELSE n
HopsOf(a) == Lesser(a.ssid, rules.limit[a.call])

\* The last hop an address asks for: the station signs in its place.
Finish(s, i) ==
  /\ Alias(live[i]) /\ HopsOf(live[i]) <= 1
  /\ served' = Append(served, Own(s)) /\ live' = RemoveAt(live, i)

\* Any other hop takes one off the count of an alias.
Spend(s, i) ==
  /\ Alias(live[i]) /\ HopsOf(live[i]) > 1
  /\ live' = [live EXCEPT ![i].ssid = HopsOf(live[i]) - 1]
  /\ served' = IF live[i].call \in rules.traced THEN Append(served, Own(s)) ELSE served

\* An explicit route: what stands in front of the station's name is done with.
Jump(s, i) ==
  /\ live[i] \in {Own(s)} \cup [call : rules.fixed, ssid : {0}]
  /\ live' = SubSeq(live, i + 1, Len(live))
  /\ served' \in {served \o SubSeq(live, 1, i - 1) \o <<Own(s)>>, <<Own(s)>>}

Hop(s) == (\E i \in DOMAIN live : Finish(s, i) \/ Spend(s, i) \/ Jump(s, i)) /\ UNCHANGED <<hops, rules>>

\* The destination asks for the hop: the station signs, the path is left alone.
DestHop(s) == hops \in 1 .. 7 /\ hops' = hops - 1 /\ served' = Append(served, Own(s))
              /\ UNCHANGED <<live, rules>>

Next == \E s \in Stations : Hop(s) \/ DestHop(s)
=============================================================================
