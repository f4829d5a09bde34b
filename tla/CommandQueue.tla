---------------------------- MODULE CommandQueue ----------------------------
(***************************************************************************)
(* What the command queue of components/winlink/winlink.c promises: a      *)
(* bounded first-in first-out queue that can be emptied at any moment,     *)
(* also in the same step as an append.                                     *)
(***************************************************************************)
EXTENDS Naturals, Sequences

CONSTANTS Capacity, Element
VARIABLE q

Init == q = <<>>

Append1(c) == Len(q) < Capacity /\ q' = Append(q, c)
Take == q # <<>> /\ q' = Tail(q)
Empty == q' = <<>>
Restart(c) == q' = <<c>>

Next == (\E c \in Element : Append1(c) \/ Restart(c)) \/ Take \/ Empty

Spec == Init /\ [][Next]_q
=============================================================================
