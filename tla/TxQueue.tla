------------------------------ MODULE TxQueue ------------------------------
(***************************************************************************)
(* What the RF transmit path promises its callers: frames leave in the     *)
(* order they were accepted, each at most once.  The only other way out is *)
(* to be thrown away together with everything else that is waiting, which  *)
(* is what an abandoned key-up and a rebuild of the receive chain do.      *)
(***************************************************************************)
EXTENDS Naturals, Sequences

VARIABLES queue, \* frames accepted and not yet gone
          sent   \* frames that went out, oldest first

Init == queue = <<>> /\ sent = <<>>

Accept == /\ Len(queue') = Len(queue) + 1
          /\ SubSeq(queue', 1, Len(queue)) = queue
          /\ UNCHANGED sent

Send == /\ queue # <<>>
        /\ sent' = Append(sent, Head(queue))
        /\ queue' = Tail(queue)

DiscardAll == queue' = <<>> /\ UNCHANGED sent

Next == Accept \/ Send \/ DiscardAll

Spec == Init /\ [][Next]_<<queue, sent>>
=============================================================================
